----------------------------- MODULE MCDeployment --------------------------
(* Workbooks and schedules for TLC: a clean workbook, and families that change *)
(* one thing of it each.                                                       *)
EXTENDS Deployment

T(n) == [t |-> "text", n |-> n]
N(n) == [t |-> "number", n |-> n]
D(n) == [t |-> "date", n |-> n]
Flag(n) == [t |-> "bool", n |-> n]

\* Names for text that is split or folded: "cased" n is text n in other letters,
\* "path" and "bar" 12 are texts 1 and 2 with a slash or a bar between them (text
\* 0 is empty), "long" n has n characters.
Cased(n) == [t |-> "cased", n |-> n]
Path(n) == [t |-> "path", n |-> n]
Bar(n) == [t |-> "bar", n |-> n]
Long(n) == [t |-> "long", n |-> n]

Part(n) == IF n = 0 THEN <<"none", 0>> ELSE <<"text", n>>
MCFolded(text) == IF text[1] = "cased" THEN <<"text", text[2]>> ELSE text
MCSegments(text) ==
    CASE text[1] = "path" -> <<<<Part(text[2] \div 10)>>, <<Part(text[2] % 10)>>>>
      [] text[1] = "bar" -> <<<<Part(text[2] \div 10), Part(text[2] % 10)>>>>
      [] OTHER -> <<<<MCFolded(text)>>>>
MCNormText(text) == IF text[1] = "bar" THEN <<"path", text[2]>> ELSE MCFolded(text)
MCLength(text) == IF text[1] = "long" THEN text[2] ELSE 1

H(names) == [i \in DOMAIN names |-> <<names[i]>>]

MCHeaders == [d \in Domains |-> H([i \in DOMAIN profile[d] |-> profile[d][i].field])]

Info(id, name, date) ==
    <<[key |-> "project_id", cell |-> id], [key |-> "project_name", cell |-> name],
      [key |-> "data_date", cell |-> date]>>

MCProject == T(1)
MCInfo == Info(MCProject, T(2), D(60))

Node(code, parent, level) == <<code, parent, N(100 * level)>>
Cost(id, day, wbs, vendor, name, amount) == <<id, D(day), wbs, vendor, name, N(amount)>>
Activity(id, wbs, finish, ended, planned, done, float, critical, status) ==
    <<id, wbs, D(10), D(finish), D(10), ended, N(planned), N(done), N(100 * float), Flag(critical),
      status>>
Period(id, day, wbs, planned, done) == <<id, D(day), wbs, N(planned), N(done), N(done - planned)>>

Clean == [
    wbs |-> <<Node(T(1), Blank, 1), Node(T(2), T(1), 2)>>,
    budget |-> <<<<T(11), T(1), N(1000)>>, <<T(12), T(2), N(1000)>>>>,
    actual_cost |-> <<Cost(T(21), 40, T(1), T(5), T(6), 300), Cost(T(22), 50, T(2), T(5), T(6), 300)>>,
    commitments |-> <<<<T(31), T(1), N(200), N(100), T(900)>>>>,
    schedule |-> <<Activity(T(41), T(1), 70, Blank, 50, 50, 2, 0, T(902))>>,
    progress |-> <<Period(T(51), 20, T(1), 25, 25), Period(T(52), 50, T(1), 50, 50)>>]

Sheet(headers, rows) == [headers |-> headers, rows |-> rows]

WithRows(rows) ==
    [info |-> MCInfo, sheets |-> [d \in Domains |-> Sheet(MCHeaders[d], rows[d])]]

\* One sheet changed, or missing.
WithSheet(d, sheet) == [WithRows(Clean) EXCEPT !.sheets[d] = sheet]

-----------------------------------------------------------------------------

Named == H(<<"wbs_code", "parent_wbs", "level">>)
Code2 == <<"wbs_code", 2>>
Wide(row, more) == row \o more
HeaderVariants ==
    {Named \o <<<<"wbs_code">>>>, Named \o <<None>>, Named \o <<<<"wbs_code">>, Code2>>,
     <<Code2>> \o Named \o <<<<"wbs_code">>>>, Named \o <<None, <<"unnamed", 4>>>>,
     H(<<"wbs_code", "level">>), H(<<"parent_wbs", "wbs_code", "level">>)}

LayoutFamily ==
    {WithSheet("wbs", Sheet(h, <<[i \in DOMAIN h |-> T(i)], [i \in DOMAIN h |-> Blank],
                                 [i \in DOMAIN h |-> N(100 * i)]>>)) : h \in HeaderVariants}

MissingFamily == {WithSheet(d, None) : d \in Domains} \union {WithSheet(d, Sheet(MCHeaders[d], <<>>)) : d \in Domains}

ForestFamily ==
    {WithSheet("wbs", Sheet(Named, [i \in 1..4 |-> Node(T(i), p[i], 1)])) :
        p \in [1..4 -> {Blank, T(1), T(2), T(3), T(4), T(5)}]}
    \union {WithSheet("wbs", Sheet(Named, <<Node(T(1), Blank, 1), Node(T(1), T(2), 1), Node(T(2), p, l),
                                          Node(T(3), T(2), 2)>>)) : p \in {Blank, T(1), T(3)}, l \in {0, 1}}

Odd == {Blank, [t |-> "spaces", n |-> 0], [t |-> "padded", n |-> 1], [t |-> "numeral", n |-> 100],
        [t |-> "percent", n |-> 50], [t |-> "flag", n |-> 1], N(100), Flag(1), D(45), T(1), N(-200)}

OddFamily ==
    UNION {{WithRows([Clean EXCEPT ![d][1][i] = c]) : i \in DOMAIN Clean[d][1], c \in Odd} :
               d \in Domains}

InfoFamily ==
    {[WithRows(Clean) EXCEPT !.info = i] : i \in
        {None, <<>>, Info(T(9), T(2), D(60)), Info(Blank, T(2), D(60)), Info(T(1), [t |-> "spaces", n |-> 0], D(60)),
         Info(T(1), T(2), N(4600)), Info(T(1), T(2), [t |-> "iso", n |-> 60])}}

\* Costs, commitments and budgets around the thresholds.
CostFamily ==
    {WithRows([Clean EXCEPT
        !.budget[1][3] = N(b), !.actual_cost[1] = Cost(T(21), 40, T(1), T(5), T(6), a),
        !.actual_cost[2] = Cost(T(22), day, w, v, T(7), 400),
        !.commitments[1] = <<T(31), T(1), N(200), N(i), T(900)>>]) :
            b \in {0, 400, 1000}, a \in {300, 800, 1000, 1200}, i \in {100, 400}, day \in {40, 80},
            w \in {T(1), T(2), T(3), Blank}, v \in {T(5), T(8)}}
    \union {WithRows([Clean EXCEPT
        !.budget[1][3] = N(-400), !.actual_cost[1][6] = N(a), !.commitments[1][3] = N(c)]) :
            a \in {-1000, -300, 300}, c \in {200, 1000}}

ScheduleFamily ==
    {WithRows([Clean EXCEPT
        !.schedule[1] = Activity(T(41), T(1), f, e, 75, p, s, c, T(902)),
        !.progress[2] = Period(T(52), 50, w, q, r), !.actual_cost[1] = Cost(T(21), 40, T(1), T(5), T(6), 900)]) :
            f \in {40, 70}, e \in {Blank, D(75)}, p \in {50, 100, 150}, s \in {-1, 2}, c \in {0, 1},
            w \in {T(1), Blank}, q \in {50, 125}, r \in {25, 50}}

IdentityFamily ==
    {WithRows([Clean EXCEPT !.actual_cost[2] = Cost(T(21), 40, w, T(5), T(6), 300)]) : w \in {T(1), T(3), Blank}}
    \union {WithRows([Clean EXCEPT !.progress = <<Period(T(51), 20, T(1), 125, p), Period(T(52), 50, T(w), 125, 100)>>]) :
               p \in {50, 125}, w \in {1, 2}}
    \union {WithRows([Clean EXCEPT !.progress = <<Period(T(51), 20, T(1), 125, 50), Period(T(w), 50, Blank, 125, 50)>>]) :
               w \in {1, 2}}
    \union {WithRows([Clean EXCEPT !.budget[1] = <<T(21), T(3), N(1000)>>, !.actual_cost[1] = Cost(T(21), 40, T(3), T(5), T(6), a)]) : a \in {0, 100}}

\* Names that are folded, split or too long, and numbers too large.
NamesFamily ==
    {WithRows([Clean EXCEPT !.actual_cost = <<Cost(a, 40, w, v, T(6), 300), Cost(b, 40, w, u, T(6), 300)>>]) :
        a \in {T(1), Path(12), Bar(12), Long(200), Long(301)}, b \in {Cased(1), Path(21), Path(10), Long(201), T(9)},
        w \in {T(1), Blank}, v \in {T(5)}, u \in {T(5), Cased(5), Path(57)}}
    \union {WithRows([Clean EXCEPT !.wbs = <<Node(T(1), Blank, 1), Node(Bar(12), Blank, 1)>>,
                  !.actual_cost = <<Cost(T(21), 40, T(1), Bar(23), T(6), 300), Cost(T(22), 50, w, T(3), T(6), 300)>>]) :
               w \in {T(1), Bar(12), Path(12), Cased(1)}}
    \union {WithRows([Clean EXCEPT !.actual_cost = <<Cost(T(21), 40, T(1), v, m, 300), Cost(T(22), 40, T(1), v, n, 300),
                                                   Cost(T(23), 40, T(1), v, n, 400)>>]) :
               v \in {T(5), Blank}, m \in {Path(67), T(6), Blank}, n \in {Bar(67), Cased(6), T(7)}}
    \union {WithRows([Clean EXCEPT !.commitments[1][5] = Cased(900), !.commitments[1][3] = N(c),
                                  !.schedule[1] = Activity(T(41), T(1), 40, Blank, 50, 50, f, 0, Cased(s))]) :
               c \in {200, 2000, 200000}, s \in {901, 902}, f \in {2, 2000, -2000}}
    \union {WithRows([Clean EXCEPT !.wbs[2] = Node(a, T(1), l), !.progress[2] = Period(b, 50, T(1), 50, 50)]) :
               a \in {T(2), Long(101)}, b \in {T(52), Long(300)}, l \in {2, 2000}}

MCWorkbooks == LayoutFamily \union MissingFamily \union ForestFamily \union OddFamily \union InfoFamily
               \union CostFamily \union ScheduleFamily \union IdentityFamily \union NamesFamily

-----------------------------------------------------------------------------

Title(names) == [i \in DOMAIN names |-> [t |-> names[i], n |-> 0]]
MSHeaders == Title(<<"id", "name", "outline number", "baseline start", "baseline finish", "start",
                     "finish", "% complete", "total slack", "predecessors">>)
StdHeaders == Title(<<"activity id", "activity name", "wbs", "planned start", "planned finish",
                      "start", "finish", "% complete", "total float", "predecessors">>)
Outline(n) == [t |-> "outline", n |-> n]
Task(id, name, wbs, finish, done, slack, links) ==
    <<id, name, wbs, D(10), finish, D(10), Blank, done, slack, [t |-> "links", n |-> links]>>

MCLinks(n) == CASE n = 0 -> {} [] n = 1 -> {[pred |-> T(1), lag |-> 0]}
                [] n = 2 -> {[pred |-> T(2), lag |-> 11], [pred |-> T(7), lag |-> -1]}

Spaces == [t |-> "spaces", n |-> 0]

Export(rows) == [csv |-> FALSE, rows |-> rows]
Numeral(n) == [t |-> "numeral", n |-> n]
Iso(n) == [t |-> "iso", n |-> n]
Formula == [t |-> "formula", n |-> 1]

\* A line of a CSV file: its cells are texts.
TextTask(id, name, wbs, finish, done, slack) ==
    <<id, name, wbs, Iso(10), finish, Iso(10), Blank, done, slack, [t |-> "links", n |-> 0]>>

MCSheets ==
    {Export(<<h, Task(T(1), T(2), Outline(11), D(40), done, slack, 0), Task(id, name, wbs, f, N(0), N(0), l)>>) :
        h \in {MSHeaders, StdHeaders}, done \in {N(0), N(100), N(3500), N(10000), N(12500), Blank},
        slack \in {Blank, N(50)}, id \in {T(2)}, name \in {T(3), Spaces}, wbs \in {Outline(112), [t |-> "gapped", n |-> 12], Blank},
        f \in {D(80)}, l \in {1}}
    \union {Export(<<MSHeaders, Task(T(1), T(2), Outline(1), D(80), N(0), N(0), 0), Task(id, T(3), Outline(2), f, N(0), s, l)>>) :
        id \in {T(1), T(2), N(0), Blank}, f \in {D(5), D(80), Blank, T(1)}, s \in {N(2500), N(-250), N(200000)}, l \in {1, 2}}
    \union {Export(<<MSHeaders, Task(id, T(2), Outline(1), D(80), done, slack, 0)>>) :
        id \in {T(1), N(0), Long(301), Formula}, done \in {D(40), Outline(112), [t |-> "gapped", n |-> 12]},
        slack \in {D(40), Iso(40), Outline(12)}}
    \union {[csv |-> c, rows |-> <<h, TextTask(T(1), name, Outline(1), Iso(40), done, Blank)>>] :
        c \in BOOLEAN, h \in {MSHeaders, StdHeaders, Title(<<"schedule">>)}, name \in {T(2), Formula, Blank},
        done \in {Numeral(3500), Iso(40)}}
    \union {[csv |-> c, rows |-> <<Title(<<"schedule">>), MSHeaders,
                                   TextTask(T(1), T(2), Outline(1), Iso(40), Numeral(0), Numeral(0))>>] : c \in BOOLEAN}
    \union {Export(<<Title(<<"schedule">>), MSHeaders>>), Export(<<MSHeaders>>),
            Export(<<Title(<<"id", "name">>), Task(T(1), T(2), Outline(1), D(80), N(0), N(0), 0)>>)}
=============================================================================
