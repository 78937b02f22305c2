--------------------------- MODULE MemoryQueries ----------------------------
(***************************************************************************)
(* What a task asks of the memory and of the skill files before it runs,   *)
(* and what the pattern miner makes of the logged events: functions of the *)
(* tables and directories, without state of their own.                     *)
(*                                                                         *)
(* Confidences, scores and similarities are in hundredths.  A learning has *)
(* a type, a confidence and the tokens of its text; an event a category    *)
(* ("none" when it has none) and an hour; a skill a name, a source, a kind *)
(* and what makes it eligible.                                             *)
(***************************************************************************)
EXTENDS ListOperators

Least(a, b) == IF a < b THEN a ELSE b

\* Names of skills are about as long as each other.
NameTokens == 2

Take(s, n) == SubSeq(s, 1, Least(n, Len(s)))

\* ORDER BY ... DESC; SQLite may return equal ones in any order, here in that
\* of the table.
Descending(s, Key(_)) ==
  LET before == {p \in (DOMAIN s) \X (DOMAIN s) :
                  \/ Key(s[p[1]]) > Key(s[p[2]])
                  \/ Key(s[p[1]]) = Key(s[p[2]]) /\ p[1] < p[2]}
      at == Arranged(DOMAIN s, before)
  IN  [k \in DOMAIN at |-> s[at[k]]]

-----------------------------------------------------------------------------
(* Recall *)

OfType(learnings, type) ==
  EntriesAt(learnings, {k \in DOMAIN learnings : learnings[k].type = type})

QueryLearningsByType(learnings, type, limit) ==
  Take(Descending(OfType(learnings, type), LAMBDA l : l.confidence), limit)

QueryHighConfidence(learnings, least, limit) ==
  Take(Descending(SelectSeq(learnings, LAMBDA l : l.confidence >= least),
                  LAMBDA l : l.confidence), limit)

\* upsert_skill_effectiveness: the running average of a skill's scores in a
\* category, whose sum is kept here.
UpsertEffectiveness(table, skill, category, score) ==
  LET same(r) == r.skill = skill /\ r.category = category IN
  IF \E k \in DOMAIN table : same(table[k])
  THEN [k \in DOMAIN table |->
         IF same(table[k])
         THEN [table[k] EXCEPT !.sum = @ + score, !.samples = @ + 1]
         ELSE table[k]]
  ELSE Append(table, [skill |-> skill, category |-> category, sum |-> score,
                      samples |-> 1])

Average(r) == r.sum \div r.samples

QueryTopSkills(table, category, limit) ==
  Take(Descending(SelectSeq(table, LAMBDA r : r.category = category), Average),
       limit)

\* One section of the recall: its items up to the first that does not fit.
FillSkippingMutant(items, used, budget) ==
  FoldLeft(LAMBDA s, i :
    IF s.used + i.tokens > budget THEN s
    ELSE [s EXCEPT !.used = @ + i.tokens, !.taken = Append(@, i)],
    [used |-> used, taken |-> <<>>], items)

Fill(items, used, budget) ==
  LET after(n) == used + TokensOf(Take(items, n))
      n == CHOOSE n \in 0..Len(items) :
             /\ \A m \in 1..n : after(m) <= budget
             /\ n = Len(items) \/ after(n + 1) > budget
  IN  [used |-> after(n), taken |-> Take(items, n)]

\* recall: anti-patterns first, then skills that did well in the category, then
\* heuristics; preferences are stored but not recalled.
Recall(learnings, table, category, budget) ==
  LET top == IF category = "none" THEN <<>> ELSE QueryTopSkills(table, category, 3)
      named == [k \in DOMAIN top |->
                 [skill |-> top[k].skill, tokens |-> NameTokens + 10]]
      anti == Fill(QueryLearningsByType(learnings, "anti_pattern", 5), 0, budget)
      skills == Fill(named, anti.used, budget)
      rest == Fill(QueryLearningsByType(learnings, "heuristic", 5), skills.used,
                   budget)
  IN  [anti |-> anti.taken, skills |-> skills.taken, learnings |-> rest.taken,
       used |-> rest.used]

-----------------------------------------------------------------------------
(* Skills *)

\* load_from_directory: subdirectories with a SKILL.md that parses; the name in
\* the frontmatter wins over that of the directory.
LoadFromDirectory(dir, source) ==
  LET good == EntriesAt(dir, {k \in DOMAIN dir : dir[k].parses})
  IN  [k \in DOMAIN good |->
        [name |-> IF good[k].named = "none" THEN good[k].dir ELSE good[k].named,
         source |-> source, kind |-> good[k].kind, runs |-> good[k].runs,
         categories |-> good[k].categories,
         approved |-> source # "proposed"]]

\* load_all_skills appends the sources in this order and drops nothing: a skill
\* of a later source stands beside one of the same name.
LoadAllSkills(dirs) ==
  LET from(source) == LoadFromDirectory(dirs[source], source)
  IN  from("bundled") \o from("managed") \o from("workspace") \o from("user")
        \o from("proposed")

GetByName(skills, name) ==
  LET same == SelectSeq(skills, LAMBDA s : s.name = name)
  IN  IF same = <<>> THEN <<>> ELSE <<Head(same)>>

\* is_eligible: the environment has what the skill requires, and a proposed one
\* is approved, which the loader never says of it.
Eligible(s) == s.runs /\ (s.source = "proposed" => s.approved)

\* composite_score of the signals of a skill; `named` are the
\* names that occur in the task.
SkillScore(s, named, category, table) ==
  LET rows == SelectSeq(table,
                LAMBDA r : r.skill = s.name /\ r.category = category)
      seen == IF rows = <<>> THEN 0
              ELSE (4 * Average(rows[1]) * Least(rows[1].samples, 10)) \div 100
      fits == IF category \in s.categories THEN 20 ELSE 0
  IN  Least(100, (IF s.name \in named THEN 100 ELSE 0) + seen + fits)

\* SkillSelector::select: the five best of the task skills that are eligible and
\* score more than 0.1 or are named in the task.
Select(skills, named, category, table) ==
  LET score(s) == SkillScore(s, named, category, table)
      fit(s) == /\ s.kind = "task" /\ Eligible(s)
                /\ score(s) > 10 \/ s.name \in named
      fitting == {k \in DOMAIN skills : fit(skills[k])}
  IN  Take(Descending(EntriesAt(skills, fitting), score), 5)

-----------------------------------------------------------------------------
(* Patterns *)

\* query_events_since: newest first.
QueryEvents(events) == Reverse(events)

\* detect_frequency, from the days of the week of at least three events.
Frequency(events) ==
  LET days == Cardinality({events[k].weekday : k \in DOMAIN events})
  IN  CASE days >= 5 -> "daily"
        [] days \in 2..4 -> "days a week"
        [] OTHER -> "weekly"

CountOf(events, Test(_)) == Len(SelectSeq(events, Test))

Share(n, events) == (100 * n) \div Len(events)

Pattern(type, what, samples, confidence) ==
  [type |-> type, what |-> what, samples |-> samples,
   confidence |-> Least(95, confidence)]

DetectRecurring(events) ==
  {Pattern("recurring", c, CountOf(events, LAMBDA e : e.category = c),
           Share(CountOf(events, LAMBDA e : e.category = c), events)) :
     c \in {c \in {events[k].category : k \in DOMAIN events} \ {"none"} :
              CountOf(events, LAMBDA e : e.category = c) >= 3}}

DetectTimes(events) ==
  LET at(h) == CountOf(events, LAMBDA e : e.hour = h) IN
  {Pattern("time_based", h, at(h), Share(at(h), events)) :
     h \in {h \in {events[k].hour : k \in DOMAIN events} :
              at(h) >= 3 /\ 10 * at(h) > 3 * Len(events)}}

\* Pairs of neighbours in the order of the query, which is newest first: in
\* <<a, b>> the task a came after b.
DetectWorkflows(events) ==
  LET cats == [k \in DOMAIN events |-> events[k].category]
      known == {cats[k] : k \in DOMAIN cats} \ {"none"}
      count(a, b) == Cardinality({k \in 1 .. Len(cats) - 1 :
                                    cats[k] = a /\ cats[k + 1] = b})
  IN  IF Len(events) < 6 THEN {}
      ELSE {Pattern("workflow", w, count(w[1], w[2]),
                    2 * Share(count(w[1], w[2]), events)) :
              w \in {w \in known \X known : count(w[1], w[2]) >= 3}}

\* PatternMiner::mine over the logged events, oldest first.
Mine(log) ==
  LET events == QueryEvents(log) IN
  {p \in DetectRecurring(events) \union DetectTimes(events)
           \union DetectWorkflows(events) :
     p.confidence >= 60 /\ p.samples >= 3}

-----------------------------------------------------------------------------
(* Soul *)

\* load_soul: the workspace's, then the user's, then the built-in one; a file
\* that cannot be read is passed over.
LoadSoul(files) ==
  IF files.workspace = "readable" THEN "workspace"
  ELSE IF files.user = "readable" THEN "user" ELSE "default"

ChangedLines(old, new) ==
  LET line(s, k) == IF k \in DOMAIN s THEN s[k] ELSE ""
  IN  Cardinality({k \in DOMAIN old \union DOMAIN new :
                     line(old, k) # line(new, k)})

\* check_evolution: enough learnings, and an answer of the model that changes
\* some lines but fewer than twenty; otherwise no update is proposed.
EvolutionProposed(learnings, old, answer) ==
  /\ Len(QueryHighConfidence(learnings, 80, 20)) >= 10
  /\ ChangedLines(old, answer) \in 1..19
=============================================================================
