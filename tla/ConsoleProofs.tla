----------------------------- MODULE ConsoleProofs -----------------------------
(***************************************************************************)
(* What the operator's windows can be relied on for, whatever there is to  *)
(* share, to be missing and to be served: the wizard, the updates, what is *)
(* in front of the server, the settings, and the first pairing code.  Each *)
(* is an invariant of its own part; the other parts leave it alone.        *)
(***************************************************************************)
EXTENDS Console, FiniteSetTheorems, SequenceTheorems, TLAPS

---------------------------------------------------------------------------
(* The wizard, and the check behind it. *)

\* A report as it is made, and as a window comes to show it.
Made    == [rows : [Needs -> {"ok", "missing"}], proceed : BOOLEAN, all : BOOLEAN]
Reports0 == [rows : [Needs -> {"ok", "missing", "installing"}], proceed : BOOLEAN, all : BOOLEAN]
AtMostOne(S) == {<<>>} \cup {<<r>> : r \in S}

Tags == Needs \cup {"none"}
Mails ==
    [kind : {"answer"}, tag : Tags, got : Made]
    \cup [kind : {"refusal"}, tag : {"none"}, got : BOOLEAN]
    \cup [kind : {"progress", "outcome"}, tag : Needs, got : BOOLEAN]

Checks == [cached : AtMostOne(Made), flight : AtMostOne(Made \cup {Unseen}), waits : Seq(Tags)]
JobRecs == [n : Needs, at : {"run", "report", "told"}, by : {"here", "elsewhere"}]
Hooks == [in : {"none", "wizard", "panel"}, report : AtMostOne(Reports0),
          phase : {"checking", "ready", "error", "unavailable"}, busy : Tags,
          accepted : SUBSET Needs, threw : SUBSET Needs, foreign : SUBSET Needs]

SetupTypes ==
    /\ needs \in [Needs -> BOOLEAN]
    /\ check \in Checks
    /\ mail \in Seq(Mails)
    /\ jobs \in SUBSET JobRecs
    /\ hook \in Hooks
    /\ "way" \in DOMAIN wizard

\* What a report calls in order is, and will be; one that lets the wizard go on
\* calls nothing missing that blocks.
Honest(r) ==
    \A n \in Needs : /\ r.rows[n] = "ok" => needs[n]
                     /\ r.all => needs[n]
                     /\ r.proceed /\ n \in Blocking => r.rows[n] # "missing"

HonestInv ==
    /\ check.cached # <<>> => Honest(check.cached[1])
    /\ check.flight \notin {<<>>, <<Unseen>>} => Honest(check.flight[1])
    /\ \A i \in DOMAIN mail : mail[i].kind = "answer" => Honest(mail[i].got)
    /\ hook.report # <<>> => Honest(hook.report[1])
    /\ hook.phase = "ready" => hook.report # <<>>

\* Something is still to come that takes the progress bar off row n: a remedy
\* of this window at work, a report that is waited for, or a message behind the i-th.
Settles(n, i) ==
    \/ \E j \in jobs : j.n = n /\ j.by = "here"
    \/ check.waits # <<>>
    \/ \E k \in DOMAIN mail :
          /\ k > i
          /\ \/ mail[k].kind \in {"answer", "refusal"}
             \/ mail[k].kind = "outcome" /\ mail[k].tag = n

Installing(n) == hook.report # <<>> /\ hook.report[1].rows[n] = "installing"

\* A row that is busy, and has not been announced by another window's remedy.
Busy(n) == Installing(n) /\ hook.in # "none" /\ hook.phase = "ready" /\ n \notin hook.foreign

BarInv ==
    /\ \A i \in DOMAIN mail : mail[i].kind = "progress" /\ ~mail[i].got => Settles(mail[i].tag, i)
    /\ \A n \in Needs : Busy(n) => n \in hook.threw \/ Settles(n, 0)

SetupInv == SetupTypes /\ HonestInv /\ BarInv /\ OnlyInOrderIsPassed

LEMMA HonestKept ==
    ASSUME \A n \in Needs : needs[n] => needs'[n], NEW r, Honest(r)
    PROVE  Honest(r)'
  BY Zenon DEF Honest

LEMMA MadeRows ==
    ASSUME NEW r \in Made
    PROVE  \A n \in Needs : r.rows[n] \in {"ok", "missing"}
  BY DEF Made

\* The detectors' report is what is.
LEMMA Summarised ==
    ASSUME needs \in [Needs -> BOOLEAN],
           NEW rows, rows = [n \in Needs |-> IF needs[n] THEN "ok" ELSE "missing"]
    PROVE  Summarise(rows) \in Made /\ Honest(Summarise(rows))
<1>1. rows \in [Needs -> {"ok", "missing"}]  OBVIOUS
<1>2. (\A n \in Blocking : rows[n] = "ok") \in BOOLEAN /\ (\A n \in Needs : rows[n] = "ok") \in BOOLEAN
  BY Zenon
<1>3. Summarise(rows) \in Made  BY <1>1, <1>2, Zenon DEF Summarise, Made
<1>4. Summarise(rows).rows = rows  BY DEF Summarise
<1>5. Summarise(rows).proceed => \A n \in Blocking : rows[n] = "ok"  BY Zenon DEF Summarise
<1>6. /\ \A n \in Needs : rows[n] = "ok" => needs[n]
      /\ Summarise(rows).all => \A n \in Needs : rows[n] = "ok"
  <2>1. \A n \in Needs : rows[n] = "ok" => needs[n]  OBVIOUS
  <2>2. Summarise(rows).all => \A n \in Needs : rows[n] = "ok"  BY Zenon DEF Summarise
  <2> QED  BY <2>1, <2>2
<1>7. \A n \in Needs : Summarise(rows).proceed /\ n \in Blocking => rows[n] # "missing"
  <2>1. \A n \in Blocking : rows[n] = "ok" => rows[n] # "missing"  OBVIOUS
  <2> QED  BY <1>5, <2>1, Zenon
<1> QED  BY <1>3, <1>4, <1>6, <1>7, Zenon DEF Honest

\* What is kept of a report, of messages and of remedies as they come and go.
LEMMA SettlesKept ==
    ASSUME mail \in Seq(Mails), mail' \in Seq(Mails), Len(mail) <= Len(mail'),
           \A k \in 1..Len(mail) : mail'[k] = mail[k],
           NEW n \in Needs, NEW i \in Nat, i <= Len(mail), Settles(n, i),
           (\E j \in jobs : j.n = n /\ j.by = "here") =>
               \/ \E j \in jobs' : j.n = n /\ j.by = "here"
               \/ \E k \in DOMAIN mail' : /\ k > Len(mail)
                                          /\ mail'[k].kind = "outcome" /\ mail'[k].tag = n,
           check.waits # <<>> =>
               \/ check'.waits # <<>>
               \/ \E k \in DOMAIN mail' : k > Len(mail) /\ mail'[k].kind \in {"answer", "refusal"}
    PROVE  Settles(n, i)'
<1>1. DOMAIN mail = 1..Len(mail) /\ DOMAIN mail' = 1..Len(mail') /\ Len(mail) \in Nat /\ Len(mail') \in Nat
  OBVIOUS
<1>2. CASE \E j \in jobs : j.n = n /\ j.by = "here"  BY <1>1, <1>2 DEF Settles
<1>3. CASE check.waits # <<>>  BY <1>1, <1>3 DEF Settles
<1>4. CASE \E k \in DOMAIN mail : /\ k > i
                                  /\ \/ mail[k].kind \in {"answer", "refusal"}
                                     \/ mail[k].kind = "outcome" /\ mail[k].tag = n
  BY <1>1, <1>4 DEF Settles
<1> QED  BY <1>2, <1>3, <1>4 DEF Settles

LEMMA BarKept ==
    ASSUME SetupTypes, SetupTypes', BarInv, Len(mail) <= Len(mail'),
           \A k \in 1..Len(mail) : mail'[k] = mail[k],
           \A n \in Needs : (\E j \in jobs : j.n = n /\ j.by = "here") =>
               \/ \E j \in jobs' : j.n = n /\ j.by = "here"
               \/ \E k \in DOMAIN mail' : /\ k > Len(mail)
                                          /\ mail'[k].kind = "outcome" /\ mail'[k].tag = n,
           check.waits # <<>> =>
               \/ check'.waits # <<>>
               \/ \E k \in DOMAIN mail' : k > Len(mail) /\ mail'[k].kind \in {"answer", "refusal"},
           \A k \in DOMAIN mail' : k > Len(mail) /\ mail'[k].kind = "progress" /\ ~mail'[k].got =>
               \E j \in jobs' : j.n = mail'[k].tag /\ j.by = "here",
           hook'.report = hook.report, hook'.phase = hook.phase, hook'.threw = hook.threw,
           hook'.in = hook.in, hook'.foreign = hook.foreign
    PROVE  BarInv'
<1>1. mail \in Seq(Mails) /\ mail' \in Seq(Mails)  BY DEF SetupTypes
<1>2. DOMAIN mail = 1..Len(mail) /\ DOMAIN mail' = 1..Len(mail') /\ Len(mail) \in Nat /\ Len(mail') \in Nat
  BY <1>1
<1>3. ASSUME NEW n \in Needs, NEW i \in Nat, i <= Len(mail), Settles(n, i)  PROVE Settles(n, i)'
  BY <1>1, <1>3, SettlesKept
<1>4. ASSUME NEW i \in DOMAIN mail', mail'[i].kind = "progress", ~mail'[i].got
      PROVE  Settles(mail[i].tag, i)'
  <2>1. CASE i > Len(mail)
    <3>1. \E j \in jobs' : j.n = mail'[i].tag /\ j.by = "here"  BY <1>4, <2>1
    <3> QED  BY <3>1, Zenon DEF Settles
  <2>2. CASE i <= Len(mail)
    <3>1. i \in DOMAIN mail /\ mail'[i] = mail[i]  BY <1>2, <1>4, <2>2
    <3>2. Settles(mail[i].tag, i)  BY <1>4, <3>1 DEF BarInv
    <3>3. mail[i].tag \in Needs  BY <1>1, <1>4, <3>1 DEF Mails
    <3>4. PICK n \in Needs : n = mail[i].tag  BY <3>3
    <3>5. Settles(n, i)'  BY <1>2, <1>3, <2>2, <3>1, <3>2, <3>4
    <3>6. mail'[i].tag = n  BY <3>1, <3>4
    <3> QED  BY <3>5, <3>6, Zenon DEF Settles
  <2> QED  BY <1>2, <2>1, <2>2
<1>5. ASSUME NEW n \in Needs, Busy(n)'
      PROVE  n \in hook'.threw \/ Settles(n, 0)'
  <2>1. Busy(n)  BY <1>5 DEF Busy, Installing
  <2>2. n \in hook.threw \/ Settles(n, 0)  BY <2>1 DEF BarInv
  <2>3. Settles(n, 0) => Settles(n, 0)'  BY <1>2, <1>3
  <2> QED  BY <2>2, <2>3
<1> QED  BY <1>4, <1>5 DEF BarInv

\* Until the wizard is done with the check, what was passed stays in order.
LEMMA PassedKept ==
    ASSUME OnlyInOrderIsPassed, \A n \in Needs : needs[n] => needs'[n],
           hook.accepted \subseteq hook'.accepted, wizard'.way = wizard.way
    PROVE  OnlyInOrderIsPassed'
  BY Zenon DEF OnlyInOrderIsPassed

\* Reports are only handed on: it is enough that each was honest when needs were
\* fewer in order.
LEMMA HandedOn ==
    ASSUME \A n \in Needs : needs[n] => needs'[n],
           check'.cached # <<>> => \E r \in Made : Honest(r) /\ check'.cached[1] = r,
           check'.flight \notin {<<>>, <<Unseen>>} => \E r \in Made : Honest(r) /\ check'.flight[1] = r,
           \A i \in DOMAIN mail' : mail'[i].kind = "answer" =>
               \E r \in Made : Honest(r) /\ mail'[i].got = r,
           hook'.report # <<>> => \E r \in Reports0 : Honest(r) /\ hook'.report[1] = r,
           hook'.phase = "ready" => hook'.report # <<>>
    PROVE  HonestInv'
<1>1. ASSUME NEW r, Honest(r)  PROVE Honest(r)'  BY <1>1, HonestKept
<1>2. (check.cached # <<>> => Honest(check.cached[1]))'  BY <1>1, Zenon DEF Honest
<1>3. (check.flight \notin {<<>>, <<Unseen>>} => Honest(check.flight[1]))'  BY <1>1, Zenon DEF Honest, Unseen
<1>4. (\A i \in DOMAIN mail : mail[i].kind = "answer" => Honest(mail[i].got))'
  BY <1>1, Zenon DEF Honest
<1>5. (hook.report # <<>> => Honest(hook.report[1]))'  BY <1>1, Zenon DEF Honest
<1> QED  BY <1>2, <1>3, <1>4, <1>5 DEF HonestInv

LEMMA HandedOnBefore ==
    ASSUME SetupTypes, HonestInv
    PROVE  /\ check.cached # <<>> => \E r \in Made : Honest(r) /\ check.cached[1] = r
           /\ check.flight \notin {<<>>, <<Unseen>>} => \E r \in Made : Honest(r) /\ check.flight[1] = r
           /\ \A i \in DOMAIN mail : mail[i].kind = "answer" =>
                 \E r \in Made : Honest(r) /\ mail[i].got = r
           /\ hook.report # <<>> => \E r \in Reports0 : Honest(r) /\ hook.report[1] = r
           /\ hook.phase = "ready" => hook.report # <<>>
<1>1. check.cached # <<>> => check.cached[1] \in Made  BY DEF SetupTypes, Checks, JobRecs, AtMostOne
<1>2. check.flight \notin {<<>>, <<Unseen>>} => check.flight[1] \in Made  BY DEF SetupTypes, Checks, JobRecs, AtMostOne
<1>3. hook.report # <<>> => hook.report[1] \in Reports0  BY DEF SetupTypes, Hooks, AtMostOne
<1>4. ASSUME NEW i \in DOMAIN mail, mail[i].kind = "answer"  PROVE mail[i].got \in Made
  <2>1. mail[i] \in Mails  BY DEF SetupTypes, Checks, JobRecs
  <2> QED  BY <1>4, <2>1 DEF Mails
<1> QED  BY <1>1, <1>2, <1>3, <1>4, Zenon DEF HonestInv

LEMMA DetectsKeeps ==
    ASSUME SetupInv, Detects
    PROVE  SetupInv'
<1> USE DEF SetupInv
<1>1. PICK made \in Made :
         made = Summarise([n \in Needs |-> IF needs[n] THEN "ok" ELSE "missing"]) /\ Honest(made)
  BY Summarised, Zenon DEF SetupTypes, Checks, JobRecs
<1>2. check' = [check EXCEPT !.flight = <<made>>]  BY <1>1 DEF Detects
<1>3. UNCHANGED <<needs, mail, jobs, hook, wizard>>  BY DEF Detects
<1>4. <<made>> \in AtMostOne(Made \cup {Unseen})  BY <1>1 DEF AtMostOne
<1>5. /\ check'.cached = check.cached /\ check'.flight = <<made>> /\ check'.waits = check.waits
      /\ check' \in Checks
  BY <1>2, <1>4 DEF SetupTypes, Checks, JobRecs
<1>6. SetupTypes'  BY <1>3, <1>5 DEF SetupTypes, Checks, JobRecs
<1>7. HonestInv'
  <2>1. check'.flight[1] = made  BY <1>5
  <2>2. \A n \in Needs : needs[n] => needs'[n]  BY <1>3
  <2> QED  BY <1>1, <1>3, <1>5, <2>1, <2>2, HandedOn, HandedOnBefore
<1>8. BarInv'
  <2>1. mail \in Seq(Mails)  BY DEF SetupTypes, Checks, JobRecs
  <2> QED  BY <1>3, <1>5, <1>6, <2>1, BarKept
<1>9. OnlyInOrderIsPassed'  BY <1>3, PassedKept
<1> QED  BY <1>6, <1>7, <1>8, <1>9

LEMMA ReportsKeeps ==
    ASSUME SetupInv, Reports
    PROVE  SetupInv'
<1> USE DEF SetupInv
<1>1. PICK r \in Made : Honest(r) /\ check.flight[1] = r
  BY HandedOnBefore DEF Reports
<1> DEFINE answers == [i \in DOMAIN check.waits |-> AnswerTo(check.waits[i], r)]
<1>2. /\ check' = [cached |-> <<r>>, flight |-> <<>>, waits |-> <<>>]
      /\ mail' = mail \o answers
      /\ jobs' = {IF j.at = "report" THEN [j EXCEPT !.at = "told"] ELSE j : j \in jobs}
      /\ UNCHANGED <<needs, hook, wizard>>
  BY <1>1 DEF Reports
<1>3. check.waits \in Seq(Tags) /\ mail \in Seq(Mails)  BY DEF SetupTypes, Checks, JobRecs
<1>4. DOMAIN check.waits = 1..Len(check.waits) /\ Len(check.waits) \in Nat  BY <1>3
<1>5. \A t \in Tags : AnswerTo(t, r) \in Mails /\ AnswerTo(t, r).kind = "answer" /\ AnswerTo(t, r).got = r
  BY <1>1 DEF AnswerTo, Mails
<1>6. \A i \in 1..Len(check.waits) : check.waits[i] \in Tags  BY <1>3
<1>7. /\ answers \in Seq(Mails) /\ Len(answers) = Len(check.waits)
      /\ \A i \in 1..Len(answers) : answers[i].kind = "answer" /\ answers[i].got = r
  <2>1. answers \in [1..Len(check.waits) -> Mails]  BY <1>4, <1>5, <1>6
  <2>2. answers \in Seq(Mails)  BY <1>4, <2>1, IsASeq
  <2>3. Len(answers) = Len(check.waits)  BY <1>4, <2>1, <2>2, LenProperties
  <2> QED  BY <1>4, <1>5, <1>6, <2>2, <2>3
<1> HIDE DEF answers
<1>8. /\ mail' \in Seq(Mails) /\ Len(mail') = Len(mail) + Len(answers) /\ Len(mail) \in Nat
      /\ \A i \in 1..Len(mail) : mail'[i] = mail[i]
      /\ \A i \in 1..Len(mail') : i > Len(mail) => mail'[i].kind = "answer" /\ mail'[i].got = r
  <2>1. mail' = mail \o answers  BY <1>2
  <2>2. /\ mail' \in Seq(Mails) /\ Len(mail') = Len(mail) + Len(answers)
        /\ \A i \in 1..(Len(mail) + Len(answers)) :
              mail'[i] = IF i <= Len(mail) THEN mail[i] ELSE answers[i - Len(mail)]
    <3>1. answers \in Seq(Mails)  BY <1>7
    <3>2. /\ mail \o answers \in Seq(Mails) /\ Len(mail \o answers) = Len(mail) + Len(answers)
          /\ \A i \in 1..(Len(mail) + Len(answers)) :
                (mail \o answers)[i] = IF i <= Len(mail) THEN mail[i] ELSE answers[i - Len(mail)]
      BY <1>3, <3>1, ConcatProperties, Zenon
    <3> QED  BY <2>1, <3>2, Zenon
  <2>3. Len(mail) \in Nat /\ Len(answers) \in Nat  BY <1>3, <1>7
  <2>4. ASSUME NEW i \in 1..Len(mail'), i > Len(mail)
        PROVE  mail'[i].kind = "answer" /\ mail'[i].got = r
    <3>1. i - Len(mail) \in 1..Len(answers) /\ mail'[i] = answers[i - Len(mail)]  BY <2>2, <2>3, <2>4
    <3> QED  BY <1>7, <3>1
  <2> QED  BY <2>2, <2>3, <2>4
<1>9. SetupTypes'
  <2>1. <<r>> \in AtMostOne(Made) /\ <<>> \in AtMostOne(Made \cup {Unseen}) /\ <<>> \in Seq(Tags)
    BY DEF AtMostOne
  <2>2. check' \in Checks
    BY <1>2, <2>1 DEF Checks
  <2>3. \A j \in jobs : (IF j.at = "report" THEN [j EXCEPT !.at = "told"] ELSE j)
                            \in JobRecs
    BY DEF SetupTypes, Checks, JobRecs
  <2>4. jobs' \in SUBSET JobRecs  BY <1>2, <2>3
  <2> QED  BY <1>2, <1>8, <2>2, <2>4 DEF SetupTypes, Checks, JobRecs
<1>10. HonestInv'
  <2>1. \A i \in DOMAIN mail' : mail'[i].kind = "answer" =>
            \E x \in Made : Honest(x) /\ mail'[i].got = x
    BY <1>1, <1>3, <1>8, HandedOnBefore
  <2>2. check'.cached[1] = r /\ check'.flight = <<>>  BY <1>2
  <2>3. \A n \in Needs : needs[n] => needs'[n]  BY <1>2
  <2> QED  BY <1>1, <1>2, <2>1, <2>2, <2>3, HandedOn, HandedOnBefore
<1>11. BarInv'
  <2>1. \A j \in jobs : \E k \in jobs' : k.n = j.n /\ k.by = j.by
    <3> SUFFICES ASSUME NEW j \in jobs  PROVE \E k \in jobs' : k.n = j.n /\ k.by = j.by
      OBVIOUS
    <3>1. j \in JobRecs  BY DEF SetupTypes, Checks, JobRecs
    <3>2. [j EXCEPT !.at = "told"].n = j.n /\ [j EXCEPT !.at = "told"].by = j.by
      BY <3>1 DEF JobRecs
    <3> QED  BY <1>2, <3>2
  <2>2. check.waits # <<>> => \E k \in DOMAIN mail' : k > Len(mail) /\ mail'[k].kind \in {"answer", "refusal"}
    <3>1. check.waits # <<>> => Len(check.waits) > 0  BY <1>3, <1>4
    <3>2. Len(check.waits) > 0 => Len(mail') \in DOMAIN mail' /\ Len(mail') > Len(mail)
      BY <1>4, <1>7, <1>8
    <3> QED  BY <1>8, <3>1, <3>2
  <2>3. \A k \in DOMAIN mail' : k > Len(mail) => mail'[k].kind # "progress"
    BY <1>8
  <2>4. Len(mail) <= Len(mail')  BY <1>4, <1>7, <1>8
  <2> QED  BY <1>2, <1>8, <1>9, <2>1, <2>2, <2>3, <2>4, BarKept, ZenonT(60)
<1>12. OnlyInOrderIsPassed'  BY <1>2, PassedKept
<1> QED  BY <1>9, <1>10, <1>11, <1>12

\* One more message.
LEMMA OneMore ==
    ASSUME mail \in Seq(Mails), NEW m \in Mails, mail' = Append(mail, m)
    PROVE  /\ mail' \in Seq(Mails) /\ Len(mail') = Len(mail) + 1 /\ Len(mail) \in Nat
           /\ DOMAIN mail = 1..Len(mail) /\ DOMAIN mail' = 1..(Len(mail) + 1)
           /\ \A i \in 1..Len(mail) : mail'[i] = mail[i]
           /\ mail'[Len(mail) + 1] = m
  OBVIOUS

\* What came of a remedy: told to this window, or looked after by the other.
LEMMA ComesOutKeeps ==
    ASSUME SetupInv, NEW j \in jobs, NEW threw \in BOOLEAN, ComesOut(j, threw), jobs' = jobs \ {j},
           needs' \in [Needs -> BOOLEAN], \A n \in Needs : needs[n] => needs'[n],
           UNCHANGED <<hook, wizard>>
    PROVE  SetupInv'
<1> USE DEF SetupInv
<1>1. j \in JobRecs /\ j.n \in Needs /\ mail \in Seq(Mails)
  BY DEF SetupTypes, JobRecs
<1>2. CASE j.by = "here"
  <2> DEFINE m == Outcome(j.n, threw)
  <2>1. mail' = Append(mail, m) /\ UNCHANGED check  BY <1>2 DEF ComesOut
  <2>2. m \in Mails /\ m.kind = "outcome" /\ m.tag = j.n
    <3>1. m.kind = "outcome" /\ m.tag = j.n  BY DEF Outcome
    <3>2. m \in [kind : {"progress", "outcome"}, tag : Needs, got : BOOLEAN]
      BY <1>1, Zenon DEF Outcome
    <3> QED  BY <3>1, <3>2 DEF Mails
  <2> HIDE DEF m
  <2>3. /\ mail' \in Seq(Mails) /\ Len(mail') = Len(mail) + 1 /\ Len(mail) \in Nat
        /\ DOMAIN mail = 1..Len(mail) /\ DOMAIN mail' = 1..(Len(mail) + 1)
        /\ \A i \in 1..Len(mail) : mail'[i] = mail[i]
        /\ mail'[Len(mail) + 1] = m
    BY <1>1, <2>1, <2>2, OneMore
  <2>4. SetupTypes'  BY <2>1, <2>3 DEF SetupTypes
  <2>5. HonestInv'
    <3>1. \A i \in DOMAIN mail' : mail'[i].kind = "answer" =>
              \E x \in Made : Honest(x) /\ mail'[i].got = x
      BY <2>2, <2>3, HandedOnBefore
    <3> QED  BY <2>1, <3>1, HandedOn, HandedOnBefore
  <2>6. BarInv'  BY <2>1, <2>2, <2>3, <2>4, BarKept
  <2> QED  BY <2>4, <2>5, <2>6, PassedKept
<1>3. CASE j.by # "here"
  <2>1. /\ UNCHANGED mail
        /\ check' = [check EXCEPT !.flight = IF ~threw /\ check.cached = <<>> /\ @ = <<>>
                                             THEN <<Unseen>> ELSE @]
    BY <1>3 DEF ComesOut
  <2>2. /\ check'.cached = check.cached /\ check'.flight \in {check.flight, <<Unseen>>}
        /\ check'.waits = check.waits /\ check' \in Checks
    <3>1. <<Unseen>> \in AtMostOne(Made \cup {Unseen})  BY DEF AtMostOne
    <3> QED  BY <2>1, <3>1 DEF SetupTypes, Checks
  <2>3. SetupTypes'  BY <2>1, <2>2 DEF SetupTypes
  <2>4. HonestInv'  BY <2>1, <2>2, HandedOn, HandedOnBefore
  <2>5. BarInv'
    <3>1. \A n \in Needs : (\E x \in jobs : x.n = n /\ x.by = "here")
                              => \E x \in jobs' : x.n = n /\ x.by = "here"
      BY <1>3
    <3>2. DOMAIN mail = 1..Len(mail) /\ Len(mail) \in Nat  BY <1>1
    <3> QED  BY <2>1, <2>2, <2>3, <3>1, <3>2, BarKept
  <2> QED  BY <2>3, <2>4, <2>5, PassedKept
<1> QED  BY <1>2, <1>3

LEMMA TellsKeeps ==
    ASSUME SetupInv, NEW j \in jobs, Tells(j)
    PROVE  SetupInv'
<1>1. jobs' = jobs \ {j} /\ ComesOut(j, FALSE) /\ UNCHANGED <<needs, hook, wizard>>  BY DEF Tells
<1>2. needs' \in [Needs -> BOOLEAN] /\ \A n \in Needs : needs[n] => needs'[n]
  BY <1>1 DEF SetupInv, SetupTypes
<1> QED  BY <1>1, <1>2, ComesOutKeeps

LEMMA JobEndsKeeps ==
    ASSUME SetupInv, NEW j \in jobs, JobEnds(j)
    PROVE  SetupInv'
<1> USE DEF SetupInv
<1>1. PICK well \in BOOLEAN, throws \in BOOLEAN, again \in BOOLEAN :
         /\ needs' = [needs EXCEPT ![j.n] = @ \/ well]
         /\ IF again
            THEN /\ check' = [check EXCEPT !.cached = <<>>,
                                           !.flight = IF @ = <<>> THEN <<Unseen>> ELSE @]
                 /\ jobs' = (jobs \ {j}) \cup {[j EXCEPT !.at = "report"]}
                 /\ UNCHANGED mail
            ELSE jobs' = jobs \ {j} /\ ComesOut(j, throws)
  BY DEF JobEnds
<1>2. UNCHANGED <<hook, wizard>>  BY DEF JobEnds
<1>3. j \in JobRecs /\ j.n \in Needs /\ mail \in Seq(Mails)
  BY DEF SetupTypes, Checks, JobRecs
<1>4. needs \in [Needs -> BOOLEAN]  BY DEF SetupTypes, Checks, JobRecs
<1>5. needs' \in [Needs -> BOOLEAN]  BY <1>1, <1>3, <1>4, Zenon
<1>6. \A n \in Needs : needs[n] => needs'[n]
  <2> SUFFICES ASSUME NEW n \in Needs, needs[n]  PROVE needs'[n]
    OBVIOUS
  <2>1. CASE n = j.n
    <3>1. needs'[n] <=> (needs[n] \/ well)  BY <1>1, <1>4, <2>1, Zenon
    <3> QED  BY <3>1
  <2>2. CASE n # j.n
    <3>1. needs'[n] = needs[n]  BY <1>1, <1>4, <2>2, Zenon
    <3> QED  BY <3>1
  <2> QED  BY <2>1, <2>2
<1>7. CASE again
  <2>1. /\ jobs' = (jobs \ {j}) \cup {[j EXCEPT !.at = "report"]} /\ UNCHANGED mail
        /\ check' = [check EXCEPT !.cached = <<>>, !.flight = IF @ = <<>> THEN <<Unseen>> ELSE @]
    BY <1>1, <1>7
  <2>2. [j EXCEPT !.at = "report"] \in JobRecs
        /\ [j EXCEPT !.at = "report"].n = j.n /\ [j EXCEPT !.at = "report"].by = j.by
    BY <1>3 DEF JobRecs
  <2>3. /\ check'.cached = <<>> /\ check'.flight \in {check.flight, <<Unseen>>}
        /\ check'.waits = check.waits
        /\ check' \in Checks
    <3>1. <<>> \in AtMostOne(Made) /\ <<Unseen>> \in AtMostOne(Made \cup {Unseen})  BY DEF AtMostOne
    <3> QED  BY <2>1, <3>1 DEF SetupTypes, Checks, JobRecs
  <2>4. SetupTypes'  BY <1>2, <1>5, <2>1, <2>2, <2>3 DEF SetupTypes, Checks, JobRecs
  <2>5. HonestInv'  BY <1>2, <1>6, <2>1, <2>3, HandedOn, HandedOnBefore
  <2>6. BarInv'
    <3>1. \A n \in Needs : (\E x \in jobs : x.n = n /\ x.by = "here")
                              => \E x \in jobs' : x.n = n /\ x.by = "here"
      BY <2>1, <2>2
    <3>2. DOMAIN mail = 1..Len(mail) /\ Len(mail) \in Nat  BY <1>3
    <3> QED  BY <1>2, <2>1, <2>3, <2>4, <3>1, <3>2, BarKept
  <2> QED  BY <1>2, <1>6, <2>4, <2>5, <2>6, PassedKept
<1>8. CASE ~again
  <2>1. jobs' = jobs \ {j} /\ ComesOut(j, throws)  BY <1>1, <1>8
  <2> QED  BY <1>2, <1>5, <1>6, <2>1, ComesOutKeeps
<1> QED  BY <1>7, <1>8

\* Asking for a report: it is answered from what is kept, or waited for.
LEMMA AsksForGives ==
    ASSUME SetupTypes, HonestInv, NEW tag \in Tags, NEW force \in BOOLEAN, NEW post \in Seq(Mails),
           AsksFor(tag, force, post)
    PROVE  /\ check' \in Checks
           /\ check'.cached \in {<<>>, check.cached}
           /\ check'.flight \in {check.flight, <<Unseen>>}
           /\ \/ mail' = post /\ check'.waits # <<>>
              \/ /\ \E r \in Made : Honest(r) /\ mail' = Append(post, AnswerTo(tag, r))
                 /\ check'.waits = check.waits
<1>1. PICK c : c = IF force THEN [check EXCEPT !.cached = <<>>] ELSE check  OBVIOUS
<1>2. /\ c \in Checks /\ c.flight = check.flight /\ c.waits = check.waits
      /\ c.cached \in {<<>>, check.cached}
  <2>1. <<>> \in AtMostOne(Made)  BY DEF AtMostOne
  <2>2. CASE force
    <3>1. c = [check EXCEPT !.cached = <<>>]  BY <1>1, <2>2
    <3> QED  BY <2>1, <3>1 DEF SetupTypes, Checks
  <2>3. CASE ~force
    <3>1. c = check  BY <1>1, <2>3
    <3> QED  BY <3>1 DEF SetupTypes
  <2> QED  BY <2>2, <2>3
<1>3. IF c.cached # <<>>
      THEN check' = c /\ mail' = Append(post, AnswerTo(tag, c.cached[1]))
      ELSE /\ mail' = post
           /\ check' = [c EXCEPT !.waits = Append(@, tag),
                                 !.flight = IF @ = <<>> THEN <<Unseen>> ELSE @]
  BY <1>1, Zenon DEF AsksFor
<1>4. CASE c.cached # <<>>
  <2>1. \E r \in Made : Honest(r) /\ c.cached[1] = r  BY <1>2, <1>4, HandedOnBefore
  <2> QED  BY <1>2, <1>3, <1>4, <2>1
<1>5. CASE c.cached = <<>>
  <2>1. check' = [c EXCEPT !.waits = Append(@, tag), !.flight = IF @ = <<>> THEN <<Unseen>> ELSE @]
        /\ mail' = post
    BY <1>3, <1>5
  <2>2. c.waits \in Seq(Tags)  BY <1>2 DEF Checks
  <2>3. Append(c.waits, tag) \in Seq(Tags) /\ Append(c.waits, tag) # <<>>  BY <2>2
  <2>4. <<Unseen>> \in AtMostOne(Made \cup {Unseen})  BY DEF AtMostOne
  <2>5. /\ check' \in Checks /\ check'.cached = c.cached
        /\ check'.flight \in {c.flight, <<Unseen>>} /\ check'.waits = Append(c.waits, tag)
    BY <1>2, <2>1, <2>3, <2>4 DEF Checks
  <2> QED  BY <1>2, <2>1, <2>3, <2>5
<1> QED  BY <1>4, <1>5

LEMMA AnswerIsMail ==
    ASSUME NEW tag \in Tags, NEW r \in Made
    PROVE  AnswerTo(tag, r) \in Mails /\ AnswerTo(tag, r).kind = "answer" /\ AnswerTo(tag, r).got = r
  BY DEF AnswerTo, Mails

LEMMA ChecksAgainKeeps ==
    ASSUME SetupInv, ChecksAgain
    PROVE  SetupInv'
<1> USE DEF SetupInv
<1>1. UNCHANGED <<needs, jobs, hook, wizard>> /\ AsksFor("none", TRUE, mail)  BY DEF ChecksAgain
<1>2. PICK post \in Seq(Mails) : post = mail  BY DEF SetupTypes
<1>3. "none" \in Tags /\ TRUE \in BOOLEAN  BY DEF Tags
<1>4. AsksFor("none", TRUE, post)  BY <1>1, <1>2
<1>5. /\ check' \in Checks
      /\ check'.cached \in {<<>>, check.cached}
      /\ check'.flight \in {check.flight, <<Unseen>>}
      /\ \/ mail' = post /\ check'.waits # <<>>
         \/ /\ \E r \in Made : Honest(r) /\ mail' = Append(post, AnswerTo("none", r))
            /\ check'.waits = check.waits
  BY <1>3, <1>4, AsksForGives
<1>6. \A n \in Needs : needs[n] => needs'[n]  BY <1>1
<1>7. DOMAIN mail = 1..Len(mail) /\ Len(mail) \in Nat  BY <1>2
<1>8. CASE mail' = post /\ check'.waits # <<>>
  <2>1. SetupTypes'  BY <1>1, <1>2, <1>5, <1>8 DEF SetupTypes
  <2>2. HonestInv'  BY <1>1, <1>2, <1>5, <1>6, <1>8, HandedOn, HandedOnBefore
  <2>3. BarInv'  BY <1>1, <1>2, <1>7, <1>8, <2>1, BarKept
  <2> QED  BY <1>1, <2>1, <2>2, <2>3, PassedKept
<1>9. ASSUME NEW r \in Made, Honest(r), mail' = Append(post, AnswerTo("none", r)),
             check'.waits = check.waits
      PROVE  SetupInv'
  <2>1. PICK m \in Mails : m = AnswerTo("none", r) /\ m.kind = "answer" /\ m.got = r
    BY <1>3, AnswerIsMail
  <2>2. /\ mail' \in Seq(Mails) /\ Len(mail') = Len(mail) + 1 /\ Len(mail) \in Nat
        /\ DOMAIN mail = 1..Len(mail) /\ DOMAIN mail' = 1..(Len(mail) + 1)
        /\ \A i \in 1..Len(mail) : mail'[i] = mail[i]
        /\ mail'[Len(mail) + 1] = m
    BY <1>2, <1>9, <2>1, OneMore
  <2>3. SetupTypes'  BY <1>1, <1>5, <2>2 DEF SetupTypes
  <2>4. HonestInv'
    <3>1. \A i \in DOMAIN mail' : mail'[i].kind = "answer" =>
              \E x \in Made : Honest(x) /\ mail'[i].got = x
      BY <1>9, <2>1, <2>2, HandedOnBefore
    <3> QED  BY <1>1, <1>5, <1>6, <3>1, HandedOn, HandedOnBefore
  <2>5. BarInv'  BY <1>1, <1>9, <2>1, <2>2, <2>3, BarKept
  <2> QED  BY <1>1, <2>3, <2>4, <2>5, PassedKept
<1> QED  BY <1>5, <1>8, <1>9

LEMMA CheckFailsKeeps ==
    ASSUME SetupInv, CheckFails
    PROVE  SetupInv'
<1> USE DEF SetupInv
<1> DEFINE m == [kind |-> "refusal", tag |-> "none", got |-> FALSE]
<1>1. /\ check.waits # <<>> /\ check' = [check EXCEPT !.waits = Tail(@)]
      /\ mail' = Append(mail, m) /\ UNCHANGED <<needs, jobs, hook, wizard>>
  BY DEF CheckFails
<1>2. m \in Mails /\ m.kind = "refusal"  BY Zenon DEF Mails
<1>3. mail \in Seq(Mails)  BY DEF SetupTypes
<1> HIDE DEF m
<1>4. /\ mail' \in Seq(Mails) /\ Len(mail') = Len(mail) + 1 /\ Len(mail) \in Nat
      /\ DOMAIN mail = 1..Len(mail) /\ DOMAIN mail' = 1..(Len(mail) + 1)
      /\ \A i \in 1..Len(mail) : mail'[i] = mail[i]
      /\ mail'[Len(mail) + 1] = m
  BY <1>1, <1>2, <1>3, OneMore
<1>5. check' \in Checks /\ check'.cached = check.cached /\ check'.flight = check.flight
  <2>1. check.waits \in Seq(Tags)  BY DEF SetupTypes, Checks
  <2>2. Tail(check.waits) \in Seq(Tags)  BY <1>1, <2>1
  <2> QED  BY <1>1, <2>2 DEF SetupTypes, Checks
<1>6. SetupTypes'  BY <1>1, <1>4, <1>5 DEF SetupTypes
<1>7. HonestInv'
  <2>1. \A i \in DOMAIN mail' : mail'[i].kind = "answer" =>
            \E x \in Made : Honest(x) /\ mail'[i].got = x
    BY <1>2, <1>4, HandedOnBefore
  <2>2. \A n \in Needs : needs[n] => needs'[n]  BY <1>1
  <2> QED  BY <1>1, <1>5, <2>1, <2>2, HandedOn, HandedOnBefore
<1>8. BarInv'  BY <1>1, <1>2, <1>4, <1>6, BarKept
<1> QED  BY <1>1, <1>6, <1>7, <1>8, PassedKept

\* A remedy is begun, in this window or in another, and announced.
LEMMA RemedyBegins ==
    ASSUME SetupInv, NEW n \in Needs, NEW by \in {"here", "elsewhere"}, NEW b \in Tags,
           jobs' = jobs \cup {[n |-> n, at |-> "run", by |-> by]},
           mail' = Append(mail, Progress(n, by # "here")),
           hook' = [hook EXCEPT !.busy = b], UNCHANGED <<needs, check, wizard>>
    PROVE  SetupInv'
<1> USE DEF SetupInv
<1> DEFINE m == Progress(n, by # "here")
           job == [n |-> n, at |-> "run", by |-> by]
<1>1. jobs' = jobs \cup {job} /\ mail' = Append(mail, m)  OBVIOUS
<1>2. m \in Mails /\ m.kind = "progress" /\ m.tag = n /\ (~m.got => by = "here")
  <2>1. (by # "here") \in BOOLEAN  OBVIOUS
  <2>2. m \in [kind : {"progress", "outcome"}, tag : Needs, got : BOOLEAN]
    BY <2>1, Zenon DEF Progress
  <2> QED  BY <2>2 DEF Mails, Progress
<1>3. mail \in Seq(Mails)  BY DEF SetupTypes
<1>4. job \in JobRecs /\ job.n = n /\ job.by = by  BY DEF JobRecs
<1> HIDE DEF m, job
<1>5. /\ mail' \in Seq(Mails) /\ Len(mail') = Len(mail) + 1 /\ Len(mail) \in Nat
      /\ DOMAIN mail = 1..Len(mail) /\ DOMAIN mail' = 1..(Len(mail) + 1)
      /\ \A i \in 1..Len(mail) : mail'[i] = mail[i]
      /\ mail'[Len(mail) + 1] = m
  BY <1>1, <1>2, <1>3, OneMore
<1>6. /\ SetupTypes'
      /\ hook'.report = hook.report /\ hook'.phase = hook.phase /\ hook'.threw = hook.threw
      /\ hook'.in = hook.in /\ hook'.accepted = hook.accepted /\ hook'.foreign = hook.foreign
  BY <1>1, <1>4, <1>5 DEF SetupTypes, Hooks
<1>7. HonestInv'
  <2>1. \A i \in DOMAIN mail' : mail'[i].kind = "answer" =>
            \E x \in Made : Honest(x) /\ mail'[i].got = x
    BY <1>2, <1>5, HandedOnBefore
  <2>2. \A x \in Needs : needs[x] => needs'[x]  OBVIOUS
  <2> QED  BY <1>6, <2>1, <2>2, HandedOn, HandedOnBefore
<1>8. BarInv'  BY <1>1, <1>2, <1>4, <1>5, <1>6, BarKept
<1> QED  BY <1>6, <1>7, <1>8, PassedKept

LEMMA RemediesKeeps ==
    ASSUME SetupInv, NEW n \in Needs, Remedies(n) \/ RemediesElsewhere(n)
    PROVE  SetupInv'
<1>1. CASE Remedies(n)
  <2>1. /\ hook' = [hook EXCEPT !.busy = n] /\ UNCHANGED <<needs, check, wizard>>
        /\ jobs' = jobs \cup {[n |-> n, at |-> "run", by |-> "here"]}
        /\ mail' = Append(mail, Progress(n, FALSE))
    BY <1>1 DEF Remedies
  <2>2. ("here" # "here") = FALSE /\ n \in Tags  BY DEF Tags
  <2> QED  BY <2>1, <2>2, RemedyBegins
<1>2. CASE RemediesElsewhere(n)
  <2>1. /\ UNCHANGED <<needs, check, hook, wizard>>
        /\ jobs' = jobs \cup {[n |-> n, at |-> "run", by |-> "elsewhere"]}
        /\ mail' = Append(mail, Progress(n, TRUE))
    BY <1>2 DEF RemediesElsewhere
  <2>2. ("elsewhere" # "here") = TRUE  OBVIOUS
  <2>3. hook.busy \in Tags /\ hook' = [hook EXCEPT !.busy = hook.busy]
    BY <2>1 DEF SetupInv, SetupTypes, Hooks
  <2> QED  BY <2>1, <2>2, <2>3, RemedyBegins
<1> QED  BY <1>1, <1>2

\* The first message is taken: what settled a row behind it still does.
LEMMA SettlesShift ==
    ASSUME NEW post \in Seq(Mails), mail \in Seq(Mails), Len(mail) = Len(post) + 1,
           \A i \in 1..Len(post) : post[i] = mail[i + 1],
           mail' = post, jobs' = jobs, check'.waits = check.waits,
           NEW n \in Needs, NEW i \in Nat, Settles(n, i + 1)
    PROVE  Settles(n, i)'
<1>1. DOMAIN mail = 1..(Len(post) + 1) /\ DOMAIN mail' = 1..Len(post) /\ Len(post) \in Nat
  OBVIOUS
<1>2. CASE \E k \in DOMAIN mail : /\ k > i + 1
                                  /\ \/ mail[k].kind \in {"answer", "refusal"}
                                     \/ mail[k].kind = "outcome" /\ mail[k].tag = n
  <2>1. PICK k \in DOMAIN mail : /\ k > i + 1
                                 /\ \/ mail[k].kind \in {"answer", "refusal"}
                                    \/ mail[k].kind = "outcome" /\ mail[k].tag = n
    BY <1>2
  <2>2. k - 1 \in DOMAIN mail' /\ k - 1 > i /\ mail'[k - 1] = mail[k]  BY <1>1, <2>1
  <2> QED  BY <2>1, <2>2 DEF Settles
<1> QED  BY <1>2, Zenon DEF Settles

\* A row's report as the announcement of its remedy changes it.
LEMMA Announced ==
    ASSUME NEW r \in Reports0, Honest(r), NEW t \in Needs,
           NEW s, s = [r EXCEPT !.rows[t] = "installing"]
    PROVE  /\ s \in Reports0 /\ Honest(s)
           /\ \A n \in Needs : n # t => s.rows[n] = r.rows[n]
<1>1. r.rows \in [Needs -> {"ok", "missing", "installing"}] /\ r.proceed \in BOOLEAN /\ r.all \in BOOLEAN
  BY Zenon DEF Reports0
<1>2. r = [rows |-> r.rows, proceed |-> r.proceed, all |-> r.all]  BY Zenon DEF Reports0
<1>3. s.rows = [r.rows EXCEPT ![t] = "installing"] /\ s.proceed = r.proceed /\ s.all = r.all
      /\ s = [rows |-> s.rows, proceed |-> s.proceed, all |-> s.all]
  BY <1>2 DEF Reports0
<1>4. s.rows \in [Needs -> {"ok", "missing", "installing"}]  BY <1>1, <1>3
<1>5. s \in Reports0  BY <1>1, <1>3, <1>4, Zenon DEF Reports0
<1>6. \A n \in Needs : s.rows[n] = IF n = t THEN "installing" ELSE r.rows[n]  BY <1>1, <1>3
<1>7. Honest(s)
  <2> SUFFICES ASSUME NEW n \in Needs
               PROVE  /\ s.rows[n] = "ok" => needs[n]
                      /\ s.all => needs[n]
                      /\ s.proceed /\ n \in Blocking => s.rows[n] # "missing"
    BY Zenon DEF Honest
  <2>1. /\ r.rows[n] = "ok" => needs[n]
        /\ r.all => needs[n]
        /\ r.proceed /\ n \in Blocking => r.rows[n] # "missing"
    BY Zenon DEF Honest
  <2>2. CASE n = t
    <3>1. s.rows[n] = "installing"  BY <1>6, <2>2
    <3> QED  BY <1>3, <2>1, <3>1
  <2>3. CASE n # t
    <3>1. s.rows[n] = r.rows[n]  BY <1>6, <2>3
    <3> QED  BY <1>3, <2>1, <3>1, Zenon
  <2> QED  BY <2>2, <2>3
<1> QED  BY <1>5, <1>6, <1>7

LEMMA ToldKeeps ==
    ASSUME SetupInv, Told
    PROVE  SetupInv'
<1> USE DEF SetupInv
<1>1. mail \in Seq(Mails) /\ mail # <<>>  BY DEF SetupTypes, Told
<1>2. PICK m \in Mails : m = Head(mail)  BY <1>1
<1>3. PICK post \in Seq(Mails) : post = Tail(mail)  BY <1>1, HeadTailProperties
<1>4. /\ Len(mail) = Len(post) + 1 /\ Len(post) \in Nat /\ mail[1] = m
      /\ DOMAIN mail = 1..(Len(post) + 1) /\ DOMAIN post = 1..Len(post)
      /\ \A i \in 1..Len(post) : post[i] = mail[i + 1]
  BY <1>1, <1>2, <1>3
<1>5. UNCHANGED <<needs, jobs, wizard>>  BY DEF Told
<1>6. /\ hook' = IF hook.in = "none" THEN hook
                 ELSE CASE m.kind = "answer" ->
                        [hook EXCEPT !.report = <<m.got>>, !.phase = "ready", !.foreign = {},
                                     !.busy = IF m.tag = "none" THEN @ ELSE "none"]
                  [] m.kind = "refusal" -> [hook EXCEPT !.phase = "error"]
                  [] m.kind = "progress" ->
                        [hook EXCEPT !.report = IF @ = <<>> THEN @
                                                ELSE <<[@[1] EXCEPT !.rows[m.tag] = "installing"]>>,
                                     !.foreign = IF m.got THEN @ \cup {m.tag} ELSE @ \ {m.tag}]
                  [] OTHER -> [hook EXCEPT !.busy = IF m.got THEN "none" ELSE @,
                                           !.threw = IF m.got THEN @ \cup {m.tag} ELSE @ \ {m.tag}]
      /\ IF m.kind = "outcome" /\ ~m.got /\ hook.in # "none"
         THEN AsksFor(m.tag, FALSE, post)
         ELSE mail' = post /\ UNCHANGED check
  BY <1>2, <1>3, Zenon DEF Told
<1>7. hook.in \in {"none", "wizard", "panel"} /\ hook.busy \in Tags /\ hook.threw \subseteq Needs
      /\ hook.report \in AtMostOne(Reports0) /\ hook \in Hooks
  BY DEF SetupTypes, Hooks
<1>8. \A n \in Needs : needs[n] => needs'[n]  BY <1>5
<1>9. \A i \in DOMAIN post : post[i].kind = "answer" => \E x \in Made : Honest(x) /\ post[i].got = x
  BY <1>4, HandedOnBefore
\* No report is asked for.
<1>10. ASSUME mail' = post, UNCHANGED check
       PROVE  /\ \A n \in Needs : \A i \in Nat : Settles(n, i + 1) => Settles(n, i)'
              /\ \A i \in DOMAIN mail' :
                    mail'[i].kind = "progress" /\ ~mail'[i].got => Settles(mail[i].tag, i)'
  <2>1. \A n \in Needs : \A i \in Nat : Settles(n, i + 1) => Settles(n, i)'
    BY <1>1, <1>4, <1>5, <1>10, SettlesShift
  <2>2. ASSUME NEW i \in DOMAIN mail', mail'[i].kind = "progress", ~mail'[i].got
        PROVE  Settles(mail[i].tag, i)'
    <3>1. i \in Nat /\ i + 1 \in DOMAIN mail /\ mail'[i] = mail[i + 1]  BY <1>4, <1>10, <2>2
    <3>2. Settles(mail[i + 1].tag, i + 1)  BY <2>2, <3>1 DEF BarInv
    <3>3. mail[i + 1] \in Mails  BY <1>1, <3>1
    <3>4. PICK n \in Needs : n = mail[i + 1].tag  BY <2>2, <3>1, <3>3 DEF Mails
    <3>5. Settles(n, i)'  BY <2>1, <3>1, <3>2, <3>4
    <3>6. mail'[i].tag = n  BY <3>1, <3>4
    <3> QED  BY <3>5, <3>6, Zenon DEF Settles
  <2> QED  BY <2>1, <2>2
<1>11. ASSUME NEW n \in Needs, Settles(n, 0),
              ~(m.kind \in {"answer", "refusal"}), ~(m.kind = "outcome" /\ m.tag = n)
       PROVE  Settles(n, 1)
  <2>1. \A k \in DOMAIN mail : k > 0 /\ k # 1 => k > 1  BY <1>4
  <2> QED  BY <1>4, <1>11, <2>1, Zenon DEF Settles
<1>12. CASE hook.in = "none"
  <2>1. hook' = hook /\ mail' = post /\ UNCHANGED check  BY <1>6, <1>12
  <2>2. SetupTypes'  BY <1>5, <2>1 DEF SetupTypes
  <2>3. HonestInv'  BY <1>8, <1>9, <2>1, HandedOn, HandedOnBefore
  <2>4. BarInv'
    <3>1. \A n \in Needs : ~Busy(n)'  BY <1>12, <2>1, Zenon DEF Busy
    <3> QED  BY <1>10, <2>1, <3>1, Zenon DEF BarInv
  <2> QED  BY <1>5, <2>1, <2>2, <2>3, <2>4, PassedKept
<1>13. CASE hook.in # "none" /\ m.kind = "answer"
  <2>1. mail' = post /\ UNCHANGED check
        /\ hook' = [hook EXCEPT !.report = <<m.got>>, !.phase = "ready", !.foreign = {},
                                !.busy = IF m.tag = "none" THEN @ ELSE "none"]
    BY <1>6, <1>13
  <2>2. PICK r \in Made : Honest(r) /\ m.got = r  BY <1>4, <1>13, HandedOnBefore
  <2>3. r \in Reports0 /\ \A n \in Needs : r.rows[n] # "installing"
    <3>1. [Needs -> {"ok", "missing"}] \subseteq [Needs -> {"ok", "missing", "installing"}]
      OBVIOUS
    <3>2. r \in Reports0  BY <3>1, Zenon DEF Made, Reports0
    <3> QED  BY <3>2, MadeRows
  <2>4. <<r>> \in AtMostOne(Reports0) /\ "none" \in Tags  BY <2>3 DEF AtMostOne, Tags
  <2>5. /\ hook' \in Hooks
        /\ hook'.report = <<r>> /\ hook'.phase = "ready" /\ hook'.in = hook.in
        /\ hook'.accepted = hook.accepted
    BY <1>7, <2>1, <2>2, <2>4 DEF Hooks
  <2>6. SetupTypes'  BY <1>5, <2>1, <2>5 DEF SetupTypes
  <2>7. HonestInv'  BY <1>8, <1>9, <2>1, <2>2, <2>3, <2>5, HandedOn, HandedOnBefore
  <2>8. BarInv'
    <3>1. \A n \in Needs : ~Installing(n)'
      <4>1. hook'.report[1] = r  BY <2>5
      <4> QED  BY <2>3, <4>1, Zenon DEF Installing
    <3>2. \A n \in Needs : ~Busy(n)'  BY <3>1, Zenon DEF Busy
    <3> QED  BY <1>10, <2>1, <3>2, Zenon DEF BarInv
  <2> QED  BY <1>5, <2>5, <2>6, <2>7, <2>8, PassedKept
<1>14. CASE hook.in # "none" /\ m.kind = "refusal"
  <2>1. mail' = post /\ UNCHANGED check /\ hook' = [hook EXCEPT !.phase = "error"]
    BY <1>6, <1>14
  <2>2. /\ SetupTypes' /\ hook'.phase = "error"
        /\ hook'.report = hook.report /\ hook'.accepted = hook.accepted
    <3>1. /\ hook' \in Hooks /\ hook'.phase = "error"
          /\ hook'.report = hook.report /\ hook'.accepted = hook.accepted
      BY <1>7, <2>1 DEF Hooks
    <3> QED  BY <1>5, <2>1, <3>1 DEF SetupTypes
  <2>3. HonestInv'  BY <1>8, <1>9, <2>1, <2>2, HandedOn, HandedOnBefore
  <2>4. BarInv'
    <3>1. \A n \in Needs : ~Busy(n)'  BY <2>2 DEF Busy
    <3> QED  BY <1>10, <2>1, <3>1, Zenon DEF BarInv
  <2> QED  BY <1>5, <2>2, <2>3, <2>4, PassedKept
<1>15. CASE hook.in # "none" /\ m.kind = "progress"
  <2>1. PICK t \in Needs : t = m.tag  BY <1>15 DEF Mails
  <2>2. m.got \in BOOLEAN  BY <1>15 DEF Mails
  <2>3. PICK f \in SUBSET Needs : f = IF m.got THEN hook.foreign \cup {t} ELSE hook.foreign \ {t}
    BY <1>7 DEF Hooks
  <2>4. mail' = post /\ UNCHANGED check
        /\ hook' = [hook EXCEPT !.report = IF @ = <<>> THEN @
                                           ELSE <<[@[1] EXCEPT !.rows[t] = "installing"]>>,
                                !.foreign = f]
    BY <1>6, <1>15, <2>1, <2>3
  <2>5. CASE hook.report = <<>>
    <3>1. /\ hook' \in Hooks
          /\ hook'.report = <<>> /\ hook'.accepted = hook.accepted /\ hook'.phase = hook.phase
      BY <1>7, <2>4, <2>5 DEF Hooks
    <3>2. SetupTypes'  BY <1>5, <2>4, <3>1 DEF SetupTypes
    <3>3. HonestInv'  BY <1>8, <1>9, <2>4, <2>5, <3>1, HandedOn, HandedOnBefore
    <3>4. \A n \in Needs : ~Busy(n)'  BY <3>1 DEF Busy, Installing
    <3>5. BarInv'  BY <1>10, <2>4, <3>4, Zenon DEF BarInv
    <3> QED  BY <1>5, <3>1, <3>2, <3>3, <3>5, PassedKept
  <2>6. CASE hook.report # <<>>
    <3>1. PICK r \in Reports0 : Honest(r) /\ hook.report[1] = r  BY <2>6, HandedOnBefore
    <3>2. PICK s : s = [r EXCEPT !.rows[t] = "installing"]  OBVIOUS
    <3>3. /\ s \in Reports0 /\ Honest(s)
          /\ \A n \in Needs : n # t => s.rows[n] = r.rows[n]
      BY <3>1, <3>2, Announced
    <3>4. hook' = [hook EXCEPT !.report = <<s>>, !.foreign = f]  BY <2>4, <2>6, <3>1, <3>2
    <3>5. <<s>> \in AtMostOne(Reports0)  BY <3>3 DEF AtMostOne
    <3>6. /\ hook' \in Hooks /\ hook'.report = <<s>> /\ hook'.phase = hook.phase /\ hook'.foreign = f
          /\ hook'.in = hook.in /\ hook'.threw = hook.threw /\ hook'.accepted = hook.accepted
      BY <1>7, <3>4, <3>5 DEF Hooks
    <3>7. SetupTypes'  BY <1>5, <2>4, <3>6 DEF SetupTypes
    <3>8. hook'.report[1] = s /\ hook'.report # <<>>  BY <3>6
    <3>9. HonestInv'
      <4>1. hook'.phase = "ready" => hook'.report # <<>>  BY <3>8
      <4> QED  BY <1>8, <1>9, <2>4, <3>3, <3>8, <4>1, HandedOn, HandedOnBefore
    <3>10. ASSUME NEW n \in Needs, Busy(n)'
           PROVE  n \in hook'.threw \/ Settles(n, 0)'
      <4>1. CASE n = t
        <5>1. ~m.got  BY <2>2, <2>3, <3>6, <3>10, <4>1 DEF Busy
        <5>2. Settles(mail[1].tag, 1)  BY <1>4, <1>15, <5>1 DEF BarInv
        <5>3. Settles(n, 0 + 1)  BY <1>4, <2>1, <4>1, <5>2
        <5> QED  BY <1>10, <2>4, <5>3
      <4>2. CASE n # t
        <5>1. Installing(n)  BY <2>6, <3>1, <3>3, <3>8, <3>10, <4>2 DEF Busy, Installing
        <5>2. Busy(n)  BY <2>3, <3>6, <3>10, <4>2, <5>1 DEF Busy
        <5>3. n \in hook.threw \/ Settles(n, 0)  BY <5>2 DEF BarInv
        <5>4. Settles(n, 0) => Settles(n, 0 + 1)  BY <1>11, <1>15
        <5> QED  BY <1>10, <2>4, <3>6, <5>3, <5>4
      <4> QED  BY <4>1, <4>2
    <3>11. BarInv'  BY <1>10, <2>4, <3>10, Zenon DEF BarInv
    <3> QED  BY <1>5, <3>6, <3>7, <3>9, <3>11, PassedKept
  <2> QED  BY <2>5, <2>6
<1>16. CASE hook.in # "none" /\ m.kind = "outcome"
  <2>1. PICK t \in Needs : t = m.tag  BY <1>16 DEF Mails
  <2>2. hook' = [hook EXCEPT !.busy = IF m.got THEN "none" ELSE @,
                             !.threw = IF m.got THEN @ \cup {t} ELSE @ \ {t}]
    BY <1>6, <1>16, <2>1
  <2>3. "none" \in Tags  BY DEF Tags
  <2>4. /\ hook' \in Hooks
        /\ hook'.report = hook.report /\ hook'.phase = hook.phase /\ hook'.in = hook.in
        /\ hook'.accepted = hook.accepted
        /\ hook'.foreign = hook.foreign
        /\ m.got => hook'.threw = hook.threw \cup {t}
    BY <1>7, <2>1, <2>2, <2>3 DEF Hooks
  <2>5. \A n \in Needs : Busy(n)' => Busy(n)  BY <2>4 DEF Busy, Installing
  <2>6. CASE m.got
    <3>1. mail' = post /\ UNCHANGED check  BY <1>6, <2>6
    <3>2. SetupTypes'  BY <1>5, <2>4, <3>1 DEF SetupTypes
    <3>3. HonestInv'  BY <1>8, <1>9, <2>4, <3>1, HandedOn, HandedOnBefore
    <3>4. ASSUME NEW n \in Needs, Busy(n)'
          PROVE  n \in hook'.threw \/ Settles(n, 0)'
      <4>1. n \in hook.threw \/ Settles(n, 0)  BY <2>5, <3>4 DEF BarInv
      <4>2. n # t /\ Settles(n, 0) => Settles(n, 0 + 1)  BY <1>11, <1>16, <2>1
      <4> QED  BY <1>10, <2>4, <2>6, <3>1, <4>1, <4>2
    <3>5. BarInv'  BY <1>10, <3>1, <3>4, Zenon DEF BarInv
    <3> QED  BY <1>5, <2>4, <3>2, <3>3, <3>5, PassedKept
  <2>7. CASE ~m.got
    <3>1. AsksFor(t, FALSE, post)  BY <1>6, <1>16, <2>1, <2>7
    <3>2. /\ check' \in Checks
          /\ check'.cached \in {<<>>, check.cached}
          /\ check'.flight \in {check.flight, <<Unseen>>}
          /\ \/ mail' = post /\ check'.waits # <<>>
             \/ /\ \E r \in Made : Honest(r) /\ mail' = Append(post, AnswerTo(t, r))
                /\ check'.waits = check.waits
      <4>1. t \in Tags /\ FALSE \in BOOLEAN  BY DEF Tags
      <4> QED  BY <3>1, <4>1, AsksForGives
    <3>3. /\ mail' \in Seq(Mails)
          /\ \A i \in DOMAIN mail' : mail'[i].kind = "answer" =>
                \E x \in Made : Honest(x) /\ mail'[i].got = x
          /\ \A n \in Needs : \A i \in 0..Len(post) : Settles(n, i)'
          /\ \A i \in DOMAIN mail' : mail'[i].kind = "progress" => i \in 0..Len(post)
      <4>1. CASE mail' = post /\ check'.waits # <<>>
        BY <1>4, <1>9, <4>1 DEF Settles
      <4>2. ASSUME NEW r \in Made, Honest(r), mail' = Append(post, AnswerTo(t, r))
            PROVE  <3>3
        <5>1. t \in Tags  BY DEF Tags
        <5>2. PICK x \in Mails : x = AnswerTo(t, r) /\ x.kind = "answer" /\ x.got = r
          BY <5>1, AnswerIsMail
        <5>3. /\ mail' \in Seq(Mails) /\ DOMAIN mail' = 1..(Len(post) + 1)
              /\ \A i \in 1..Len(post) : mail'[i] = post[i]
              /\ mail'[Len(post) + 1] = x
          BY <4>2, <5>2
        <5>4. \A i \in DOMAIN mail' : i \in DOMAIN post \/ i = Len(post) + 1  BY <1>4, <5>3
        <5>5. \A i \in DOMAIN mail' : mail'[i].kind = "answer" =>
                 \E y \in Made : Honest(y) /\ mail'[i].got = y
          BY <1>4, <1>9, <4>2, <5>2, <5>3, <5>4
        <5>6. \A n \in Needs : \A i \in 0..Len(post) : Settles(n, i)'
          <6> SUFFICES ASSUME NEW n \in Needs, NEW i \in 0..Len(post)  PROVE Settles(n, i)'
            OBVIOUS
          <6>1. Len(post) + 1 \in DOMAIN mail' /\ Len(post) + 1 > i  BY <1>4, <5>3
          <6> QED  BY <5>2, <5>3, <6>1 DEF Settles
        <5>7. \A i \in DOMAIN mail' : mail'[i].kind = "progress" => i \in 0..Len(post)
          BY <1>4, <5>2, <5>3, <5>4
        <5> QED  BY <5>3, <5>5, <5>6, <5>7
      <4> QED  BY <3>2, <4>1, <4>2
    <3>4. SetupTypes'  BY <1>5, <2>4, <3>2, <3>3 DEF SetupTypes
    <3>5. HonestInv'  BY <1>8, <2>4, <3>2, <3>3, HandedOn, HandedOnBefore
    <3>6. BarInv'
      <4>1. \A n \in Needs : Settles(n, 0)'  BY <1>4, <3>3
      <4>2. ASSUME NEW i \in DOMAIN mail', mail'[i].kind = "progress"
            PROVE  Settles(mail[i].tag, i)'
        <5>1. mail'[i] \in Mails  BY <3>3, <4>2
        <5>2. PICK n \in Needs : n = mail'[i].tag  BY <4>2, <5>1 DEF Mails
        <5>3. Settles(n, i)'  BY <3>3, <4>2
        <5> QED  BY <5>2, <5>3, Zenon DEF Settles
      <4> QED  BY <4>1, <4>2, Zenon DEF BarInv
    <3> QED  BY <1>5, <2>4, <3>4, <3>5, <3>6, PassedKept
  <2> QED  BY <2>6, <2>7
<1>17. m.kind \in {"answer", "refusal", "progress", "outcome"}  BY DEF Mails
<1> QED  BY <1>12, <1>13, <1>14, <1>15, <1>16, <1>17

\* What else the hook's screen does leaves the report alone.
LEMMA ScreenKeeps ==
    ASSUME SetupInv, UNCHANGED <<needs, check, mail, jobs>>,
           hook' \in Hooks,
           hook'.report = hook.report, hook'.phase = hook.phase, hook'.threw = hook.threw,
           hook'.foreign = hook.foreign, hook'.in \in {hook.in, "none"},
           hook.accepted \subseteq hook'.accepted,
           "way" \in DOMAIN wizard',
           \/ wizard'.way = wizard.way
           \/ wizard'.way # "cleared"
           \/ \A n \in Needs : needs[n] \/ (n \in Degrading /\ n \in hook.accepted)
    PROVE  SetupInv'
<1> USE DEF SetupInv
<1>1. SetupTypes'  BY DEF SetupTypes
<1>2. HonestInv'
  <2>1. \A n \in Needs : needs[n] => needs'[n]  OBVIOUS
  <2> QED  BY <2>1, HandedOn, HandedOnBefore
<1>3. BarInv'
  <2>1. ASSUME NEW i \in DOMAIN mail', mail'[i].kind = "progress", ~mail'[i].got
        PROVE  Settles(mail[i].tag, i)'
    <3>1. Settles(mail[i].tag, i)  BY <2>1 DEF BarInv
    <3> QED  BY <3>1, Zenon DEF Settles
  <2>2. ASSUME NEW n \in Needs, Busy(n)'
        PROVE  n \in hook'.threw \/ Settles(n, 0)'
    <3>1. Busy(n)  BY <2>2 DEF Busy, Installing
    <3>2. n \in hook.threw \/ Settles(n, 0)  BY <3>1 DEF BarInv
    <3>3. Settles(n, 0) => Settles(n, 0)'  BY Zenon DEF Settles
    <3> QED  BY <3>2, <3>3
  <2> QED  BY <2>1, <2>2, Zenon DEF BarInv
<1>4. OnlyInOrderIsPassed'
  <2>1. CASE wizard'.way = wizard.way  BY <2>1, PassedKept
  <2>2. CASE wizard'.way # "cleared"  BY <2>2 DEF OnlyInOrderIsPassed
  <2>3. CASE \A n \in Needs : needs[n] \/ (n \in Degrading /\ n \in hook.accepted)
    BY <2>3, Zenon DEF OnlyInOrderIsPassed
  <2> QED  BY <2>1, <2>2, <2>3
<1> QED  BY <1>1, <1>2, <1>3, <1>4

\* The screen steps aside for a report that is honest and has all in order, or
\* nothing at work; or, where nothing can be asked, without one.
LEMMA StepsAsideKeeps ==
    ASSUME SetupInv, StepsAside
    PROVE  SetupInv'
<1>1. /\ wizard' = [wizard EXCEPT !.at = 1,
                       !.way = IF hook.phase = "unavailable" THEN "unknown" ELSE "cleared"]
      /\ hook' = [hook EXCEPT !.in = "none"]
      /\ UNCHANGED <<needs, check, mail, jobs>> /\ Cleared
  BY DEF StepsAside, Passes
<1>2. /\ hook' \in Hooks /\ hook'.in = "none"
      /\ hook'.report = hook.report /\ hook'.phase = hook.phase /\ hook'.threw = hook.threw
      /\ hook'.foreign = hook.foreign /\ hook'.accepted = hook.accepted
  BY <1>1 DEF SetupInv, SetupTypes, Hooks
<1>3. "way" \in DOMAIN wizard' /\ wizard'.way = IF hook.phase = "unavailable" THEN "unknown" ELSE "cleared"
  BY <1>1 DEF SetupInv, SetupTypes
<1>4. CASE hook.phase = "unavailable"
  <2>1. wizard'.way # "cleared"  BY <1>3, <1>4
  <2> QED  BY <1>1, <1>2, <1>3, <2>1, ScreenKeeps
<1>5. CASE hook.phase = "ready"
  <2>1. PICK r \in Reports0 : hook.report # <<>> /\ Honest(r) /\ hook.report[1] = r
    BY <1>5, HandedOnBefore DEF SetupInv
  <2>2. \/ r.all
        \/ /\ r.proceed /\ \A n \in Needs : RowStatus(n) # "installing"
           /\ Outstanding \subseteq hook.accepted
    BY <1>1, <1>5, <2>1 DEF Cleared
  <2>3. \A n \in Needs : RowStatus(n) = r.rows[n]  BY <2>1 DEF RowStatus
  <2>4. ASSUME NEW n \in Needs  PROVE needs[n] \/ (n \in Degrading /\ n \in hook.accepted)
    <3>1. CASE r.all  BY <2>1, <2>4, <3>1, Zenon DEF Honest
    <3>2. CASE /\ r.proceed /\ \A x \in Needs : RowStatus(x) # "installing"
               /\ Outstanding \subseteq hook.accepted
      <4>1. r.rows[n] \in {"ok", "missing", "installing"}  BY DEF Reports0
      <4>2. CASE r.rows[n] = "ok"  BY <2>1, <4>2 DEF Honest
      <4>3. CASE r.rows[n] = "missing"
        <5>1. n \in hook.accepted  BY <2>3, <3>2, <4>3 DEF Outstanding
        <5>2. n \notin Blocking  BY <2>1, <3>2, <4>3, Zenon DEF Honest
        <5> QED  BY <5>1, <5>2 DEF Needs
      <4> QED  BY <2>3, <3>2, <4>1, <4>2, <4>3
    <3> QED  BY <2>2, <3>1, <3>2
  <2> QED  BY <1>1, <1>2, <1>3, <2>4, ScreenKeeps
<1> QED  BY <1>1, <1>4, <1>5 DEF Cleared

LEMMA WizardKeeps ==
    ASSUME SetupInv, WizardNext
    PROVE  SetupInv'
<1>1. CASE StepsAside  BY <1>1, StepsAsideKeeps
<1>2. CASE Skips
  <2>1. /\ wizard' = [wizard EXCEPT !.at = 1, !.way = "skipped"]
        /\ hook' = [hook EXCEPT !.in = "none"] /\ hook.phase = "error"
        /\ UNCHANGED <<needs, check, mail, jobs>>
    BY <1>2 DEF Skips, Passes
  <2>2. /\ hook' \in Hooks /\ hook'.in = "none"
        /\ hook'.report = hook.report /\ hook'.phase = hook.phase /\ hook'.threw = hook.threw
        /\ hook'.foreign = hook.foreign /\ hook'.accepted = hook.accepted
        /\ "way" \in DOMAIN wizard' /\ wizard'.way = "skipped"
    BY <2>1 DEF SetupInv, SetupTypes, Hooks
  <2> QED  BY <2>1, <2>2, ScreenKeeps
<1>3. ASSUME NEW n \in Degrading, Accepts(n)  PROVE SetupInv'
  <2>1. hook' = [hook EXCEPT !.accepted = @ \cup {n}] /\ UNCHANGED <<needs, check, mail, jobs, wizard>>
    BY <1>3 DEF Accepts
  <2>2. n \in Needs  BY DEF Needs
  <2>3. /\ hook' \in Hooks /\ hook'.in = hook.in
        /\ hook'.report = hook.report /\ hook'.phase = hook.phase /\ hook'.threw = hook.threw
        /\ hook'.foreign = hook.foreign /\ hook.accepted \subseteq hook'.accepted
    BY <2>1, <2>2 DEF SetupInv, SetupTypes, Hooks
  <2> QED  BY <2>1, <2>3, ScreenKeeps DEF SetupInv, SetupTypes
<1>4. CASE Picks \/ Added \/ FolderDone \/ SignInTook \/ WizardEnds \/ AsksForIt
  <2>1. UNCHANGED <<needs, check, mail, jobs, hook>>
    BY <1>4 DEF Picks, Added, FolderDone, SignInTook, WizardEnds, AsksForIt, Advances, Rest, setupVars
  <2>2. "way" \in DOMAIN wizard' /\ wizard'.way = wizard.way
    <3>1. "way" \in DOMAIN wizard  BY DEF SetupInv, SetupTypes
    <3>2. CASE Picks  BY <3>1, <3>2 DEF Picks
    <3>3. CASE Added
      <4>1. PICK f \in {g \in Shares : world.share[g] = "no"} \cup {"none"} :
               wizard' = [wizard EXCEPT !.pick = "idle",
                                        !.chosen = IF f = "none" \/ Step # "folder" THEN @ ELSE {f}]
        BY <3>3 DEF Added
      <4> QED  BY <3>1, <4>1
    <3>4. CASE FolderDone \/ SignInTook  BY <3>1, <3>4 DEF FolderDone, SignInTook, Advances
    <3>5. CASE WizardEnds
      <4>1. wizard' = [wizard EXCEPT !.done = TRUE]  BY <3>5 DEF WizardEnds
      <4> QED  BY <3>1, <4>1
    <3>6. CASE AsksForIt  BY <3>1, <3>6 DEF AsksForIt, setupVars
    <3> QED  BY <1>4, <3>2, <3>3, <3>4, <3>5, <3>6
  <2> QED  BY <2>1, <2>2, ScreenKeeps DEF SetupInv, SetupTypes
<1> QED  BY <1>1, <1>2, <1>3, <1>4 DEF WizardNext

\* The other parts of the console leave the wizard alone.
LEMMA SetupStep ==
    ASSUME NEW rs, ConsoleNext(rs)
    PROVE  UNCHANGED setupVars \/ CheckNext \/ WizardNext
<1>1. CASE PanelPart
  <2>1. (\E s \in Sections : Navigated(s)) => UNCHANGED setupVars  BY DEF Navigated
  <2> QED  BY <1>1, <2>1, Zenon DEF PanelPart, desktopVars
<1>2. CASE SetupPart  BY <1>2, Zenon DEF SetupPart, desktopVars
<1>3. CASE SettingsPart
  <2>1. (\E s \in {"settings", "hosting"} : Navigated(s)) => UNCHANGED setupVars  BY DEF Navigated
  <2> QED  BY <1>3, <2>1, Zenon DEF SettingsPart
<1>4. CASE FrontPart  BY <1>4, Zenon DEF FrontPart, desktopVars
<1>5. CASE UpdatePart(rs)  BY <1>5, Zenon DEF UpdatePart, desktopVars
<1> QED  BY <1>1, <1>2, <1>3, <1>4, <1>5 DEF ConsoleNext

LEMMA SetupKept ==
    ASSUME SetupInv, [MCNext]_consoleVars
    PROVE  SetupInv'
<1>1. CASE UNCHANGED setupVars
  <2>1. UNCHANGED <<needs, check, mail, jobs, hook, wizard>>  BY <1>1 DEF setupVars
  <2> QED  BY <2>1, ScreenKeeps DEF SetupInv, SetupTypes
<1>2. CASE CheckNext
  <2>1. CASE Detects \/ Reports \/ Told  BY <2>1, DetectsKeeps, ReportsKeeps, ToldKeeps
  <2>2. ASSUME NEW j \in jobs, JobEnds(j) \/ Tells(j)  PROVE SetupInv'
    BY <2>2, JobEndsKeeps, TellsKeeps
  <2>3. CASE ChecksAgain \/ CheckFails  BY <2>3, ChecksAgainKeeps, CheckFailsKeeps
  <2>4. ASSUME NEW n \in Needs, Remedies(n) \/ RemediesElsewhere(n)  PROVE SetupInv'
    BY <2>4, RemediesKeeps
  <2> QED  BY <1>2, <2>1, <2>2, <2>3, <2>4 DEF CheckNext, SetupWork
<1>3. CASE WizardNext  BY <1>3, WizardKeeps
<1>4. UNCHANGED consoleVars => UNCHANGED setupVars  BY DEF consoleVars, desktopVars
<1> QED  BY <1>1, <1>2, <1>3, <1>4, SetupStep DEF MCNext

HookAt(in, phase) ==
    [in |-> in, report |-> <<>>, phase |-> phase, busy |-> "none", accepted |-> {}, threw |-> {},
     foreign |-> {}]

\* No report, and no message, at the start.
LEMMA SetupStarts ==
    ASSUME MCInit
    PROVE  SetupInv
<1>1. /\ NoSetup \/ HookInit("wizard") \/ HookInit("panel") \/ NoBridge("wizard")
      /\ \E remote \in BOOLEAN : WizardInit(remote)
      /\ needs \in [Needs -> BOOLEAN]
  <2>1. CASE NoSetup
    <3>1. needs \in [Needs -> BOOLEAN]  BY <2>1, Zenon DEF NoSetup
    <3>2. WizardInit(FALSE)  BY <2>1 DEF NoSetup
    <3> QED  BY <2>1, <3>1, <3>2, Zenon
  <2>2. CASE SetupScenario
    <3>1. needs \in [Needs -> BOOLEAN]
      <4>1. /\ [n \in Needs |-> n = "e"] \in [Needs -> BOOLEAN]
            /\ [n \in Needs |-> n = "b"] \in [Needs -> BOOLEAN]
            /\ [n \in Needs |-> n # "b"] \in [Needs -> BOOLEAN]
        BY Zenon
      <4>2. \/ needs \in {[n \in Needs |-> n = "e"], [n \in Needs |-> n = "b"]}
            \/ needs = [n \in Needs |-> n = "e"]
            \/ needs = [n \in Needs |-> n # "b"]
        BY <2>2, Zenon DEF SetupScenario
      <4> QED  BY <4>1, <4>2, Zenon
    <3>2. (HookInit("wizard") \/ NoBridge("wizard")) /\ \E remote \in BOOLEAN : WizardInit(remote)
      BY <2>2, Zenon DEF SetupScenario
    <3> QED  BY <3>1, <3>2
  <2>3. CASE BannerScenario
    <3>1. needs = [n \in Needs |-> n # "d"]  BY <2>3, Zenon DEF BannerScenario
    <3>2. needs \in [Needs -> BOOLEAN]  BY <3>1, Zenon
    <3>3. HookInit("panel") /\ WizardInit(FALSE)  BY <2>3, Zenon DEF BannerScenario
    <3> QED  BY <3>2, <3>3, Zenon
  <2>4. CASE PanelScenario \/ InviteScenario \/ SettingsScenario \/ FrontScenario \/ UpdateScenario
    <3>1. NoSetup  BY <2>4, Zenon DEF PanelScenario, InviteScenario, SettingsScenario, FrontScenario,
                                      UpdateScenario
    <3> QED  BY <2>1, <3>1
  <2> QED  BY <2>2, <2>3, <2>4 DEF MCInit
<1>2. /\ mail = <<>> /\ jobs = {}
      /\ \E in \in {"none", "wizard", "panel"}, phase \in {"checking", "unavailable"} :
            hook = HookAt(in, phase)
      /\ \E f \in {<<>>, <<Unseen>>}, w \in {<<>>, <<"none">>} :
            check = [cached |-> <<>>, flight |-> f, waits |-> w]
  <2>1. CASE NoSetup
    <3>1. hook = HookAt("none", "checking")  BY <2>1 DEF NoSetup, NoHook, HookAt
    <3>2. check = [cached |-> <<>>, flight |-> <<>>, waits |-> <<>>] /\ mail = <<>> /\ jobs = {}
      BY <2>1 DEF NoSetup
    <3> QED  BY <3>1, <3>2
  <2>2. CASE HookInit("wizard")
    <3>1. hook = HookAt("wizard", "checking")  BY <2>2 DEF HookInit, NoHook, HookAt
    <3> QED  BY <2>2, <3>1 DEF HookInit
  <2>3. CASE HookInit("panel")
    <3>1. hook = HookAt("panel", "checking")  BY <2>3 DEF HookInit, NoHook, HookAt
    <3> QED  BY <2>3, <3>1 DEF HookInit
  <2>4. CASE NoBridge("wizard")
    <3>1. hook = HookAt("wizard", "unavailable")  BY <2>4 DEF NoBridge, NoHook, HookAt
    <3> QED  BY <2>4, <3>1 DEF NoBridge
  <2> QED  BY <1>1, <2>1, <2>2, <2>3, <2>4
<1>3. PICK in \in {"none", "wizard", "panel"}, phase \in {"checking", "unavailable"} :
         hook = HookAt(in, phase)
  BY <1>2
<1>4. PICK f \in {<<>>, <<Unseen>>}, w \in {<<>>, <<"none">>} :
         check = [cached |-> <<>>, flight |-> f, waits |-> w]
  BY <1>2
<1>5. "way" \in DOMAIN wizard /\ wizard.way = "none"  BY <1>1 DEF WizardInit
<1>6. SetupTypes
  <2>1. <<>> \in AtMostOne(Made) /\ f \in AtMostOne(Made \cup {Unseen}) /\ <<>> \in AtMostOne(Reports0)
    BY DEF AtMostOne
  <2>2. w \in Seq(Tags) /\ "none" \in Tags
    <3>1. "none" \in Tags  BY DEF Tags
    <3>2. <<>> \in Seq(Tags) /\ <<"none">> \in Seq(Tags)  BY <3>1
    <3> QED  BY <3>1, <3>2
  <2>3. check \in Checks  BY <1>4, <2>1, <2>2 DEF Checks
  <2>4. hook \in Hooks
    BY <1>3, <2>1, <2>2 DEF HookAt, Hooks
  <2>5. mail \in Seq(Mails)  BY <1>2
  <2> QED  BY <1>1, <1>2, <1>5, <2>1, <2>2, <2>3, <2>4, <2>5 DEF SetupTypes
<1>7. hook.report = <<>> /\ hook.phase \in {"checking", "unavailable"}  BY <1>3 DEF HookAt
<1>8. check.cached = <<>> /\ check.flight \in {<<>>, <<Unseen>>}  BY <1>4
<1>9. \A i \in DOMAIN mail : FALSE
  <2>1. mail \in Seq(Mails) /\ Len(mail) = 0  BY <1>2, <1>6 DEF SetupTypes
  <2> QED  BY <2>1
<1>10. HonestInv  BY <1>7, <1>8, <1>9 DEF HonestInv
<1>11. BarInv  BY <1>7, <1>9 DEF BarInv, Busy, Installing
<1>12. OnlyInOrderIsPassed  BY <1>5 DEF OnlyInOrderIsPassed
<1> QED  BY <1>6, <1>10, <1>11, <1>12 DEF SetupInv

LEMMA NoBarIsLeft ==
    ASSUME SetupInv
    PROVE  NoRowStaysBusy
<1> SUFFICES ASSUME hook.in # "none", jobs = {}, mail = <<>>, check.waits = <<>>, hook.phase = "ready",
                    NEW n \in Needs, RowStatus(n) = "installing", n \notin hook.foreign
             PROVE  n \in hook.threw
  BY Zenon DEF NoRowStaysBusy
<1>1. Busy(n)  BY DEF Busy, Installing, RowStatus
<1>2. Settles(n, 0) \/ n \in hook.threw  BY <1>1 DEF SetupInv, BarInv
<1>3. \A i \in DOMAIN mail : FALSE
  <2>1. mail \in Seq(Mails) /\ Len(mail) = 0  BY DEF SetupInv, SetupTypes
  <2> QED  BY <2>1
<1> QED  BY <1>2, <1>3, Zenon DEF Settles

---------------------------------------------------------------------------
(* The updates. *)

Writing(t) == t.at \in {"write", "check"}

UpdateShapes ==
    /\ DOMAIN app = {"version", "portable", "ran"}
    /\ DOMAIN card = {"state", "checking", "busy", "error"}
    /\ \A t \in tasks : /\ DOMAIN t = {"do", "at", "n", "of", "live"}
                        /\ t.do \in {"check", "install"}
                        /\ t.at # "ask" => t.do = "install"

\* No installer is asked for by the portable build; until two downloads overlap
\* one task at most has the file, and the file that is about to be run is the
\* published one, or gone.
UpdateInv ==
    /\ UpdateShapes
    /\ card.state = "installable" => ~app.portable
    /\ \A t \in tasks : t.do = "install" => ~app.portable
    /\ \A t, u \in tasks : Writing(t) /\ Writing(u) => overlap \/ t = u
    /\ \A t \in tasks : t.at = "check" /\ t.of.has # "wrong" =>
          overlap \/ target \in {"none", "published"}
    /\ LaunchedIsPublished

\* A task that is new, or another stage of one, and has not the file.
Harmless(u) ==
    /\ DOMAIN u = {"do", "at", "n", "of", "live"}
    /\ u.do \in {"check", "install"}
    /\ u.at # "ask" => u.do = "install"
    /\ u.do = "install" => ~app.portable
    /\ ~Writing(u)

LEMMA TasksKept ==
    ASSUME UpdateInv, \A u \in tasks' : u \in tasks \/ Harmless(u),
           DOMAIN card' = {"state", "checking", "busy", "error"},
           card'.state = "installable" => ~app.portable,
           UNCHANGED <<app, overlap>>, target' \in {target, "none"}
    PROVE  UpdateInv'
<1>1. UpdateShapes'  BY DEF UpdateInv, UpdateShapes, Harmless
<1>2. \A t \in tasks' : t.do = "install" => ~app'.portable  BY DEF UpdateInv, Harmless
<1>3. ASSUME NEW t \in tasks', Writing(t)  PROVE t \in tasks  BY <1>3 DEF Harmless
<1>4. \A t, u \in tasks' : Writing(t) /\ Writing(u) => overlap' \/ t = u
  BY <1>3, Zenon DEF UpdateInv
<1>5. ASSUME NEW t \in tasks', t.at = "check", t.of.has # "wrong"
      PROVE  overlap' \/ target' \in {"none", "published"}
  <2>1. Writing(t)  BY <1>5 DEF Writing
  <2>2. overlap \/ target \in {"none", "published"}  BY <1>3, <1>5, <2>1, Zenon DEF UpdateInv
  <2> QED  BY <2>1, <2>2
<1>6. LaunchedIsPublished'  BY Zenon DEF UpdateInv, LaunchedIsPublished
<1>7. (\A t, u \in tasks : Writing(t) /\ Writing(u) => overlap \/ t = u)'
  BY <1>4, Zenon DEF Writing
<1> QED  BY <1>1, <1>2, <1>5, <1>6, <1>7 DEF UpdateInv

LEMMA UpdateClicks ==
    ASSUME UpdateInv, Check \/ Install \/ Remounted
    PROVE  UpdateInv'
<1>1. ASSUME NEW do \in {"check", "install"}, NEW n,
             NEW u, u = Task(do, n)
      PROVE  /\ DOMAIN u = {"do", "at", "n", "of", "live"}
             /\ u.do = do /\ u.at = "ask" /\ ~Writing(u)
  BY <1>1 DEF Task, Writing
<1>2. CASE Check
  <2>1. PICK u : u = Task("check", left.clicks)  OBVIOUS
  <2>2. /\ card' = [card EXCEPT !.checking = TRUE, !.error = FALSE]
        /\ tasks' = tasks \cup {u} /\ UNCHANGED <<app, target, overlap>>
    BY <1>2, <2>1 DEF Check
  <2>3. card'.state = card.state /\ DOMAIN card' = DOMAIN card  BY <2>2 DEF UpdateInv, UpdateShapes
  <2>4. /\ DOMAIN u = {"do", "at", "n", "of", "live"} /\ u.do = "check" /\ u.at = "ask"
        /\ ~Writing(u)
    BY <1>1, <2>1
  <2>5. Harmless(u)  BY <2>2, <2>4 DEF Harmless, UpdateInv
  <2>6. /\ DOMAIN card' = {"state", "checking", "busy", "error"}
        /\ card'.state = "installable" => ~app.portable
    BY <2>3 DEF UpdateInv, UpdateShapes
  <2>7. \A x \in tasks' : x \in tasks \/ Harmless(x)  BY <2>2, <2>5
  <2> QED  BY <2>2, <2>6, <2>7, TasksKept
<1>3. CASE Install
  <2>1. PICK u : u = Task("install", left.clicks)  OBVIOUS
  <2>2. /\ card.state = "installable" /\ card' = [card EXCEPT !.busy = TRUE, !.error = FALSE]
        /\ tasks' = tasks \cup {u} /\ UNCHANGED <<app, target, overlap>>
    BY <1>3, <2>1 DEF Install
  <2>3. card'.state = card.state /\ DOMAIN card' = DOMAIN card  BY <2>2 DEF UpdateInv, UpdateShapes
  <2>4. /\ DOMAIN u = {"do", "at", "n", "of", "live"} /\ u.do = "install" /\ u.at = "ask"
        /\ ~Writing(u)
    BY <1>1, <2>1
  <2>5. Harmless(u)  BY <2>2, <2>4 DEF Harmless, UpdateInv
  <2>6. /\ DOMAIN card' = {"state", "checking", "busy", "error"}
        /\ card'.state = "installable" => ~app.portable
    BY <2>3 DEF UpdateInv, UpdateShapes
  <2>7. \A x \in tasks' : x \in tasks \/ Harmless(x)  BY <2>2, <2>5
  <2> QED  BY <2>2, <2>6, <2>7, TasksKept
<1>4. CASE Remounted
  <2>1. card' = NoCard /\ tasks' = {[t EXCEPT !.live = FALSE] : t \in tasks}
        /\ UNCHANGED <<app, target, overlap>>
    BY <1>4 DEF Remounted
  <2>2. card'.state = "none" /\ DOMAIN card' = {"state", "checking", "busy", "error"}
    BY <2>1 DEF NoCard
  <2>3. ASSUME NEW x \in tasks'
        PROVE  \E t \in tasks : /\ x = [t EXCEPT !.live = FALSE]
                                /\ DOMAIN x = {"do", "at", "n", "of", "live"}
                                /\ x.do = t.do /\ x.at = t.at /\ x.of = t.of
    <3>1. PICK t \in tasks : x = [t EXCEPT !.live = FALSE]  BY <2>1
    <3>2. DOMAIN t = {"do", "at", "n", "of", "live"}  BY DEF UpdateInv, UpdateShapes
    <3> QED  BY <3>1, <3>2
  <2>4. UpdateShapes'  BY <2>1, <2>2, <2>3 DEF UpdateInv, UpdateShapes
  <2>5. \A t \in tasks' : t.do = "install" => ~app'.portable  BY <2>1, <2>3 DEF UpdateInv
  <2>6. ASSUME NEW t \in tasks', NEW u \in tasks', Writing(t), Writing(u)  PROVE overlap' \/ t = u
    <3>1. PICK a \in tasks : t = [a EXCEPT !.live = FALSE] /\ t.at = a.at  BY <2>3
    <3>2. PICK b \in tasks : u = [b EXCEPT !.live = FALSE] /\ u.at = b.at  BY <2>3
    <3>3. Writing(a) /\ Writing(b)  BY <2>6, <3>1, <3>2 DEF Writing
    <3>4. overlap \/ a = b  BY <3>3, Zenon DEF UpdateInv
    <3> QED  BY <2>1, <3>1, <3>2, <3>4
  <2>7. (\A t, u \in tasks : Writing(t) /\ Writing(u) => overlap \/ t = u)'
    BY <2>6, Zenon DEF Writing
  <2>8. ASSUME NEW t \in tasks', t.at = "check", t.of.has # "wrong"
        PROVE  overlap' \/ target' \in {"none", "published"}
    BY <2>1, <2>3, <2>8 DEF UpdateInv
  <2>9. LaunchedIsPublished'  BY <2>1, Zenon DEF UpdateInv, LaunchedIsPublished
  <2> QED  BY <2>2, <2>4, <2>5, <2>7, <2>8, <2>9 DEF UpdateInv
<1> QED  BY <1>2, <1>3, <1>4

LEMMA TaskEnds ==
    ASSUME UpdateInv, NEW t \in tasks, CheckEnds(t) \/ Resolves(t) \/ TaskFails(t)
    PROVE  UpdateInv'
<1>1. /\ DOMAIN t = {"do", "at", "n", "of", "live"} /\ t.do \in {"check", "install"}
      /\ t.at # "ask" => t.do = "install"
      /\ DOMAIN card = {"state", "checking", "busy", "error"}
      /\ t.do = "install" => ~app.portable
  BY DEF UpdateInv, UpdateShapes
<1>2. ASSUME tasks' = tasks \ {t}, UNCHANGED <<app, overlap>>, target' \in {target, "none"},
             DOMAIN card' = {"state", "checking", "busy", "error"},
             card'.state = "installable" => ~app.portable
      PROVE  UpdateInv'
  BY <1>2, TasksKept
<1>3. CASE CheckEnds(t)
  <2>1. tasks' = tasks \ {t} /\ UNCHANGED <<app, target, overlap>>
    BY <1>3 DEF CheckEnds, Leaves
  <2>2. PICK st :
           /\ st = CASE ~IsNewer(release.version, app.version)             -> "current"
                     [] /\ IsNewer(release.version, app.version)
                        /\ app.portable \/ release.has = "noInstaller"     -> "byHand"
                     [] OTHER                                              -> "installable"
           /\ card' = IF t.live THEN [card EXCEPT !.checking = FALSE, !.state = st] ELSE card
    BY <1>3, Zenon DEF CheckEnds, Shows
  <2>3. st = "installable" => ~app.portable  BY <2>2
  <2>4. CASE card' = [card EXCEPT !.checking = FALSE, !.state = st]
    <3>1. card'.state = st /\ DOMAIN card' = DOMAIN card  BY <1>1, <2>4
    <3> QED  BY <1>1, <1>2, <2>1, <2>3, <3>1
  <2>5. CASE card' = card  BY <1>1, <1>2, <2>1, <2>5 DEF UpdateInv
  <2> QED  BY <2>2, <2>4, <2>5
<1>4. CASE Resolves(t)
  <2>1. CASE release.has \in {"noInstaller", "noSums", "noEntry"}
    <3>1. /\ tasks' = tasks \ {t} /\ UNCHANGED <<app, target, overlap>>
          /\ card' = IF t.live THEN [card EXCEPT !.busy = FALSE, !.error = TRUE] ELSE card
      BY <1>4, <2>1, Zenon DEF Resolves, Refuses, Leaves, Shows
    <3>2. DOMAIN card' = DOMAIN card /\ card'.state = card.state  BY <1>1, <3>1
    <3> QED  BY <1>1, <1>2, <3>1, <3>2 DEF UpdateInv
  <2>2. CASE release.has \notin {"noInstaller", "noSums", "noEntry"}
    <3>1. PICK u : u = [t EXCEPT !.at = "get", !.of = release]  OBVIOUS
    <3>2. /\ tasks' = (tasks \ {t}) \cup {u} /\ target' = "none" /\ UNCHANGED <<app, card, overlap>>
          /\ t.do = "install"
      BY <1>4, <2>2, <3>1, Zenon DEF Resolves, Moves
    <3>3. DOMAIN u = DOMAIN t /\ u.do = "install" /\ u.at = "get" /\ ~Writing(u)
      BY <1>1, <3>1, <3>2 DEF Writing
    <3>4. Harmless(u)  BY <1>1, <3>2, <3>3 DEF Harmless
    <3>5. \A x \in tasks' : x \in tasks \/ Harmless(x)  BY <3>2, <3>4
    <3>6. /\ DOMAIN card' = {"state", "checking", "busy", "error"}
          /\ card'.state = "installable" => ~app.portable
      BY <1>1, <3>2 DEF UpdateInv
    <3> QED  BY <3>2, <3>5, <3>6, TasksKept
  <2> QED  BY <2>1, <2>2
<1>5. CASE TaskFails(t)
  <2>1. PICK err, st :
           /\ st = IF t.do = "check" THEN "error" ELSE card.state
           /\ card' = IF t.live THEN [card EXCEPT !.checking = FALSE, !.busy = FALSE, !.error = err,
                                                  !.state = st] ELSE card
           /\ tasks' = tasks \ {t} /\ UNCHANGED <<app, target, overlap>>
    BY <1>5, Zenon DEF TaskFails, Leaves, Shows
  <2>2. CASE card' = [card EXCEPT !.checking = FALSE, !.busy = FALSE, !.error = err, !.state = st]
    <3>1. DOMAIN card' = DOMAIN card /\ card'.state = st  BY <1>1, <2>2
    <3> QED  BY <1>1, <1>2, <2>1, <3>1
  <2>3. CASE card' = card  BY <1>1, <1>2, <2>1, <2>3 DEF UpdateInv
  <2> QED  BY <2>1, <2>2, <2>3
<1> QED  BY <1>3, <1>4, <1>5

LEMMA TaskWrites ==
    ASSUME UpdateInv, NEW t \in tasks, Begins(t) \/ Wrote(t)
    PROVE  UpdateInv'
<1> USE DEF UpdateInv
<1>1. PICK to \in {"write", "check"} :
         /\ to = IF t.at = "get" THEN "write" ELSE "check"
         /\ tasks' = (tasks \ {t}) \cup {[t EXCEPT !.at = to]} /\ UNCHANGED <<app, card>>
         /\ t.at \in {"get", "write"}
  BY Zenon DEF Begins, Wrote, Moves
<1>2. PICK u : u = [t EXCEPT !.at = to]  OBVIOUS
<1>3. DOMAIN t = {"do", "at", "n", "of", "live"} /\ t.do = "install" /\ ~app.portable
  <2>1. DOMAIN t = {"do", "at", "n", "of", "live"} /\ t.do = "install"  BY <1>1 DEF UpdateShapes
  <2> QED  BY <2>1, Zenon
<1>4. DOMAIN u = DOMAIN t /\ u.do = t.do /\ u.at = to /\ u.of = t.of  BY <1>2, <1>3
<1>5. \A x \in tasks' : x = u \/ (x \in tasks /\ x # t)  BY <1>1, <1>2
<1>6. UpdateShapes'  BY <1>1, <1>3, <1>4, <1>5 DEF UpdateShapes
<1>7. \A x \in tasks' : x.do = "install" => ~app'.portable  BY <1>1, <1>3
<1>8. LaunchedIsPublished'
  <2>1. app' = app /\ (overlap => overlap')
    <3>1. CASE Begins(t)
      <4>1. overlap' = (overlap \/ \E x \in tasks \ {t} : x.at \in {"write", "check"})
        BY <3>1 DEF Begins
      <4> QED  BY <1>1, <4>1, Zenon
    <3>2. CASE Wrote(t)  BY <1>1, <3>2, Zenon DEF Wrote
    <3> QED  BY <3>1, <3>2
  <2> QED  BY <2>1, Zenon DEF LaunchedIsPublished
<1>9. \/ overlap'
      \/ /\ \A x \in tasks' : Writing(x) => x = u
         /\ u.at = "check" /\ u.of.has # "wrong" => target' = "published"
  <2>1. CASE Begins(t)
    <3>1. overlap' = (overlap \/ \E x \in tasks \ {t} : x.at \in {"write", "check"})
      BY <2>1 DEF Begins
    <3>2. (\E x \in tasks \ {t} : Writing(x)) => overlap'  BY <3>1, Zenon DEF Writing
    <3>3. u.at = "write"  BY <1>1, <1>4, <2>1 DEF Begins
    <3> QED  BY <1>5, <3>2, <3>3
  <2>2. CASE Wrote(t)
    <3>1. t.at = "write" /\ overlap' = overlap /\ target' = IF t.of.has = "wrong" THEN "other" ELSE "published"
      BY <2>2, Zenon DEF Wrote
    <3>2. \A x \in tasks : Writing(x) => overlap \/ x = t
      <4>1. Writing(t)  BY <3>1 DEF Writing
      <4> QED  BY <4>1, Zenon
    <3> QED  BY <1>4, <1>5, <3>1, <3>2
  <2> QED  BY <2>1, <2>2
<1>10. (\A x, y \in tasks : Writing(x) /\ Writing(y) => overlap \/ x = y)'
  <2>1. \A x, y \in tasks' : Writing(x) /\ Writing(y) => overlap' \/ x = y  BY <1>9, Zenon
  <2> QED  BY <2>1, Zenon DEF Writing
<1>11. ASSUME NEW x \in tasks', x.at = "check", x.of.has # "wrong"
       PROVE  overlap' \/ target' \in {"none", "published"}
  <2>1. Writing(x)  BY <1>11 DEF Writing
  <2> QED  BY <1>9, <1>11, <2>1
<1> QED  BY <1>1, <1>6, <1>7, <1>8, <1>10, <1>11

LEMMA TaskLaunches ==
    ASSUME UpdateInv, NEW t \in tasks, Launches(t)
    PROVE  UpdateInv'
<1>1. t.at = "check" /\ UNCHANGED overlap  BY DEF Launches
<1>2. CASE t.of.has = "wrong" \/ target = "none"
  <2>1. /\ tasks' = tasks \ {t} /\ target' = "none" /\ UNCHANGED app
        /\ card' = IF t.live THEN [card EXCEPT !.busy = FALSE, !.error = TRUE] ELSE card
    BY <1>2, Zenon DEF Launches, Refuses, Leaves, Shows
  <2>2. DOMAIN card' = {"state", "checking", "busy", "error"} /\ card'.state = card.state
    BY <2>1 DEF UpdateInv, UpdateShapes
  <2> QED  BY <1>1, <2>1, <2>2, TasksKept DEF UpdateInv
<1>3. CASE ~(t.of.has = "wrong" \/ target = "none")
  <2>1. /\ app' = [app EXCEPT !.ran = <<target>>] /\ tasks' = {} /\ card' = NoCard /\ UNCHANGED target
    BY <1>3, Zenon DEF Launches
  <2>2. DOMAIN app = {"version", "portable", "ran"}  BY DEF UpdateInv, UpdateShapes
  <2>3. DOMAIN app' = DOMAIN app /\ app'.portable = app.portable /\ app'.ran = <<target>>
    BY <2>1, <2>2
  <2>4. DOMAIN card' = {"state", "checking", "busy", "error"} /\ card'.state = "none"
    BY <2>1 DEF NoCard
  <2>5. UpdateShapes'  BY <2>1, <2>2, <2>3, <2>4 DEF UpdateInv, UpdateShapes
  <2>6. overlap \/ target = "published"  BY <1>1, <1>3, Zenon DEF UpdateInv
  <2>7. ~app.portable
    <3>1. t.do = "install"  BY <1>1 DEF UpdateInv, UpdateShapes
    <3> QED  BY <3>1, Zenon DEF UpdateInv
  <2>8. LaunchedIsPublished'  BY <1>1, <2>3, <2>6, <2>7, Zenon DEF LaunchedIsPublished
  <2>9. (\A x, y \in tasks : Writing(x) /\ Writing(y) => overlap \/ x = y)'  BY <2>1, Zenon
  <2> QED  BY <2>1, <2>4, <2>5, <2>8, <2>9 DEF UpdateInv
<1> QED  BY <1>2, <1>3

LEMMA UpdateStep ==
    ASSUME NEW rs, ConsoleNext(rs)
    PROVE  UNCHANGED updateVars \/ UpdateNext(rs)
<1>1. (\E s \in Sections : Navigated(s)) \/ (\E s \in {"settings", "hosting"} : Navigated(s))
         => UNCHANGED updateVars
  BY DEF Navigated
<1> QED  BY <1>1, Zenon DEF ConsoleNext, PanelPart, SetupPart, SettingsPart, FrontPart, UpdatePart

LEMMA UpdateStill ==
    ASSUME UpdateInv, UNCHANGED <<app, card, tasks, target, overlap>>
    PROVE  UpdateInv'
  BY Zenon DEF UpdateInv, UpdateShapes, LaunchedIsPublished, Writing

LEMMA UpdateKept ==
    ASSUME UpdateInv, [MCNext]_consoleVars
    PROVE  UpdateInv'
<1>1. CASE UNCHANGED <<app, card, tasks, target, overlap>>  BY <1>1, UpdateStill
<1>2. CASE UpdateNext(SomeReleases)
  <2>1. CASE Check \/ Install \/ Remounted  BY <2>1, UpdateClicks
  <2>2. ASSUME NEW t \in tasks,
               CheckEnds(t) \/ Resolves(t) \/ Begins(t) \/ Wrote(t) \/ Launches(t) \/ TaskFails(t)
        PROVE  UpdateInv'
    BY <2>2, TaskEnds, TaskWrites, TaskLaunches
  <2>3. (\E r \in SomeReleases : Publishes(r)) => UNCHANGED <<app, card, tasks, target, overlap>>
    BY DEF Publishes
  <2> QED  BY <1>1, <1>2, <2>1, <2>2, <2>3, Zenon DEF UpdateNext
<1>3. UNCHANGED consoleVars => UNCHANGED updateVars  BY DEF consoleVars
<1>4. UNCHANGED updateVars => UNCHANGED <<app, card, tasks, target, overlap>>  BY DEF updateVars
<1> QED  BY <1>1, <1>2, <1>3, <1>4, UpdateStep DEF MCNext

LEMMA UpdateStarts ==
    ASSUME MCInit
    PROVE  UpdateInv
<1>1. /\ tasks = {} /\ card = NoCard /\ DOMAIN app = {"version", "portable", "ran"} /\ app.ran = <<>>
  <2>1. NoUpdates => /\ tasks = {} /\ card = NoCard
                     /\ DOMAIN app = {"version", "portable", "ran"} /\ app.ran = <<>>
    BY DEF NoUpdates, UpdateInit
  <2>2. ASSUME UpdateScenario
        PROVE  /\ tasks = {} /\ card = NoCard
               /\ DOMAIN app = {"version", "portable", "ran"} /\ app.ran = <<>>
    <3>1. PICK v \in {Version1, Version2, Candidate}, portable \in BOOLEAN, r \in SomeReleases :
             UpdateInit(v, portable, r, Budget(5, 1, 1))
      BY <2>2, Zenon DEF UpdateScenario
    <3> QED  BY <3>1 DEF UpdateInit
  <2>3. PanelScenario \/ InviteScenario \/ SetupScenario \/ BannerScenario \/ SettingsScenario
           \/ FrontScenario => NoUpdates
    <3>1. \A p \in {"panel", "invite", "setup", "settings", "front"} : Still(p) => NoUpdates
      BY DEF Still
    <3> QED  BY <3>1, Zenon DEF PanelScenario, InviteScenario, SetupScenario, BannerScenario,
                               SettingsScenario, FrontScenario
  <2> QED  BY <2>1, <2>2, <2>3 DEF MCInit
<1>2. card.state = "none" /\ DOMAIN card = {"state", "checking", "busy", "error"}  BY <1>1 DEF NoCard
<1>3. LaunchedIsPublished  BY <1>1 DEF LaunchedIsPublished
<1> QED  BY <1>1, <1>2, <1>3 DEF UpdateInv, UpdateShapes

---------------------------------------------------------------------------
(* What is in front of the server. *)

ConnFields == {"at", "want", "got", "own", "addr", "since", "peer", "when", "secret"}

\* The identity p was that of address a when it was seen: it still is, or was
\* lost later.
Known(a, p) ==
    /\ p.seen \in Nat /\ p.seen <= now
    /\ \/ p.who \in {Funnel, node.who[a]}
       \/ \E l \in node.lost : l.addr = a /\ l.who = p.who /\ p.seen <= l.at

\* A connection, by how far it has come.
ConnOk(x) ==
    /\ DOMAIN x = ConnFields
    /\ x.since \in Nat /\ x.since <= now /\ x.when \in Nat
    /\ x.at # "idle" => x.addr \in Addresses
    /\ x.at \in {"forward", "upstream"} =>
          Known(x.addr, x.peer) /\ x.when <= x.peer.seen + PeerTtl
    /\ x.at = "upstream" => x.secret = "edge"
    /\ x.got # NoCert /\ certs.by = "control-plane" => x.got.name = x.want
    /\ x.got # NoCert /\ certs.by = "control-plane" /\ x.at = "open" /\ ~x.own =>
          x.when + RenewBefore < x.got.until

\* An identity is kept no longer than its time to live after it was seen.
PeersInv ==
    /\ DOMAIN peers = Addresses
    /\ \A a \in Addresses : /\ peers[a].until \in Nat
                            /\ Known(a, peers[a])
                            /\ peers[a].until <= peers[a].seen + PeerTtl

NodeInv ==
    /\ DOMAIN node = {"name", "who", "lost"} /\ DOMAIN node.who = Addresses
    /\ \A l \in node.lost : l.at \in Nat

FrontInv ==
    /\ now \in Nat
    /\ DOMAIN certs = {"by", "at", "cur", "renews"}
    /\ NodeInv
    /\ PeersInv
    /\ DOMAIN conns = Conns /\ \A c \in Conns : ConnOk(conns[c])

\* Whoever loses an address is remembered.
Remembers ==
    /\ now' \in Nat /\ now <= now'
    /\ node.lost \subseteq node'.lost
    /\ \A a \in Addresses : node'.who[a] = node.who[a] \/ Lost(a) \in node'.lost

LEMMA NoConnIsOk ==
    ASSUME now \in Nat
    PROVE  ConnOk(NoConn)
<1>1. /\ DOMAIN NoConn = ConnFields
      /\ NoConn.since = 0 /\ NoConn.when = 0 /\ NoConn.at = "idle" /\ NoConn.got = NoCert
  BY DEF NoConn, ConnFields
<1> QED  BY <1>1 DEF ConnOk

LEMMA KnownLater ==
    ASSUME now \in Nat, NEW a \in Addresses, NEW p, Known(a, p), Remembers
    PROVE  Known(a, p)'
<1>1. p.seen \in Nat /\ p.seen <= now'  BY DEF Known, Remembers
<1>2. CASE p.who = Funnel  BY <1>1, <1>2 DEF Known
<1>3. CASE p.who = node.who[a]
  <2>1. CASE node'.who[a] = node.who[a]  BY <1>1, <1>3, <2>1 DEF Known
  <2>2. CASE Lost(a) \in node'.lost
    <3>1. PICK l \in node'.lost : l.addr = a /\ l.who = p.who /\ l.at = now
      BY <1>3, <2>2 DEF Lost
    <3>2. p.seen <= l.at  BY <3>1 DEF Known
    <3> QED  BY <1>1, <3>1, <3>2, Zenon DEF Known
  <2> QED  BY <2>1, <2>2 DEF Remembers
<1>4. CASE \E l \in node.lost : l.addr = a /\ l.who = p.who /\ p.seen <= l.at
  <2>1. \E l \in node'.lost : l.addr = a /\ l.who = p.who /\ p.seen <= l.at
    BY <1>4, Zenon DEF Remembers
  <2> QED  BY <1>1, <2>1, Zenon DEF Known
<1> QED  BY <1>2, <1>3, <1>4 DEF Known

LEMMA ConnLater ==
    ASSUME now \in Nat, NEW x, ConnOk(x), Remembers, certs'.by = certs.by
    PROVE  ConnOk(x)'
<1>1. x.at \in {"forward", "upstream"} => Known(x.addr, x.peer)'
  <2> SUFFICES ASSUME x.at \in {"forward", "upstream"}  PROVE Known(x.addr, x.peer)'
    OBVIOUS
  <2>1. PICK a \in Addresses : a = x.addr  BY DEF ConnOk
  <2>2. PICK p : p = x.peer  OBVIOUS
  <2>3. Known(a, p)  BY <2>1, <2>2, Zenon DEF ConnOk
  <2>4. Known(a, p)'  BY <2>3, KnownLater
  <2> QED  BY <2>1, <2>2, <2>4, Zenon DEF Known
<1>2. x.since <= now'  BY DEF ConnOk, Remembers
<1> QED  BY <1>1, <1>2, Zenon DEF ConnOk

\* What is not changed is as good as before.
LEMMA PeersLater ==
    ASSUME now \in Nat, PeersInv, Remembers, UNCHANGED peers
    PROVE  PeersInv'
<1>1. ASSUME NEW a \in Addresses  PROVE Known(a, peers[a])'
  <2>1. PICK p : p = peers[a] /\ Known(a, p)  BY Zenon DEF PeersInv
  <2>2. Known(a, p)'  BY <2>1, KnownLater
  <2> QED  BY <2>1, <2>2, Zenon DEF Known
<1> QED  BY <1>1, Zenon DEF PeersInv

\* Each connection is as it was, or as good.
LEMMA ConnsLater ==
    ASSUME FrontInv, Remembers, certs'.by = certs.by, DOMAIN conns' = Conns,
           \A d \in Conns : ConnOk(conns'[d])
    PROVE  \A d \in Conns : ConnOk(conns[d])'
<1> SUFFICES ASSUME NEW d \in Conns  PROVE ConnOk(conns[d])'
  OBVIOUS
<1>1. PICK y : y = conns'[d] /\ ConnOk(y)  BY Zenon
<1>2. ConnOk(y)'  BY <1>1, ConnLater DEF FrontInv
<1> QED  BY <1>1, <1>2, Zenon DEF ConnOk, Known

\* One connection changes, and nothing else that it is about.
LEMMA ConnMoves ==
    ASSUME FrontInv, NEW c \in Conns, NEW x, ConnOk(x), conns' = [conns EXCEPT ![c] = x],
           UNCHANGED <<now, node, certs, peers>>
    PROVE  FrontInv'
<1>1. DOMAIN conns' = Conns /\ \A d \in Conns : conns'[d] = x \/ conns'[d] = conns[d]
  BY DEF FrontInv
<1>2. Remembers  BY DEF Remembers, FrontInv
<1>3. \A d \in Conns : ConnOk(conns'[d])  BY <1>1, Zenon DEF FrontInv
<1>4. \A d \in Conns : ConnOk(conns[d])'  BY <1>1, <1>2, <1>3, ConnsLater
<1>5. PeersInv'  BY <1>2, PeersLater DEF FrontInv
<1> QED  BY <1>1, <1>4, <1>5 DEF FrontInv, NodeInv

\* The certificates change, or the time, or the node, and no connection.
LEMMA ConnsStand ==
    ASSUME FrontInv, Remembers, NodeInv', DOMAIN certs' = {"by", "at", "cur", "renews"},
           certs'.by = certs.by, UNCHANGED <<peers, conns>>
    PROVE  FrontInv'
<1>1. \A d \in Conns : ConnOk(conns'[d])  BY Zenon DEF FrontInv
<1>2. \A d \in Conns : ConnOk(conns[d])'  BY <1>1, ConnsLater DEF FrontInv
<1>3. PeersInv'  BY PeersLater DEF FrontInv
<1> QED  BY <1>2, <1>3 DEF FrontInv, Remembers

LEMMA CertsKeep ==
    ASSUME FrontInv, TlsConfig \/ Obtained \/ ObtainFails \/ Renewed \/ CloseFront \/ Tick
    PROVE  FrontInv'
<1>1. DOMAIN certs = {"by", "at", "cur", "renews"} /\ now \in Nat /\ NodeInv  BY DEF FrontInv
<1>2. UNCHANGED <<node, peers, conns>> /\ now' \in {now, now + 1}
  BY Zenon DEF TlsConfig, Obtained, ObtainFails, Renewed, CloseFront, Tick
<1>3. Remembers /\ NodeInv'  BY <1>1, <1>2 DEF Remembers, NodeInv
<1>4. DOMAIN certs' = DOMAIN certs /\ certs'.by = certs.by
  <2>1. CASE TlsConfig
    <3>1. PICK st, r : certs' = [certs EXCEPT !.at = st, !.renews = r]  BY <2>1, Zenon DEF TlsConfig
    <3> QED  BY <1>1, <3>1
  <2>2. CASE Obtained \/ Renewed
    <3>1. PICK cert : \/ certs' = [certs EXCEPT !.at = "serving", !.cur = cert]
                      \/ certs' = [certs EXCEPT !.cur = cert]
      BY <2>2, Zenon DEF Obtained, Renewed
    <3> QED  BY <1>1, <3>1
  <2>3. CASE ObtainFails \/ CloseFront
    <3>1. certs' = [certs EXCEPT !.at = "closed", !.renews = FALSE]
      BY <2>3, Zenon DEF ObtainFails, CloseFront
    <3> QED  BY <1>1, <3>1
  <2>4. CASE Tick  BY <2>4 DEF Tick
  <2> QED  BY <2>1, <2>2, <2>3, <2>4
<1> QED  BY <1>1, <1>2, <1>3, <1>4, ConnsStand

\* The node is called otherwise, or two peers change addresses.
LEMMA NodeKeeps ==
    ASSUME FrontInv, Renamed \/ Readdressed
    PROVE  FrontInv'
<1>1. DOMAIN certs = {"by", "at", "cur", "renews"} /\ now \in Nat /\ NodeInv  BY DEF FrontInv
<1>2. UNCHANGED <<now, certs, peers, conns>>  BY Zenon DEF Renamed, Readdressed
<1>3. Remembers /\ NodeInv'
  <2>1. CASE Renamed
    <3>1. PICK n : node' = [node EXCEPT !.name = n]  BY <2>1, Zenon DEF Renamed
    <3>2. DOMAIN node' = DOMAIN node /\ node'.who = node.who /\ node'.lost = node.lost
      BY <1>1, <3>1 DEF NodeInv
    <3> QED  BY <1>1, <1>2, <3>2 DEF Remembers, NodeInv
  <2>2. CASE Readdressed
    <3>1. PICK a \in Addresses, b \in Addresses :
             /\ a # b
             /\ node' = [node EXCEPT !.who[a] = node.who[b], !.who[b] = node.who[a],
                                     !.lost = @ \cup {Lost(a), Lost(b)}]
      BY <2>2, Zenon DEF Readdressed
    <3>2. PICK la, lb : la = Lost(a) /\ lb = Lost(b)  OBVIOUS
    <3>3. la.at = now /\ lb.at = now  BY <3>2 DEF Lost
    <3>4. node' = [node EXCEPT !.who[a] = node.who[b], !.who[b] = node.who[a],
                               !.lost = @ \cup {la, lb}]
      BY <3>1, <3>2
    <3>5. /\ DOMAIN node' = DOMAIN node /\ DOMAIN node'.who = Addresses
          /\ node'.lost = node.lost \cup {la, lb}
          /\ \A d \in Addresses : d # a /\ d # b => node'.who[d] = node.who[d]
      BY <1>1, <3>1, <3>4 DEF NodeInv
    <3>6. Remembers
      <4>1. \A d \in Addresses : node'.who[d] = node.who[d] \/ Lost(d) \in node'.lost
        BY <3>2, <3>5
      <4> QED  BY <1>1, <1>2, <3>5, <4>1 DEF Remembers
    <3>7. NodeInv'  BY <1>1, <3>3, <3>5 DEF NodeInv
    <3> QED  BY <3>6, <3>7
  <2> QED  BY <2>1, <2>2
<1> QED  BY <1>1, <1>2, <1>3, ConnsStand

LEMMA HandshakeKeeps ==
    ASSUME FrontInv, NEW c \in Conns, Handshake(c) \/ PlainOpens(c)
    PROVE  FrontInv'
<1>1. now \in Nat /\ DOMAIN conns = Conns  BY DEF FrontInv
<1>2. CASE Handshake(c)
  <2>1. PICK name \in {node.name, None}, a \in Addresses :
          \E want : LET asked == [NoConn EXCEPT !.at = "asking", !.want = want, !.addr = a]
                    IN conns' = IF certs.by = "dns01" \/ (Fresh(certs.cur) /\ Matches(certs.cur, want))
                                THEN [conns EXCEPT ![c] = [asked EXCEPT !.at = "open", !.got = certs.cur,
                                                                        !.when = now]]
                                ELSE [conns EXCEPT ![c] = asked]
    BY <1>2, Zenon DEF Handshake
  <2>2. PICK want : LET asked == [NoConn EXCEPT !.at = "asking", !.want = want, !.addr = a]
                    IN conns' = IF certs.by = "dns01" \/ (Fresh(certs.cur) /\ Matches(certs.cur, want))
                                THEN [conns EXCEPT ![c] = [asked EXCEPT !.at = "open", !.got = certs.cur,
                                                                        !.when = now]]
                                ELSE [conns EXCEPT ![c] = asked]
    BY <2>1
  <2>3. PICK asked : asked = [NoConn EXCEPT !.at = "asking", !.want = want, !.addr = a]  OBVIOUS
  <2>4. /\ DOMAIN asked = ConnFields
        /\ asked.since = 0 /\ asked.when = 0 /\ asked.at = "asking" /\ asked.got = NoCert
        /\ asked.want = want /\ asked.addr = a
    BY <2>3 DEF NoConn, ConnFields
  <2>5. UNCHANGED <<now, node, certs, peers>>  BY <1>2 DEF Handshake
  <2>6. CASE certs.by = "dns01" \/ (Fresh(certs.cur) /\ Matches(certs.cur, want))
    <3>1. PICK x : x = [asked EXCEPT !.at = "open", !.got = certs.cur, !.when = now]  OBVIOUS
    <3>2. conns' = [conns EXCEPT ![c] = x]  BY <2>2, <2>3, <2>6, <3>1
    <3>3. /\ DOMAIN x = DOMAIN asked /\ x.since = 0 /\ x.when = now /\ x.at = "open"
          /\ x.got = certs.cur /\ x.want = want /\ x.addr = a
      BY <2>4, <3>1
    <3>4. certs.by = "control-plane" => certs.cur.name = want /\ now + RenewBefore < certs.cur.until
      BY <2>6 DEF Fresh, Matches
    <3>5. ConnOk(x)  BY <1>1, <2>4, <3>3, <3>4 DEF ConnOk
    <3> QED  BY <2>5, <3>2, <3>5, ConnMoves
  <2>7. CASE ~(certs.by = "dns01" \/ (Fresh(certs.cur) /\ Matches(certs.cur, want)))
    <3>1. conns' = [conns EXCEPT ![c] = asked]  BY <2>2, <2>3, <2>7
    <3>2. ConnOk(asked)  BY <1>1, <2>4 DEF ConnOk
    <3> QED  BY <2>5, <3>1, <3>2, ConnMoves
  <2> QED  BY <2>6, <2>7
<1>3. CASE PlainOpens(c)
  <2>1. PICK a \in Addresses : conns' = [conns EXCEPT ![c] = [NoConn EXCEPT !.at = "open", !.addr = a]]
    BY <1>3 DEF PlainOpens
  <2>2. PICK x : x = [NoConn EXCEPT !.at = "open", !.addr = a]  OBVIOUS
  <2>3. /\ DOMAIN x = ConnFields
        /\ x.since = 0 /\ x.when = 0 /\ x.at = "open" /\ x.got = NoCert /\ x.addr = a
    BY <2>2 DEF NoConn, ConnFields
  <2>4. ConnOk(x)  BY <1>1, <2>3 DEF ConnOk
  <2>5. UNCHANGED <<now, node, certs, peers>>  BY <1>3 DEF PlainOpens
  <2> QED  BY <2>1, <2>2, <2>4, <2>5, ConnMoves
<1> QED  BY <1>2, <1>3

LEMMA CertPairKeeps ==
    ASSUME FrontInv, NEW c \in Conns, CertPair(c)
    PROVE  FrontInv'
<1>1. now \in Nat /\ DOMAIN conns = Conns /\ DOMAIN certs = {"by", "at", "cur", "renews"} /\ NodeInv
  BY DEF FrontInv
<1>2. CASE conns' = [conns EXCEPT ![c] = NoConn] /\ UNCHANGED certs
  <2>1. UNCHANGED <<now, node, certs, peers>>  BY <1>2 DEF CertPair
  <2> QED  BY <1>1, <1>2, <2>1, ConnMoves, NoConnIsOk
<1>3. ASSUME NEW life \in {0, RenewBefore, Life},
             certs' = [certs EXCEPT !.cur = [name |-> conns[c].want, until |-> now + life]],
             conns' = Serves(c, [name |-> conns[c].want, until |-> now + life])
      PROVE  FrontInv'
  <2>1. PICK old : old = conns[c] /\ ConnOk(old)  BY Zenon DEF FrontInv
  <2>2. PICK cert : cert = [name |-> old.want, until |-> now + life]  OBVIOUS
  <2>3. PICK x : x = [old EXCEPT !.at = "open", !.got = cert, !.own = TRUE, !.when = now]  OBVIOUS
  <2>4. /\ certs' = [certs EXCEPT !.cur = cert] /\ UNCHANGED <<now, node, peers>>
        /\ conns' = [conns EXCEPT ![c] = x] /\ old.at = "asking"
    BY <1>1, <1>3, <2>1, <2>2, <2>3 DEF Serves, CertPair
  <2>5. /\ DOMAIN x = ConnFields /\ x.since = old.since /\ x.when = now /\ x.at = "open"
        /\ x.got = cert /\ x.own = TRUE /\ x.want = old.want /\ x.addr = old.addr
    BY <2>1, <2>3 DEF ConnOk, ConnFields
  <2>6. cert.name = old.want  BY <2>2
  <2>7. ConnOk(x)  BY <1>1, <2>1, <2>4, <2>5, <2>6 DEF ConnOk
  <2>8. DOMAIN certs' = {"by", "at", "cur", "renews"} /\ certs'.by = certs.by  BY <1>1, <2>4
  <2>9. Remembers /\ NodeInv'  BY <1>1, <2>4 DEF Remembers, NodeInv
  <2>10. DOMAIN conns' = Conns /\ \A d \in Conns : conns'[d] = x \/ conns'[d] = conns[d]
    BY <1>1, <2>4
  <2>11. \A d \in Conns : ConnOk(conns'[d])  BY <2>7, <2>10, Zenon DEF FrontInv
  <2>12. \A d \in Conns : ConnOk(conns[d])'  BY <2>8, <2>9, <2>10, <2>11, ConnsLater
  <2>13. PeersInv'  BY <1>1, <2>4, <2>9, PeersLater DEF FrontInv
  <2> QED  BY <2>8, <2>9, <2>10, <2>12, <2>13 DEF FrontInv, Remembers
<1>4. \/ conns' = [conns EXCEPT ![c] = NoConn] /\ UNCHANGED certs
      \/ \E life \in {0, RenewBefore, Life} :
            /\ certs' = [certs EXCEPT !.cur = [name |-> conns[c].want, until |-> now + life]]
            /\ conns' = Serves(c, [name |-> conns[c].want, until |-> now + life])
  BY Zenon DEF CertPair
<1> QED  BY <1>2, <1>3, <1>4

LEMMA RequestKeeps ==
    ASSUME FrontInv, NEW c \in Conns, Request(c) \/ Forward(c) \/ Upstream(c)
    PROVE  FrontInv'
<1>1. now \in Nat  BY DEF FrontInv
<1>2. PICK old : old = conns[c] /\ ConnOk(old)  BY Zenon DEF FrontInv
<1>3. UNCHANGED <<now, node, certs, peers>>  BY Zenon DEF Request, Forward, Upstream
<1>4. CASE Request(c)
  <2>1. PICK hit : hit = Cached(c)  OBVIOUS
  <2>2. PICK at : at = IF hit = NoPeer THEN "whois" ELSE "forward"  OBVIOUS
  <2>3. PICK x : x = [old EXCEPT !.at = at, !.peer = hit, !.since = now, !.when = now]  OBVIOUS
  <2>4. conns' = [conns EXCEPT ![c] = x] /\ old.at = "open"
    <3>1. DOMAIN conns = Conns  BY DEF FrontInv
    <3> QED  BY <1>2, <1>4, <2>1, <2>2, <2>3, <3>1 DEF Request
  <2>5. /\ DOMAIN x = DOMAIN old /\ x.at = at /\ x.peer = hit /\ x.since = now /\ x.when = now
        /\ x.got = old.got /\ x.want = old.want /\ x.addr = old.addr
    BY <1>2, <2>3 DEF ConnOk, ConnFields
  <2>6. old.addr \in Addresses  BY <1>2, <2>4 DEF ConnOk
  <2>7. at = "forward" => Known(old.addr, hit) /\ now <= hit.seen + PeerTtl
    <3>1. CASE now < peers[old.addr].until
      <4>1. hit = peers[old.addr]  BY <1>2, <2>1, <3>1 DEF Cached
      <4>2. Known(old.addr, hit) /\ hit.until \in Nat /\ hit.until <= hit.seen + PeerTtl
        BY <2>6, <4>1, Zenon DEF FrontInv, PeersInv
      <4>3. hit.seen \in Nat  BY <4>2 DEF Known
      <4> QED  BY <1>1, <3>1, <4>1, <4>2, <4>3, FrontAssumption
    <3>2. CASE ~(now < peers[old.addr].until)  BY <1>2, <2>1, <2>2, <3>2 DEF Cached
    <3> QED  BY <3>1, <3>2
  <2>8. at \in {"whois", "forward"}  BY <2>2
  <2>9. ConnOk(x)  BY <1>1, <1>2, <2>5, <2>6, <2>7, <2>8 DEF ConnOk
  <2> QED  BY <1>3, <2>4, <2>9, ConnMoves
<1>5. CASE Forward(c)
  <2>1. PICK x : x = [old EXCEPT !.at = "upstream", !.secret = "edge"]  OBVIOUS
  <2>2. conns' = [conns EXCEPT ![c] = x] /\ old.at = "forward"
    <3>1. DOMAIN conns = Conns  BY DEF FrontInv
    <3> QED  BY <1>2, <1>5, <2>1, <3>1 DEF Forward
  <2>3. /\ DOMAIN x = DOMAIN old /\ x.at = "upstream" /\ x.secret = "edge" /\ x.peer = old.peer
        /\ x.since = old.since /\ x.when = old.when
        /\ x.got = old.got /\ x.want = old.want /\ x.addr = old.addr
    BY <1>2, <2>1 DEF ConnOk, ConnFields
  <2>4. ConnOk(x)  BY <1>2, <2>2, <2>3 DEF ConnOk
  <2> QED  BY <1>3, <2>2, <2>4, ConnMoves
<1>6. CASE Upstream(c)  BY <1>1, <1>3, <1>6, ConnMoves, NoConnIsOk DEF Upstream
<1> QED  BY <1>4, <1>5, <1>6

LEMMA WhoIsKeeps ==
    ASSUME FrontInv, NEW c \in Conns, WhoIs(c)
    PROVE  FrontInv'
<1>1. now \in Nat /\ DOMAIN conns = Conns /\ NodeInv  BY DEF FrontInv
<1>2. PICK old : old = conns[c] /\ ConnOk(old)  BY Zenon DEF FrontInv
<1>3. PICK who \in {node.who[old.addr], Funnel} :
         LET entry == [who |-> who, until |-> conns[c].since + PeerTtl, seen |-> now]
         IN /\ peers' = [peers EXCEPT ![conns[c].addr] = entry]
            /\ conns' = [conns EXCEPT ![c] = [@ EXCEPT !.at = "forward", !.peer = entry,
                                                       !.when = now]]
  BY <1>2, Zenon DEF WhoIs
<1>4. PICK entry : entry = [who |-> who, until |-> old.since + PeerTtl, seen |-> now]  OBVIOUS
<1>5. PICK x : x = [old EXCEPT !.at = "forward", !.peer = entry, !.when = now]  OBVIOUS
<1>6. /\ peers' = [peers EXCEPT ![old.addr] = entry] /\ conns' = [conns EXCEPT ![c] = x]
      /\ old.at = "whois" /\ UNCHANGED <<now, node, certs>>
  BY <1>1, <1>2, <1>3, <1>4, <1>5 DEF WhoIs
<1>7. /\ old.addr \in Addresses /\ old.since \in Nat /\ old.since <= now
      /\ DOMAIN old = ConnFields
  BY <1>2, <1>6 DEF ConnOk
<1>8. /\ Known(old.addr, entry) /\ entry.until \in Nat /\ entry.until <= entry.seen + PeerTtl
      /\ now <= entry.seen + PeerTtl
  <2>1. entry.who = who /\ entry.seen = now /\ entry.until = old.since + PeerTtl  BY <1>4
  <2> QED  BY <1>1, <1>3, <1>7, <2>1, FrontAssumption DEF Known
<1>9. /\ DOMAIN x = ConnFields /\ x.at = "forward" /\ x.peer = entry /\ x.since = old.since
      /\ x.when = now /\ x.got = old.got /\ x.want = old.want /\ x.addr = old.addr
  BY <1>5, <1>7 DEF ConnFields
<1>10. ConnOk(x)  BY <1>1, <1>2, <1>7, <1>8, <1>9 DEF ConnOk
<1>11. DOMAIN conns' = Conns /\ \A d \in Conns : conns'[d] = x \/ conns'[d] = conns[d]
  BY <1>1, <1>6
<1>12. Remembers /\ NodeInv'  BY <1>1, <1>6 DEF Remembers, NodeInv
<1>13. \A d \in Conns : ConnOk(conns[d])'
  <2>1. \A d \in Conns : ConnOk(conns'[d])  BY <1>10, <1>11, Zenon DEF FrontInv
  <2> QED  BY <1>6, <1>11, <1>12, <2>1, ConnsLater
<1>14. PeersInv'
  <2>1. DOMAIN peers = Addresses  BY DEF FrontInv, PeersInv
  <2>2. /\ DOMAIN peers' = Addresses /\ peers'[old.addr] = entry
        /\ \A a \in Addresses : a # old.addr => peers'[a] = peers[a]
    BY <1>6, <1>7, <2>1
  <2>3. ASSUME NEW a \in Addresses
        PROVE  Known(a, peers'[a]) /\ peers'[a].until \in Nat
               /\ peers'[a].until <= peers'[a].seen + PeerTtl
    <3>1. CASE a = old.addr  BY <1>8, <2>2, <3>1, Zenon
    <3>2. CASE a # old.addr
      <4>1. peers'[a] = peers[a]  BY <2>2, <3>2
      <4> QED  BY <4>1, Zenon DEF FrontInv, PeersInv
    <3> QED  BY <3>1, <3>2
  <2>4. ASSUME NEW a \in Addresses  PROVE Known(a, peers[a])'
    <3>1. PICK p : p = peers'[a] /\ Known(a, p)  BY <2>3, Zenon
    <3>2. Known(a, p)'  BY <1>1, <1>12, <3>1, KnownLater
    <3> QED  BY <3>1, <3>2, Zenon DEF Known
  <2> QED  BY <2>2, <2>3, <2>4, Zenon DEF PeersInv
<1> QED  BY <1>1, <1>6, <1>11, <1>12, <1>13, <1>14 DEF FrontInv

LEMMA FrontStands ==
    ASSUME FrontInv, UNCHANGED <<now, node, certs, peers, conns>>
    PROVE  FrontInv'
<1>1. /\ DOMAIN certs' = {"by", "at", "cur", "renews"} /\ certs'.by = certs.by
      /\ Remembers /\ NodeInv'
  BY DEF FrontInv, NodeInv, Remembers
<1> QED  BY <1>1, ConnsStand

\* In front of the server moves what stands there, and nothing else does it.
LEMMA FrontKept ==
    ASSUME FrontInv, [MCNext]_consoleVars
    PROVE  FrontInv'
<1>1. CASE UNCHANGED frontVars  BY <1>1, FrontStands DEF frontVars
<1>2. CASE FrontNext
  <2>1. CASE \E c \in Conns : CertPair(c) \/ Request(c) \/ WhoIs(c) \/ Forward(c) \/ Upstream(c)
    BY <2>1, CertPairKeeps, RequestKeeps, WhoIsKeeps
  <2>2. CASE \E c \in Conns : Handshake(c) \/ PlainOpens(c)  BY <2>2, HandshakeKeeps
  <2>3. CASE TlsConfig \/ Obtained \/ ObtainFails \/ Renewed \/ CloseFront \/ Tick
    BY <2>3, CertsKeep
  <2>4. CASE Renamed \/ Readdressed  BY <2>4, NodeKeeps
  <2> QED  BY <1>2, <2>1, <2>2, <2>3, <2>4, Zenon DEF FrontNext
<1>3. MCNext => UNCHANGED frontVars \/ FrontNext
  <2>1. PanelPart => UNCHANGED frontVars
    BY Zenon DEF PanelPart, Navigated, remoteVars
  <2>2. SetupPart => UNCHANGED frontVars  BY Zenon DEF SetupPart, remoteVars
  <2>3. SettingsPart => UNCHANGED frontVars  BY Zenon DEF SettingsPart, Navigated
  <2>4. FrontPart => FrontNext  BY Zenon DEF FrontPart
  <2>5. UpdatePart(SomeReleases) => UNCHANGED frontVars  BY Zenon DEF UpdatePart, remoteVars
  <2> QED  BY <2>1, <2>2, <2>3, <2>4, <2>5, Zenon DEF MCNext, ConsoleNext
<1>4. UNCHANGED consoleVars => UNCHANGED frontVars  BY DEF consoleVars, remoteVars
<1> QED  BY <1>1, <1>2, <1>3, <1>4

LEMMA FrontStarts ==
    ASSUME MCInit
    PROVE  FrontInv
<1>1. PICK s : FrontInit(s)
  <2>1. \A u, f : NoRemote(u, f) => FrontInit("control-plane")  BY Zenon DEF NoRemote
  <2> QED  BY <2>1, Zenon DEF MCInit, PanelScenario, InviteScenario, SetupScenario,
                    BannerScenario, SettingsScenario, FrontScenario, UpdateScenario
<1>2. /\ now = 0 /\ DOMAIN certs = {"by", "at", "cur", "renews"} /\ certs.at = "built"
      /\ DOMAIN node = {"name", "who", "lost"} /\ DOMAIN node.who = Addresses /\ node.lost = {}
      /\ DOMAIN peers = Addresses /\ \A a \in Addresses : peers[a] = NoPeer
      /\ DOMAIN conns = Conns /\ \A c \in Conns : conns[c] = NoConn
  BY <1>1 DEF FrontInit
<1>3. PeersInv
  <2>1. NoPeer.seen = 0 /\ NoPeer.until = 0 /\ NoPeer.who = Funnel  BY DEF NoPeer
  <2>2. 0 <= 0 + PeerTtl  BY FrontAssumption
  <2>3. \A a \in Addresses : peers[a].seen = 0 /\ peers[a].until = 0 /\ peers[a].who = Funnel
    BY <1>2, <2>1
  <2>4. \A a \in Addresses : Known(a, peers[a])  BY <1>2, <2>3 DEF Known
  <2> QED  BY <1>2, <2>2, <2>3, <2>4 DEF PeersInv
<1>4. NodeInv  BY <1>2 DEF NodeInv
<1>5. \A c \in Conns : ConnOk(conns[c])  BY <1>2, NoConnIsOk, Zenon
<1> QED  BY <1>2, <1>3, <1>4, <1>5 DEF FrontInv

LEMMA FrontIsGood ==
    ASSUME FrontInv
    PROVE  FrontHolds
<1>1. \A c \in Conns : ConnOk(conns[c])  BY DEF FrontInv
<1>2. ServedCertificateFits  BY <1>1 DEF ServedCertificateFits, ConnOk
<1>3. PeerIsRecent
  <2> SUFFICES ASSUME NEW c \in Conns, conns[c].at \in {"forward", "upstream"},
                      conns[c].peer.who \notin {Funnel, node.who[conns[c].addr]}
               PROVE  \E l \in node.lost : /\ l.addr = conns[c].addr /\ l.who = conns[c].peer.who
                                           /\ conns[c].when <= l.at + PeerTtl
    BY <1>1, Zenon DEF PeerIsRecent, ConnOk
  <2>1. PICK l \in node.lost :
           l.addr = conns[c].addr /\ l.who = conns[c].peer.who /\ conns[c].peer.seen <= l.at
    BY <1>1, Zenon DEF ConnOk, Known
  <2>2. /\ conns[c].when \in Nat /\ conns[c].peer.seen \in Nat
        /\ conns[c].when <= conns[c].peer.seen + PeerTtl
    BY <1>1 DEF ConnOk, Known
  <2>3. l.at \in Nat  BY DEF FrontInv, NodeInv
  <2>4. conns[c].when <= l.at + PeerTtl  BY <2>1, <2>2, <2>3, FrontAssumption
  <2> QED  BY <2>1, <2>4
<1> QED  BY <1>2, <1>3 DEF FrontHolds, FrontInv

---------------------------------------------------------------------------
(* The settings. *)

FormFields == {"on", "draft", "has", "tested", "error", "wrong", "testing", "saving", "loaded", "fresh", "green"}
CallFields == {"do", "at", "cfg", "live"}

\* The form shows what is stored.
ShowsRow == form.draft = NoSecrets(row) /\ form.has = [key |-> row.key # None, token |-> row.token # None]

\* A call will load what is stored before the screen that asks is told.
WillShow(c) == c.live /\ c.at \in {"put", "get", "got"}

\* What is stored and sent on is the same but for a secret; a form that was
\* loaded shows it, or will.
SettingsInv ==
    /\ DOMAIN form = FormFields /\ \A c \in calls : DOMAIN c = CallFields
    /\ form.loaded \/ form.fresh => form.on
    /\ \A c \in calls : c.live => form.on
    /\ form.fresh => form.draft = NoSecrets(form.draft)
    /\ ~raced =>
          /\ \A c \in calls : c.at = "put" => NoSecrets(c.cfg) = NoSecrets(row)
          /\ edge = NoSecrets(row) \/ \E c \in calls : c.at = "put"
          /\ form.fresh => ShowsRow \/ \E c \in calls : WillShow(c)

LEMMA SecretsOut ==
    ASSUME NEW c
    PROVE  NoSecrets(NoSecrets(c)) = NoSecrets(c) /\ NoSecrets(Effective(c)) = NoSecrets(c)
  BY DEF NoSecrets, Effective

LEMMA SettingsStand ==
    ASSUME SettingsInv, UNCHANGED setVars
    PROVE  SettingsInv'
<1>1. UNCHANGED <<row, edge, form, calls, raced>>  BY DEF setVars
<1> QED  BY <1>1, Zenon DEF SettingsInv, ShowsRow, WillShow

\* What the form shows of a configuration stays.
FormKeeps ==
    /\ DOMAIN form' = FormFields /\ form'.on = form.on /\ form'.draft = form.draft
    /\ form'.has = form.has /\ (form'.fresh <=> form.fresh)
    /\ form'.loaded => form.loaded \/ form.on

\* A call that has stored nothing.
Early(c) == DOMAIN c = CallFields /\ c.at # "put" /\ (c.live => form.on)

\* A call begins or ends, or goes from one stage to the next, before it stores.
LEMMA CallMoves ==
    ASSUME SettingsInv, FormKeeps, UNCHANGED <<row, edge>>, raced => raced',
           \A c \in calls : c.at \in {"put", "get", "got"} => c \in calls',
           \A c \in calls' : c \in calls \/ Early(c)
    PROVE  SettingsInv'
<1>1. \A c \in calls' : DOMAIN c = CallFields /\ (c.live => form.on)  BY DEF SettingsInv, Early
<1>2. \A c \in calls : c.at \in {"put", "get", "got"} => c \in calls'  OBVIOUS
<1>3. \A c \in calls' : c.at = "put" => c \in calls  BY DEF Early
<1>4. (form.loaded \/ form.fresh => form.on)'  BY DEF FormKeeps, SettingsInv
<1>5. (\A c \in calls : c.live => form.on)'  BY <1>1, Zenon DEF FormKeeps
<1>6. (form.fresh => form.draft = NoSecrets(form.draft))'  BY Zenon DEF FormKeeps, SettingsInv
<1>7. (ShowsRow)' <=> ShowsRow  BY Zenon DEF ShowsRow, FormKeeps
<1>8. ASSUME ~raced'
      PROVE  /\ \A c \in calls' : c.at = "put" => NoSecrets(c.cfg) = NoSecrets(row')
             /\ edge' = NoSecrets(row') \/ \E c \in calls' : c.at = "put"
             /\ form'.fresh => (ShowsRow)' \/ \E c \in calls' : WillShow(c)
  <2>1. /\ \A c \in calls : c.at = "put" => NoSecrets(c.cfg) = NoSecrets(row)
        /\ edge = NoSecrets(row) \/ \E c \in calls : c.at = "put"
        /\ form.fresh => ShowsRow \/ \E c \in calls : WillShow(c)
    BY <1>8, Zenon DEF SettingsInv
  <2>2. \A c \in calls' : c.at = "put" => NoSecrets(c.cfg) = NoSecrets(row')  BY <1>3, <2>1, Zenon
  <2>3. edge' = NoSecrets(row') \/ \E c \in calls' : c.at = "put"
    <3>1. (\E c \in calls : c.at = "put") => \E c \in calls' : c.at = "put"  BY <1>2
    <3> QED  BY <2>1, <3>1, Zenon
  <2>4. (\E c \in calls : WillShow(c)) => \E c \in calls' : WillShow(c)  BY <1>2 DEF WillShow
  <2>5. form'.fresh => (ShowsRow)' \/ \E c \in calls' : WillShow(c)
    BY <1>7, <2>1, <2>4, Zenon DEF FormKeeps
  <2> QED  BY <2>2, <2>3, <2>5
<1> QED  BY <1>1, <1>4, <1>5, <1>6, <1>8, Zenon DEF SettingsInv, FormKeeps, WillShow

LEMMA SettingsClicks ==
    ASSUME SettingsInv, Patch \/ RunTest("test") \/ RunTest("save") \/ Restore
    PROVE  SettingsInv'
<1>1. DOMAIN form = FormFields /\ form.loaded /\ form.on
  BY DEF SettingsInv, Patch, RunTest, Restore
<1>2. CASE Patch
  <2>1. PICK d : form' = [form EXCEPT !.draft = d, !.tested = "no", !.error = FALSE, !.wrong = FALSE,
                                      !.fresh = FALSE]
    BY <1>2 DEF Patch
  <2>2. DOMAIN form' = FormFields /\ form'.on = form.on /\ ~form'.fresh
    BY <1>1, <2>1 DEF FormFields
  <2>3. UNCHANGED <<row, edge, calls, raced>>  BY <1>2 DEF Patch
  <2> QED  BY <1>1, <2>2, <2>3, Zenon DEF SettingsInv
<1>3. CASE RunTest("test") \/ RunTest("save")
  <2>1. PICK do : RunTest(do)  BY <1>3
  <2>2. PICK p : p = Payload(form.draft)  OBVIOUS
  <2>3. PICK c : c = Call(do, "test", p)  OBVIOUS
  <2>4. DOMAIN c = CallFields /\ c.at = "test"  BY <2>3 DEF Call, CallFields
  <2>5. UNCHANGED <<row, edge, raced>>  BY <2>1 DEF RunTest
  <2>6. \/ /\ form' = [form EXCEPT !.testing = TRUE, !.error = FALSE, !.wrong = FALSE]
           /\ calls' = calls \cup {c}
        \/ form' = [form EXCEPT !.wrong = TRUE] /\ calls' = calls
    BY <2>1, <2>2, <2>3, Zenon DEF RunTest
  <2>7. FormKeeps  BY <1>1, <2>6 DEF FormKeeps, FormFields
  <2>8. \A x \in calls' : x \in calls \/ Early(x)  BY <1>1, <2>4, <2>6 DEF Early
  <2> QED  BY <2>5, <2>6, <2>7, <2>8, CallMoves
<1>4. CASE Restore
  <2>1. PICK c : c = Call("restore", "post", Defaults)  OBVIOUS
  <2>2. DOMAIN c = CallFields /\ c.at = "post"  BY <2>1 DEF Call, CallFields
  <2>3. UNCHANGED <<row, edge, raced>> /\ form' = [form EXCEPT !.saving = TRUE]  BY <1>4 DEF Restore
  <2>4. calls' = calls \cup {c}  BY <1>4, <2>1 DEF Restore
  <2>5. FormKeeps  BY <1>1, <2>3 DEF FormKeeps, FormFields
  <2>6. \A x \in calls' : x \in calls \/ Early(x)  BY <1>1, <2>2, <2>4 DEF Early
  <2> QED  BY <2>3, <2>4, <2>5, <2>6, CallMoves
<1> QED  BY <1>2, <1>3, <1>4

LEMMA CallsTested ==
    ASSUME SettingsInv, NEW c \in calls, Tested(c) \/ Applies(c)
    PROVE  SettingsInv'
<1>1. DOMAIN form = FormFields /\ DOMAIN c = CallFields /\ (c.live => form.on)  BY DEF SettingsInv
<1>2. c.at \in {"test", "apply"} /\ UNCHANGED <<row, edge, raced>>  BY DEF Tested, Applies
<1>3. FormKeeps
  <2>1. CASE Tested(c)
    <3>1. PICK ok : Seen(c, [form EXCEPT !.testing = FALSE, !.error = ok = "error",
                               !.saving = @ \/ (c.do = "save" /\ ok = "ok"),
                               !.tested = IF ok = "error" THEN @ ELSE ok,
                               !.green = IF ok = "ok" THEN c.cfg ELSE @,
                               !.wrong = IF ok = "not" THEN TRUE ELSE @])
      BY <2>1, Zenon DEF Tested
    <3>2. PICK e : e = (ok = "error")  OBVIOUS
    <3>3. PICK s : s = (form.saving \/ (c.do = "save" /\ ok = "ok"))  OBVIOUS
    <3>4. PICK t : t = IF ok = "error" THEN form.tested ELSE ok  OBVIOUS
    <3>5. PICK w : w = IF ok = "not" THEN TRUE ELSE form.wrong  OBVIOUS
    <3>6. PICK g : g = IF ok = "ok" THEN c.cfg ELSE form.green  OBVIOUS
    <3>7. form' = form \/ form' = [form EXCEPT !.testing = FALSE, !.error = e, !.saving = s,
                                               !.tested = t, !.green = g, !.wrong = w]
      BY <3>1, <3>2, <3>3, <3>4, <3>5, <3>6, Zenon DEF Seen
    <3> QED  BY <1>1, <3>7 DEF FormKeeps, FormFields
  <2>2. CASE Applies(c)
    <3>1. form' = form \/ form' = [form EXCEPT !.saving = FALSE, !.error = TRUE]
      BY <2>2, Zenon DEF Applies, GivesUp, Seen
    <3> QED  BY <1>1, <3>1 DEF FormKeeps, FormFields
  <2> QED  BY <2>1, <2>2
<1>4. \/ calls' = calls \ {c}
      \/ \E at \in {"apply", "post"} : calls' = (calls \ {c}) \cup {[c EXCEPT !.at = at]}
  BY Zenon DEF Tested, Applies, Goes, Ends, GivesUp
<1>5. \A at \in {"apply", "post"} : Early([c EXCEPT !.at = at])  BY <1>1 DEF CallFields, Early
<1>6. \A x \in calls' : x \in calls \/ Early(x)  BY <1>4, <1>5
<1>7. \A x \in calls : x.at \in {"put", "get", "got"} => x \in calls'  BY <1>2, <1>4
<1> QED  BY <1>2, <1>3, <1>6, <1>7, CallMoves

\* What is kept of a form and of the calls, whatever is stored.
ShapesKeep ==
    /\ DOMAIN form' = FormFields /\ \A c \in calls' : DOMAIN c = CallFields
    /\ form'.loaded \/ form'.fresh => form'.on
    /\ \A c \in calls' : c.live => form'.on
    /\ form'.fresh => form'.draft = NoSecrets(form'.draft)

LEMMA CallStores ==
    ASSUME SettingsInv, NEW c \in calls, Posted(c)
    PROVE  SettingsInv'
<1>1. DOMAIN form = FormFields /\ DOMAIN c = CallFields /\ (c.live => form.on)  BY DEF SettingsInv
<1>2. CASE Runnable(Effective(c.cfg))
  <2>1. PICK n : n = [c EXCEPT !.at = "put"]  OBVIOUS
  <2>2. /\ row' = Effective(c.cfg) /\ calls' = (calls \ {c}) \cup {n} /\ UNCHANGED <<form, edge>>
        /\ raced' = (raced \/ (form.on /\ ~c.live) \/ \E x \in calls : x.at = "put")
    BY <1>2, <2>1, Zenon DEF Posted, Goes
  <2>3. DOMAIN n = CallFields /\ n.at = "put" /\ n.cfg = c.cfg /\ n.live = c.live
    BY <1>1, <2>1 DEF CallFields
  <2>4. n \in calls'  BY <2>2
  <2>5. ShapesKeep
    <3>1. \A x \in calls' : x \in calls \/ x = n  BY <2>2
    <3>2. \A x \in calls' : DOMAIN x = CallFields /\ (x.live => form.on)
      BY <1>1, <2>3, <3>1, Zenon DEF SettingsInv
    <3> QED  BY <1>1, <2>2, <3>2, Zenon DEF ShapesKeep, SettingsInv
  <2>6. ASSUME ~raced'
        PROVE  /\ \A x \in calls' : x.at = "put" => NoSecrets(x.cfg) = NoSecrets(row')
               /\ form'.fresh => \E x \in calls' : WillShow(x)
    <3>1. ~raced /\ (form.on => c.live) /\ \A x \in calls : x.at # "put"  BY <2>2, <2>6, Zenon
    <3>2. \A x \in calls' : x.at = "put" => x = n  BY <2>2, <3>1
    <3>3. NoSecrets(n.cfg) = NoSecrets(row')  BY <2>2, <2>3, SecretsOut
    <3>4. form'.fresh => n.live /\ n.at = "put"  BY <2>2, <2>3, <3>1, Zenon DEF SettingsInv
    <3> QED  BY <2>4, <3>2, <3>3, <3>4 DEF WillShow
  <2> QED  BY <2>3, <2>4, <2>5, <2>6, Zenon DEF SettingsInv, ShapesKeep, WillShow
<1>3. CASE ~Runnable(Effective(c.cfg))
  <2>1. /\ c.at = "post" /\ calls' = calls \ {c} /\ UNCHANGED <<row, edge, raced>>
        /\ form' = form \/ form' = [form EXCEPT !.saving = FALSE, !.error = TRUE]
    BY <1>3, Zenon DEF Posted, GivesUp, Ends, Seen
  <2>2. FormKeeps  BY <1>1, <2>1 DEF FormKeeps, FormFields
  <2>3. \A x \in calls' : x \in calls  BY <2>1
  <2>4. \A x \in calls : x.at \in {"put", "get", "got"} => x \in calls'  BY <2>1
  <2> QED  BY <2>1, <2>2, <2>3, <2>4, CallMoves
<1> QED  BY <1>2, <1>3

\* A call that stored goes on.
LEMMA CallGoesOn ==
    ASSUME SettingsInv, FormKeeps, NEW c \in calls, NEW n, calls' = (calls \ {c}) \cup {n},
           DOMAIN n = CallFields, n.live <=> c.live, n.at \in {"get", "got"}, UNCHANGED <<row, raced>>,
           IF c.at = "put" THEN edge' = NoSecrets(c.cfg) ELSE edge' = edge
    PROVE  SettingsInv'
<1>1. ShapesKeep
  <2>1. \A x \in calls' : x \in calls \/ x = n  OBVIOUS
  <2>2. \A x \in calls' : DOMAIN x = CallFields /\ (x.live => form.on)
    BY <2>1, Zenon DEF SettingsInv
  <2> QED  BY <2>2, Zenon DEF ShapesKeep, SettingsInv, FormKeeps
<1>2. ASSUME ~raced'
      PROVE  /\ \A x \in calls' : x.at = "put" => NoSecrets(x.cfg) = NoSecrets(row')
             /\ edge' = NoSecrets(row') \/ \E x \in calls' : x.at = "put"
             /\ form'.fresh => (ShowsRow)' \/ \E x \in calls' : WillShow(x)
  <2>1. /\ \A x \in calls : x.at = "put" => NoSecrets(x.cfg) = NoSecrets(row)
        /\ edge = NoSecrets(row) \/ \E x \in calls : x.at = "put"
        /\ form.fresh => ShowsRow \/ \E x \in calls : WillShow(x)
    BY <1>2, Zenon DEF SettingsInv
  <2>2. \A x \in calls' : x.at = "put" => x \in calls  OBVIOUS
  <2>3. edge' = NoSecrets(row') \/ \E x \in calls' : x.at = "put"
    <3>1. CASE c.at = "put"  BY <2>1, <3>1
    <3>2. CASE c.at # "put"
      <4>1. (\E x \in calls : x.at = "put") => \E x \in calls' : x.at = "put"  BY <3>2
      <4> QED  BY <2>1, <3>2, <4>1
    <3> QED  BY <3>1, <3>2
  <2>4. (\E x \in calls : WillShow(x)) => \E x \in calls' : WillShow(x)
    <3>1. ASSUME NEW x \in calls, WillShow(x)  PROVE \E y \in calls' : WillShow(y)
      <4>1. CASE x = c
        <5>1. WillShow(n)  BY <3>1, <4>1, Zenon DEF WillShow
        <5> QED  BY <5>1
      <4>2. CASE x # c  BY <3>1, <4>2
      <4> QED  BY <4>1, <4>2
    <3> QED  BY <3>1
  <2>5. (ShowsRow)' <=> ShowsRow  BY Zenon DEF ShowsRow, FormKeeps
  <2>6. form'.fresh <=> form.fresh  BY DEF FormKeeps
  <2>7. \A x \in calls' : x.at = "put" => NoSecrets(x.cfg) = NoSecrets(row')
    BY <2>1, <2>2, Zenon
  <2> QED  BY <2>1, <2>3, <2>4, <2>5, <2>6, <2>7, Zenon
<1> QED  BY <1>1, <1>2, Zenon DEF SettingsInv, ShapesKeep, WillShow

LEMMA CallsGoOn ==
    ASSUME SettingsInv, NEW c \in calls, PutToEdge(c) \/ Gets(c)
    PROVE  SettingsInv'
<1>1. DOMAIN form = FormFields /\ DOMAIN c = CallFields /\ (form.loaded => form.on)
  BY DEF SettingsInv
<1>2. UNCHANGED <<row, raced>>  BY DEF PutToEdge, Gets
<1>3. CASE PutToEdge(c)
  <2>1. PICK n : n = [c EXCEPT !.at = "get"]  OBVIOUS
  <2>2. DOMAIN n = CallFields /\ n.at = "get" /\ n.live = c.live  BY <1>1, <2>1 DEF CallFields
  <2>3. c.at = "put" /\ edge' = NoSecrets(c.cfg) /\ calls' = (calls \ {c}) \cup {n}
    BY <1>3, <2>1, Zenon DEF PutToEdge, Goes
  <2>4. form' = form \/ form' = [form EXCEPT !.tested = "no", !.error = FALSE, !.wrong = FALSE]
    BY <1>3, Zenon DEF PutToEdge, Seen
  <2>5. FormKeeps  BY <1>1, <2>4 DEF FormKeeps, FormFields
  <2> QED  BY <1>2, <2>2, <2>3, <2>5, CallGoesOn
<1>4. CASE Gets(c)
  <2>1. PICK n : n = [c EXCEPT !.at = "got", !.cfg = row]  OBVIOUS
  <2>2. DOMAIN n = CallFields /\ n.at = "got" /\ n.live = c.live  BY <1>1, <2>1 DEF CallFields
  <2>3. c.at = "get" /\ edge' = edge /\ calls' = (calls \ {c}) \cup {n} /\ form' = form
    BY <1>4, <2>1, Zenon DEF Gets
  <2>4. FormKeeps  BY <1>1, <2>3 DEF FormKeeps
  <2> QED  BY <1>2, <2>2, <2>3, <2>4, CallGoesOn
<1> QED  BY <1>3, <1>4

LEMMA CallLoads ==
    ASSUME SettingsInv, NEW c \in calls, Got(c)
    PROVE  SettingsInv'
<1>1. DOMAIN form = FormFields /\ DOMAIN c = CallFields /\ (c.live => form.on)  BY DEF SettingsInv
<1>2. /\ c.at = "got" /\ calls' = calls \ {c} /\ UNCHANGED <<row, edge>>
      /\ raced' = (raced \/ c.cfg # row)
  BY DEF Got, Ends
<1>3. CASE ~c.live
  <2>1. form' = form  BY <1>3, Zenon DEF Got, Seen
  <2>2. ShapesKeep
    <3>1. \A x \in calls' : x \in calls  BY <1>2
    <3> QED  BY <2>1, <3>1, Zenon DEF ShapesKeep, SettingsInv
  <2>3. ASSUME ~raced'
        PROVE  /\ \A x \in calls' : x.at = "put" => NoSecrets(x.cfg) = NoSecrets(row')
               /\ edge' = NoSecrets(row') \/ \E x \in calls' : x.at = "put"
               /\ form'.fresh => (ShowsRow)' \/ \E x \in calls' : WillShow(x)
    <3>1. /\ \A x \in calls : x.at = "put" => NoSecrets(x.cfg) = NoSecrets(row)
          /\ edge = NoSecrets(row) \/ \E x \in calls : x.at = "put"
          /\ form.fresh => ShowsRow \/ \E x \in calls : WillShow(x)
      BY <1>2, <2>3, Zenon DEF SettingsInv
    <3>2. \A x \in calls' : x \in calls  BY <1>2
    <3>3. \A x \in calls : x.at = "put" \/ WillShow(x) => x \in calls'  BY <1>2, <1>3 DEF WillShow
    <3>4. (ShowsRow)' <=> ShowsRow  BY <1>2, <2>1, Zenon DEF ShowsRow
    <3> QED  BY <1>2, <2>1, <3>1, <3>2, <3>3, <3>4, Zenon
  <2> QED  BY <2>2, <2>3, Zenon DEF SettingsInv, ShapesKeep, WillShow
<1>4. CASE c.live
  <2>1. form' = [Loaded(c) EXCEPT !.saving = @ /\ c.do = "load"]  BY <1>4, Zenon DEF Got, Seen
  <2>2. PICK has : has = [key |-> c.cfg.key # None, token |-> c.cfg.token # None]  OBVIOUS
  <2>3. PICK s : form' = [form EXCEPT !.draft = NoSecrets(c.cfg), !.has = has, !.loaded = TRUE,
                                      !.fresh = TRUE, !.saving = s]
    <3>1. form' = [[form EXCEPT !.draft = NoSecrets(c.cfg), !.has = has, !.loaded = TRUE,
                                !.fresh = TRUE] EXCEPT !.saving = @ /\ c.do = "load"]
      BY <2>1, <2>2, Zenon DEF Loaded
    <3>2. PICK f : f = [form EXCEPT !.draft = NoSecrets(c.cfg), !.has = has, !.loaded = TRUE,
                                    !.fresh = TRUE]
      OBVIOUS
    <3>3. PICK s : s = (f.saving /\ c.do = "load")  OBVIOUS
    <3>4. form' = [f EXCEPT !.saving = s]  BY <3>1, <3>2, <3>3, Zenon
    <3> QED  BY <3>2, <3>4, Zenon
  <2>4. /\ DOMAIN form' = FormFields /\ form'.on = form.on /\ form'.draft = NoSecrets(c.cfg)
        /\ form'.has = has /\ form.on
    BY <1>1, <1>4, <2>3 DEF FormFields
  <2>5. ShapesKeep
    <3>1. \A x \in calls' : x \in calls  BY <1>2
    <3>2. form'.draft = NoSecrets(form'.draft)  BY <2>4, SecretsOut
    <3> QED  BY <2>4, <3>1, <3>2, Zenon DEF ShapesKeep, SettingsInv
  <2>6. ASSUME ~raced'
        PROVE  /\ \A x \in calls' : x.at = "put" => NoSecrets(x.cfg) = NoSecrets(row')
               /\ edge' = NoSecrets(row') \/ \E x \in calls' : x.at = "put"
               /\ (ShowsRow)'
    <3>0. ~raced /\ c.cfg = row  BY <1>2, <2>6, Zenon
    <3>1. /\ \A x \in calls : x.at = "put" => NoSecrets(x.cfg) = NoSecrets(row)
          /\ edge = NoSecrets(row) \/ \E x \in calls : x.at = "put"
      BY <3>0, Zenon DEF SettingsInv
    <3>2. \A x \in calls' : x \in calls  BY <1>2
    <3>3. \A x \in calls : x.at = "put" => x \in calls'  BY <1>2
    <3>4. (ShowsRow)'  BY <1>2, <2>2, <2>4, <3>0, Zenon DEF ShowsRow
    <3> QED  BY <1>2, <3>1, <3>2, <3>3, <3>4, Zenon
  <2> QED  BY <2>5, <2>6, Zenon DEF SettingsInv, ShapesKeep, WillShow
<1> QED  BY <1>3, <1>4

LEMMA CallsFail ==
    ASSUME SettingsInv, NEW c \in calls, CallFails(c)
    PROVE  SettingsInv'
<1>1. DOMAIN form = FormFields /\ (c.live => form.on) /\ (form.loaded => form.on)
  BY DEF SettingsInv
<1>2. /\ calls' = calls \ {c} /\ UNCHANGED <<row, edge>>
      /\ raced' = (raced \/ c.at \in {"put", "get", "got"})
  BY DEF CallFails, Ends
<1>3. FormKeeps
  <2>1. Seen(c, [form EXCEPT !.testing = @ /\ c.at # "test",
                             !.saving = @ /\ (c.at = "test" \/ c.do = "load"),
                             !.error = c.at \notin {"get", "got"},
                             !.loaded = @ \/ c.at \in {"get", "got"}])
    BY DEF CallFails
  <2>2. PICK t : t = (form.testing /\ c.at # "test")  OBVIOUS
  <2>3. PICK s : s = (form.saving /\ (c.at = "test" \/ c.do = "load"))  OBVIOUS
  <2>4. PICK e : e = (c.at \notin {"get", "got"})  OBVIOUS
  <2>5. PICK l : l = (form.loaded \/ c.at \in {"get", "got"})  OBVIOUS
  <2>6. \/ form' = form
        \/ c.live /\ form' = [form EXCEPT !.testing = t, !.saving = s, !.error = e, !.loaded = l]
    BY <2>1, <2>2, <2>3, <2>4, <2>5, Zenon DEF Seen
  <2> QED  BY <1>1, <2>6 DEF FormKeeps, FormFields
<1>4. \A x \in calls' : x \in calls  BY <1>2
<1>5. CASE c.at \in {"put", "get", "got"}
  <2>1. raced'  BY <1>2, <1>5, Zenon
  <2>2. ShapesKeep
    <3>1. /\ DOMAIN form' = FormFields /\ (form'.loaded \/ form'.fresh => form'.on)
          /\ form'.fresh => form'.draft = NoSecrets(form'.draft)
      BY <1>3, Zenon DEF FormKeeps, SettingsInv
    <3>2. \A x \in calls' : DOMAIN x = CallFields /\ (x.live => form'.on)
      BY <1>3, <1>4, Zenon DEF FormKeeps, SettingsInv
    <3> QED  BY <3>1, <3>2, Zenon DEF ShapesKeep
  <2> QED  BY <2>1, <2>2, Zenon DEF SettingsInv, ShapesKeep
<1>6. CASE c.at \notin {"put", "get", "got"}
  <2>1. raced => raced'  BY <1>2, Zenon
  <2>2. \A x \in calls : x.at \in {"put", "get", "got"} => x \in calls'  BY <1>2, <1>6
  <2> QED  BY <1>2, <1>3, <1>4, <2>1, <2>2, CallMoves
<1> QED  BY <1>5, <1>6

\* The screen comes or goes; what it awaited goes on without it.
LEMMA ScreenComesOrGoes ==
    ASSUME SettingsInv, Mounted \/ Unmounted, UNCHANGED <<row, edge, raced>>
    PROVE  SettingsInv'
<1> DEFINE Left(c) == [c EXCEPT !.live = FALSE]
<1>1. \A c \in calls : DOMAIN c = CallFields  BY DEF SettingsInv
<1>2. \A c \in calls : /\ DOMAIN Left(c) = CallFields /\ ~Left(c).live
                       /\ Left(c).at = c.at /\ Left(c).cfg = c.cfg
  BY <1>1 DEF CallFields
<1> HIDE DEF Left
<1>3. PICK load : load = Call("load", "get", Defaults)  OBVIOUS
<1>4. DOMAIN load = CallFields /\ load.at = "get"  BY <1>3 DEF Call, CallFields
<1>5. /\ \A c \in calls : Left(c) \in calls'
      /\ \A x \in calls' : (\E c \in calls : x = Left(c)) \/ (x = load /\ Mounted)
  <2>1. CASE Mounted
    <3>1. calls' = {Left(c) : c \in calls} \cup {load}  BY <1>3, <2>1, Zenon DEF Mounted, Left
    <3> QED  BY <2>1, <3>1
  <2>2. CASE Unmounted
    <3>1. calls' = {Left(c) : c \in calls}  BY <2>2, Zenon DEF Unmounted, Left
    <3> QED  BY <3>1
  <2> QED  BY <2>1, <2>2
<1>6. DOMAIN form' = FormFields /\ ~form'.fresh /\ ~form'.loaded /\ (Mounted => form'.on)
  <2>1. DOMAIN NoForm = FormFields /\ ~NoForm.fresh /\ ~NoForm.loaded  BY DEF NoForm, FormFields
  <2>2. CASE Mounted
    <3>1. form' = [NoForm EXCEPT !.on = TRUE]  BY <2>2, Zenon DEF Mounted
    <3> QED  BY <2>1, <3>1 DEF FormFields
  <2>3. CASE ~Mounted
    <3>1. form' = NoForm  BY <2>3, Zenon DEF Unmounted
    <3> QED  BY <2>1, <2>3, <3>1
  <2> QED  BY <2>2, <2>3
<1>7. ShapesKeep
  <2>1. \A x \in calls' : DOMAIN x = CallFields /\ (x.live => form'.on)
    BY <1>2, <1>4, <1>5, <1>6, Zenon
  <2> QED  BY <1>6, <2>1, Zenon DEF ShapesKeep
<1>8. ASSUME ~raced'
      PROVE  /\ \A x \in calls' : x.at = "put" => NoSecrets(x.cfg) = NoSecrets(row')
             /\ edge' = NoSecrets(row') \/ \E x \in calls' : x.at = "put"
  <2>1. /\ \A c \in calls : c.at = "put" => NoSecrets(c.cfg) = NoSecrets(row)
        /\ edge = NoSecrets(row) \/ \E c \in calls : c.at = "put"
    BY <1>8, Zenon DEF SettingsInv
  <2>2. \A x \in calls' : x.at = "put" => \E c \in calls : c.at = "put" /\ x.cfg = c.cfg
    BY <1>2, <1>4, <1>5
  <2>3. (\E c \in calls : c.at = "put") => \E x \in calls' : x.at = "put"  BY <1>2, <1>5
  <2>4. \A x \in calls' : x.at = "put" => NoSecrets(x.cfg) = NoSecrets(row')
    BY <2>1, <2>2, Zenon
  <2> QED  BY <2>1, <2>3, <2>4, Zenon
<1> QED  BY <1>6, <1>7, <1>8, Zenon DEF SettingsInv, ShapesKeep, WillShow

\* Of the settings moves what the screen does, and the screen itself.
LEMMA SettingsMove ==
    ASSUME [MCNext]_consoleVars
    PROVE  \/ UNCHANGED setVars \/ SettingsNext
           \/ (Mounted \/ Unmounted) /\ UNCHANGED <<row, edge, raced>>
<1>1. \A s : Navigated(s) => \/ UNCHANGED setVars
                             \/ (Mounted \/ Unmounted) /\ UNCHANGED <<row, edge, raced>>
  BY Zenon DEF Navigated, setVars
<1>2. PanelPart => UNCHANGED setVars \/ \E s : Navigated(s)  BY Zenon DEF PanelPart, remoteVars
<1>3. SetupPart => UNCHANGED setVars  BY Zenon DEF SetupPart, remoteVars
<1>4. SettingsPart => SettingsNext \/ \E s : Navigated(s)  BY Zenon DEF SettingsPart
<1>5. FrontPart => UNCHANGED setVars  BY DEF FrontPart, setVars
<1>6. UpdatePart(SomeReleases) => UNCHANGED setVars  BY Zenon DEF UpdatePart, remoteVars
<1>7. UNCHANGED consoleVars => UNCHANGED setVars  BY DEF consoleVars, remoteVars
<1> QED  BY <1>1, <1>2, <1>3, <1>4, <1>5, <1>6, <1>7, Zenon DEF MCNext, ConsoleNext

LEMMA SettingsKept ==
    ASSUME SettingsInv, [MCNext]_consoleVars
    PROVE  SettingsInv'
<1>1. CASE UNCHANGED setVars  BY <1>1, SettingsStand
<1>2. CASE SettingsNext
  BY <1>2, SettingsClicks, CallsTested, CallStores, CallsGoOn, CallLoads, CallsFail
     DEF SettingsNext, CallStep
<1>3. CASE (Mounted \/ Unmounted) /\ UNCHANGED <<row, edge, raced>>  BY <1>3, ScreenComesOrGoes
<1> QED  BY <1>1, <1>2, <1>3, SettingsMove

LEMMA SettingsStarts ==
    ASSUME MCInit
    PROVE  SettingsInv
<1>1. PICK r : SettingsInit(r)
  <2>1. \A u, f : NoRemote(u, f) => SettingsInit(Row0)  BY Zenon DEF NoRemote
  <2> QED  BY <2>1, Zenon DEF MCInit, PanelScenario, InviteScenario, SetupScenario,
                    BannerScenario, SettingsScenario, FrontScenario, UpdateScenario
<1>2. row = r /\ edge = NoSecrets(r) /\ form = NoForm /\ calls = {}  BY <1>1 DEF SettingsInit
<1>3. DOMAIN form = FormFields /\ ~form.loaded /\ ~form.fresh
  BY <1>2 DEF NoForm, FormFields
<1> QED  BY <1>2, <1>3, Zenon DEF SettingsInv

LEMMA SettingsAreGood ==
    ASSUME SettingsInv
    PROVE  SettingsHold
<1>1. EdgeRunsWhatIsStored  BY Zenon DEF EdgeRunsWhatIsStored, SettingsInv
<1>2. ASSUME form.fresh, calls = {} /\ ~raced  PROVE ShowsRow
  BY <1>2, Zenon DEF SettingsInv
<1>3. ShowsRow => /\ form.has.key = (row.key # None)
                  /\ form.has.token = (row.token # None)
  <2>1. PICK k : k = (row.key # None)  OBVIOUS
  <2>2. PICK t : t = (row.token # None)  OBVIOUS
  <2>3. ShowsRow => form.has = [key |-> k, token |-> t]  BY <2>1, <2>2, Zenon DEF ShowsRow
  <2>4. ShowsRow => form.has.key = k /\ form.has.token = t  BY <2>3
  <2> QED  BY <2>1, <2>2, <2>4, Zenon
<1>4. FormIsTheRow  BY <1>2, <1>3, Zenon DEF FormIsTheRow, SettingsInv, ShowsRow
<1> QED  BY <1>1, <1>4 DEF SettingsHold

---------------------------------------------------------------------------
(* The first code. *)

ShownFields == {"data", "loading", "of", "asked"}

\* A list of folders, shown or on its way, names what there is to share.
GoodList(data) == data # <<>> => DOMAIN data[1] \subseteq Shares
GoodRead(rd) ==
    /\ DOMAIN rd = {"res", "n", "got"}
    /\ rd.res = "folders" /\ rd.got # <<>> => DOMAIN rd.got[2] \subseteq Shares

GoodShown(sh) ==
    "folders" \in DOMAIN sh /\ DOMAIN sh["folders"] = ShownFields /\ GoodList(sh["folders"].data)

ListsInv ==
    /\ GoodShown(shown) /\ \A rd \in reads : GoodRead(rd)
    /\ "chosen" \in DOMAIN wizard /\ wizard.chosen \subseteq Shares

InviteFields == {"place", "defaults", "from", "seeded", "requested", "busy", "minted", "dead",
                 "error", "early"}
MintFields == {"grants", "from", "first", "live", "early", "at"}

\* What is asked for gives something in all that it was seeded with.
Whole(x) == x.first /\ ~x.early => x.from \subseteq Set(x.grants)
GoodMint(m) == DOMAIN m = MintFields /\ (m.at # "list" => Whole(m))

\* A screen that was seeded gives something in every folder it was seeded with;
\* one that was not gives nothing, but where it was touched too early.
ScreenInv ==
    /\ DOMAIN invite = InviteFields /\ DOMAIN invite.defaults = Shares
    /\ invite.seeded => invite.place = "pairing" /\ invite.from \subseteq Set(invite.defaults)
    /\ ~invite.seeded /\ ~invite.early => Set(invite.defaults) = {}

InviteInv == ScreenInv /\ (\A m \in mints : GoodMint(m)) /\ FirstCodeIsWhole

LEMMA AskedKeeps ==
    ASSUME NEW sh, NEW S, GoodShown(sh)
    PROVE  GoodShown(Asked(sh, S)) /\ \A rd \in NewReads(sh, S) : GoodRead(rd)
<1>1. "folders" \in Resources  BY DEF Resources, Listed
<1>2. PICK f : f = sh["folders"]  OBVIOUS
<1>3. DOMAIN f = ShownFields /\ GoodList(f.data)  BY <1>2 DEF GoodShown
<1>4. \E n : Asked(sh, S)["folders"] \in {f, [f EXCEPT !.loading = TRUE, !.asked = n]}
  <2>1. Asked(sh, S)["folders"] =
           IF "folders" \in S
           THEN [f EXCEPT !.loading = TRUE, !.asked = IF "folders" \in Polled THEN 0 ELSE @ + 1]
           ELSE f
    BY <1>1, <1>2, Zenon DEF Asked
  <2>2. PICK n : n = IF "folders" \in Polled THEN 0 ELSE f.asked + 1  OBVIOUS
  <2>3. Asked(sh, S)["folders"] \in {f, [f EXCEPT !.loading = TRUE, !.asked = n]}
    BY <2>1, <2>2
  <2> QED  BY <2>3
<1>5. PICK g : g = Asked(sh, S)["folders"]  OBVIOUS
<1>6. DOMAIN g = ShownFields /\ g.data = f.data  BY <1>3, <1>4, <1>5 DEF ShownFields
<1>7. GoodShown(Asked(sh, S))
  <2>1. "folders" \in DOMAIN Asked(sh, S)  BY <1>1 DEF Asked
  <2> QED  BY <1>3, <1>5, <1>6, <2>1 DEF GoodShown
<1>8. \A rd \in NewReads(sh, S) : GoodRead(rd)  BY DEF NewReads, GoodRead
<1> QED  BY <1>7, <1>8

\* Lists are shown, or asked for.
LEMMA ListsMove ==
    ASSUME ListsInv, GoodShown(shown'), \A rd \in reads' : rd \in reads \/ GoodRead(rd),
           UNCHANGED wizard
    PROVE  ListsInv'
<1>1. \A rd \in reads' : GoodRead(rd)  BY Zenon DEF ListsInv
<1> QED  BY <1>1, Zenon DEF ListsInv, GoodShown, GoodList, GoodRead

LEMMA ReloadKeeps ==
    ASSUME ListsInv, NEW S, Reload(S)
    PROVE  GoodShown(shown') /\ \A rd \in reads' : rd \in reads \/ GoodRead(rd)
<1>1. PICK T : T = S \cap panel.with  OBVIOUS
<1>2. shown' = Asked(shown, T) /\ reads' = reads \cup NewReads(shown, T)  BY <1>1, Zenon DEF Reload
<1>3. GoodShown(Asked(shown, T)) /\ \A rd \in NewReads(shown, T) : GoodRead(rd)
  BY AskedKeeps DEF ListsInv
<1>4. GoodShown(shown')  BY <1>2, <1>3, Zenon
<1>5. \A rd \in reads' : rd \in reads \/ GoodRead(rd)  BY <1>2, <1>3
<1> QED  BY <1>4, <1>5

LEMMA ReadsKeep ==
    ASSUME ListsInv, NEW rd \in reads, ReadAnswered(rd) \/ Applied(rd) \/ ReadFails(rd), UNCHANGED wizard
    PROVE  ListsInv'
<1>1. GoodShown(shown) /\ GoodRead(rd)  BY DEF ListsInv
<1>2. PICK f : f = shown["folders"]  OBVIOUS
<1>3. CASE ReadAnswered(rd)
  <2>1. PICK x : x = [rd EXCEPT !.got = <<rd.res, View(rd.res)>>]  OBVIOUS
  <2>2. reads' = (reads \ {rd}) \cup {x} /\ shown' = shown  BY <1>3, <2>1, Zenon DEF ReadAnswered
  <2>3. DOMAIN View("folders") \subseteq Shares
    <3>1. View("folders") = [f1 \in {g \in Shares : IsShared(g)} |-> world.share[f1]]  BY DEF View
    <3> QED  BY <3>1
  <2>4. DOMAIN x = {"res", "n", "got"} /\ x.res = rd.res /\ x.got = <<rd.res, View(rd.res)>>
    BY <1>1, <2>1 DEF GoodRead
  <2>5. PICK v : v = View(rd.res)  OBVIOUS
  <2>6. rd.res = "folders" => DOMAIN v \subseteq Shares  BY <2>3, <2>5, Zenon
  <2>7. x.got[2] = v  BY <2>4, <2>5
  <2>8. GoodRead(x)  BY <2>4, <2>6, <2>7, Zenon DEF GoodRead
  <2>9. \A y \in reads' : y \in reads \/ GoodRead(y)  BY <2>2, <2>8
  <2>10. GoodShown(shown')  BY <1>1, <2>2, Zenon
  <2> QED  BY <2>9, <2>10, ListsMove
<1>4. CASE Applied(rd)
  <2>1. PICK g : g = [shown EXCEPT ![rd.res] = [@ EXCEPT !.data = <<rd.got[2]>>, !.loading = FALSE,
                                                         !.of = rd.n]]
    OBVIOUS
  <2>2. PICK now1 : now1 = IF DropsAnswer(rd) THEN shown ELSE g  OBVIOUS
  <2>3. PICK S : S = IF CardComes(rd) THEN {"firewall"} ELSE {}  OBVIOUS
  <2>4. /\ rd.got # <<>> /\ shown' = Asked(now1, S)
        /\ reads' = {x \in reads \ {rd} : x.res \notin S} \cup NewReads(now1, S)
    BY <1>4, <2>1, <2>2, <2>3, Zenon DEF Applied
  <2>5. g["folders"] = f \/ /\ rd.res = "folders"
                            /\ g["folders"] = [f EXCEPT !.data = <<rd.got[2]>>, !.loading = FALSE,
                                                        !.of = rd.n]
    BY <1>1, <1>2, <2>1 DEF GoodShown
  <2>50. "folders" \in DOMAIN g  BY <1>1, <2>1 DEF GoodShown
  <2>6. GoodShown(g)
    <3>1. CASE g["folders"] = f  BY <1>1, <1>2, <2>50, <3>1, Zenon DEF GoodShown
    <3>2. CASE /\ rd.res = "folders"
               /\ g["folders"] = [f EXCEPT !.data = <<rd.got[2]>>, !.loading = FALSE, !.of = rd.n]
      <4>1. PICK h : h = g["folders"]  OBVIOUS
      <4>2. DOMAIN f = ShownFields  BY <1>1, <1>2, Zenon DEF GoodShown
      <4>3. DOMAIN h = ShownFields /\ h.data = <<rd.got[2]>>  BY <3>2, <4>1, <4>2 DEF ShownFields
      <4>4. DOMAIN rd.got[2] \subseteq Shares  BY <1>1, <2>4, <3>2 DEF GoodRead
      <4>5. GoodList(h.data)  BY <4>3, <4>4 DEF GoodList
      <4> QED  BY <2>50, <4>1, <4>3, <4>5, Zenon DEF GoodShown
    <3> QED  BY <2>5, <3>1, <3>2
  <2>7. GoodShown(now1)  BY <1>1, <2>2, <2>6, Zenon
  <2>8. GoodShown(shown') /\ \A x \in NewReads(now1, S) : GoodRead(x)
    BY <2>4, <2>7, AskedKeeps, Zenon
  <2>9. \A x \in reads' : x \in reads \/ GoodRead(x)  BY <2>4, <2>8
  <2> QED  BY <2>8, <2>9, ListsMove
<1>5. CASE ReadFails(rd)
  <2>1. reads' = reads \ {rd} /\ shown' = [shown EXCEPT ![rd.res].loading = FALSE]
    BY <1>5 DEF ReadFails
  <2>2. "folders" \in DOMAIN shown' /\ shown'["folders"] \in {f, [f EXCEPT !.loading = FALSE]}
    BY <1>1, <1>2, <2>1 DEF GoodShown
  <2>3. PICK h : h = shown'["folders"]  OBVIOUS
  <2>4. DOMAIN f = ShownFields /\ GoodList(f.data)  BY <1>1, <1>2, Zenon DEF GoodShown
  <2>5. DOMAIN h = ShownFields /\ h.data = f.data  BY <2>2, <2>3, <2>4 DEF ShownFields
  <2>6. GoodShown(shown')  BY <2>2, <2>3, <2>4, <2>5, Zenon DEF GoodShown
  <2>7. \A x \in reads' : x \in reads  BY <2>1
  <2> QED  BY <2>6, <2>7, ListsMove
<1> QED  BY <1>3, <1>4, <1>5

LEMMA PushedKeeps ==
    ASSUME ListsInv, Pushed, UNCHANGED wizard
    PROVE  ListsInv'
<1>1. GoodShown(shown)  BY DEF ListsInv
<1>2. CASE Head(pushes).type = "status"
  <2>1. /\ shown' = [shown EXCEPT !["status"] = [@ EXCEPT !.data = <<Head(pushes).is>>]]
        /\ reads' = reads
    BY <1>2, Zenon DEF Pushed
  <2>2. "folders" \in DOMAIN shown' /\ shown'["folders"] = shown["folders"]
    BY <1>1, <2>1 DEF GoodShown
  <2>3. GoodShown(shown')  BY <1>1, <2>2, Zenon DEF GoodShown
  <2> QED  BY <2>1, <2>3, ListsMove
<1>3. CASE Head(pushes).type # "status"
  <2>1. Reload(Reloads(Head(pushes).type))  BY <1>3, Zenon DEF Pushed
  <2> QED  BY <2>1, ReloadKeeps, ListsMove
<1> QED  BY <1>2, <1>3

LEMMA ReturnedKeeps ==
    ASSUME ListsInv, NEW a \in acts, Returned(a), UNCHANGED wizard
    PROVE  ListsInv'
<1>1. GoodShown(shown)  BY DEF ListsInv
<1>2. CASE UNCHANGED <<shown, reads>>
  <2>1. GoodShown(shown')  BY <1>1, <1>2, Zenon
  <2> QED  BY <1>2, <2>1, ListsMove
<1>3. CASE /\ shown' = Asked(shown, {"info"})
           /\ reads' = {x \in reads : x.res # "info"} \cup NewReads(shown, {"info"})
  <2>1. GoodShown(shown') /\ \A x \in NewReads(shown, {"info"}) : GoodRead(x)
    BY <1>1, <1>3, AskedKeeps, Zenon
  <2>2. \A x \in reads' : x \in reads \/ GoodRead(x)  BY <1>3, <2>1
  <2> QED  BY <2>1, <2>2, ListsMove
<1>4. CASE /\ shown' = [shown EXCEPT !["firewall"] = [@ EXCEPT !.data = <<world.wall>>,
                                          !.asked = @ + 1, !.of = shown["firewall"].asked + 1]]
           /\ reads' = reads
  <2>1. "folders" \in DOMAIN shown' /\ shown'["folders"] = shown["folders"]
    BY <1>1, <1>4 DEF GoodShown
  <2>2. GoodShown(shown')  BY <1>1, <2>1, Zenon DEF GoodShown
  <2> QED  BY <1>4, <2>2, ListsMove
<1>5. CASE Reload(ThenReads(a))  BY <1>5, ReloadKeeps, ListsMove
<1> QED  BY <1>2, <1>3, <1>4, <1>5, Zenon DEF Returned

LEMMA NavigateKeeps ==
    ASSUME ListsInv, NEW section, Navigate(section), UNCHANGED wizard
    PROVE  ListsInv'
<1>1. GoodShown(shown)  BY DEF ListsInv
<1>2. PICK own : own = {"streams", "firewall"}  OBVIOUS
<1>3. PICK bare : bare = [r \in Resources |-> IF r \in own THEN [shown[r] EXCEPT !.data = <<>>]
                                              ELSE shown[r]]
  OBVIOUS
<1>4. PICK S : S = {r \in own \cap panel.with :
                      IF r = "streams" THEN section = "devices"
                      ELSE section = "pairing" /\ shown["info"].data \notin {<<>>, <<"off">>}}
  OBVIOUS
<1>5. shown' = Asked(bare, S) /\ reads' = {x \in reads : x.res \notin own} \cup NewReads(bare, S)
  BY <1>2, <1>3, <1>4, Zenon DEF Navigate
<1>6. "folders" \in DOMAIN bare /\ bare["folders"] = shown["folders"]
  <2>1. "folders" \in Resources /\ "folders" \notin own  BY <1>2 DEF Resources, Listed
  <2>2. bare["folders"] = shown["folders"]  BY <1>3, <2>1, Zenon
  <2> QED  BY <1>3, <2>1, <2>2
<1>7. GoodShown(bare)  BY <1>1, <1>6, Zenon DEF GoodShown
<1>8. GoodShown(shown') /\ \A x \in NewReads(bare, S) : GoodRead(x)
  BY <1>5, <1>7, AskedKeeps, Zenon
<1>9. \A x \in reads' : x \in reads \/ GoodRead(x)  BY <1>5, <1>8
<1> QED  BY <1>8, <1>9, ListsMove

LEMMA ListsStand ==
    ASSUME ListsInv, UNCHANGED <<shown, reads>>, UNCHANGED wizard
    PROVE  ListsInv'
<1>1. GoodShown(shown')  BY Zenon DEF ListsInv
<1> QED  BY <1>1, ListsMove

\* The wizard chooses a folder that there is.
LEMMA ChosenKeeps ==
    ASSUME ListsInv, WizardNext
    PROVE  ListsInv'
<1>1. "chosen" \in DOMAIN wizard /\ wizard.chosen \subseteq Shares  BY DEF ListsInv
<1>2. UNCHANGED <<shown, reads>>
  BY DEF WizardNext, StepsAside, Skips, Picks, Added, FolderDone, SignInTook, WizardEnds, AsksForIt,
         Accepts, Passes, Advances, AsksAtOnce, panelVars
<1>3. "chosen" \in DOMAIN wizard' /\ wizard'.chosen \subseteq Shares
  <2>1. CASE Added
    <3>1. PICK f \in {g \in Shares : world.share[g] = "no"} \cup {"none"} :
             wizard' = [wizard EXCEPT !.pick = "idle",
                            !.chosen = IF f = "none" \/ Step # "folder" THEN @ ELSE {f}]
      BY <2>1 DEF Added
    <3>2. PICK c : c = IF f = "none" \/ Step # "folder" THEN wizard.chosen ELSE {f}  OBVIOUS
    <3>3. wizard' = [wizard EXCEPT !.pick = "idle", !.chosen = c]  BY <3>1, <3>2, Zenon
    <3>4. c \subseteq Shares  BY <1>1, <3>2
    <3> QED  BY <1>1, <3>3, <3>4
  <2>2. CASE StepsAside \/ Skips
    <3>1. PICK way : wizard' = [wizard EXCEPT !.at = 1, !.way = way]
      BY <2>2, Zenon DEF StepsAside, Skips, Passes
    <3> QED  BY <1>1, <3>1
  <2>3. CASE Picks  BY <1>1, <2>3 DEF Picks
  <2>4. CASE FolderDone \/ SignInTook
    <3>1. wizard' = [wizard EXCEPT !.at = @ + 1]
      BY <2>4, Zenon DEF FolderDone, SignInTook, Advances
    <3> QED  BY <1>1, <3>1
  <2>5. CASE WizardEnds
    <3>1. wizard' = [wizard EXCEPT !.done = TRUE]  BY <2>5 DEF WizardEnds
    <3> QED  BY <1>1, <3>1
  <2>6. CASE AsksForIt \/ \E n \in Degrading : Accepts(n)
    <3>1. wizard' = wizard  BY <2>6 DEF AsksForIt, Accepts, setupVars
    <3> QED  BY <1>1, <3>1
  <2> QED  BY <2>1, <2>2, <2>3, <2>4, <2>5, <2>6 DEF WizardNext
<1>4. GoodShown(shown')  BY <1>2, Zenon DEF ListsInv
<1>5. \A rd \in reads' : GoodRead(rd)  BY <1>2, Zenon DEF ListsInv
<1> QED  BY <1>3, <1>4, <1>5, Zenon DEF ListsInv, GoodShown, GoodList, GoodRead

LEMMA ListsKept ==
    ASSUME ListsInv, [MCNext]_consoleVars
    PROVE  ListsInv'
<1>1. CASE UNCHANGED panelVars /\ UNCHANGED wizard  BY <1>1, ListsStand DEF panelVars
<1>2. CASE (PanelNext \/ PanelWork \/ WorldMoves) /\ UNCHANGED wizard
  <2>1. CASE Pushed  BY <1>2, <2>1, PushedKeeps
  <2>2. ASSUME NEW rd \in reads, ReadAnswered(rd) \/ Applied(rd) \/ ReadFails(rd)  PROVE ListsInv'
    BY <1>2, <2>2, ReadsKeep
  <2>3. ASSUME NEW a \in acts, Returned(a)  PROVE ListsInv'  BY <1>2, <2>3, ReturnedKeeps
  <2>4. CASE Poll
    <3>1. \E r \in Polled : Reload({r})  BY <2>4 DEF Poll
    <3> QED  BY <1>2, <3>1, ReloadKeeps, ListsMove
  <2>5. CASE WorldMoves \/ Clicked \/ \E a \in acts : ServerDoes(a) \/ ActFails(a)
    <3>1. UNCHANGED <<shown, reads>>  BY <2>5, Zenon DEF WorldMoves, Clicked, ServerDoes, ActFails
    <3> QED  BY <1>2, <3>1, ListsStand
  <2> QED  BY <1>2, <2>1, <2>2, <2>3, <2>4, <2>5, Zenon
           DEF PanelNext, PanelWork, ActWork, ReadWork
<1>3. CASE InviteNext /\ UNCHANGED wizard
  <2>1. UNCHANGED <<shown, reads>>
    <3>1. Committed \/ AsksAtOnce({}) \/ (\E m \in mints : MintGoesOn(m)) => UNCHANGED panelVars
      BY Zenon DEF Committed, AsksAtOnce, MintGoesOn
    <3>2. Regenerate \/ RunsOut \/ (\E f \in Shares, mode \in AccessModes : Choose(f, mode))
             \/ (\E m \in mints : MintFails(m)) => UNCHANGED <<shown, reads>>
      BY Zenon DEF Regenerate, RunsOut, Choose, MintFails
    <3> QED  BY <1>3, <3>1, <3>2, Zenon DEF InviteNext, InviteWork, panelVars
  <2> QED  BY <1>3, <2>1, ListsStand
<1>4. CASE \E s : Navigated(s)
  <2>1. UNCHANGED wizard  BY <1>4, Zenon DEF Navigated, setupVars
  <2> QED  BY <1>4, <2>1, NavigateKeeps DEF Navigated
<1>5. CASE CheckNext
  <2>1. UNCHANGED <<shown, reads>>
    BY <1>5, Zenon DEF CheckNext, SetupWork, panelVars, ChecksAgain, CheckFails, Remedies,
                       RemediesElsewhere
  <2>2. UNCHANGED wizard
    BY <1>5, Zenon DEF CheckNext, SetupWork, Detects, Reports, Told, JobEnds, Tells, ChecksAgain,
                       CheckFails, Remedies, RemediesElsewhere
  <2> QED  BY <2>1, <2>2, ListsStand
<1>6. MCNext => \/ UNCHANGED panelVars /\ UNCHANGED wizard
                \/ (PanelNext \/ PanelWork \/ WorldMoves) /\ UNCHANGED wizard
                \/ InviteNext /\ UNCHANGED wizard
                \/ \E s : Navigated(s)
                \/ CheckNext \/ WizardNext
  <2>1. PanelPart => \/ (PanelNext \/ PanelWork \/ WorldMoves) /\ UNCHANGED wizard
                     \/ InviteNext /\ UNCHANGED wizard
                     \/ \E s : Navigated(s)
    BY Zenon DEF PanelPart, desktopVars, setupVars
  <2>2. SetupPart => \/ (PanelNext \/ PanelWork \/ WorldMoves) /\ UNCHANGED wizard
                     \/ InviteNext /\ UNCHANGED wizard
                     \/ CheckNext \/ WizardNext
    BY Zenon DEF SetupPart, desktopVars, setupVars
  <2>3. SettingsPart => (UNCHANGED panelVars /\ UNCHANGED wizard) \/ \E s : Navigated(s)
    BY Zenon DEF SettingsPart, setupVars
  <2>4. FrontPart => UNCHANGED panelVars /\ UNCHANGED wizard
    BY Zenon DEF FrontPart, desktopVars, setupVars
  <2>5. UpdatePart(SomeReleases) => UNCHANGED panelVars /\ UNCHANGED wizard
    BY Zenon DEF UpdatePart, desktopVars, setupVars
  <2> QED  BY <2>1, <2>2, <2>3, <2>4, <2>5, Zenon DEF MCNext, ConsoleNext
<1>7. UNCHANGED consoleVars => UNCHANGED panelVars /\ UNCHANGED wizard
  BY Zenon DEF consoleVars, desktopVars, setupVars
<1> QED  BY <1>1, <1>2, <1>3, <1>4, <1>5, <1>6, <1>7, ChosenKeeps

LEMMA FoldersAreShared ==
    ASSUME ListsInv
    PROVE  Folders \subseteq Shares /\ IsFiniteSet(Folders)
<1>1. Folders \subseteq Shares
  <2>1. CASE shown["folders"].data = <<>>
    <3>1. Folders = {}  BY <2>1 DEF Folders, ShownFolders
    <3> QED  BY <3>1
  <2>2. CASE shown["folders"].data # <<>>
    <3>1. Folders = DOMAIN shown["folders"].data[1]  BY <2>2, Zenon DEF Folders, ShownFolders
    <3> QED  BY <2>2, <3>1, Zenon DEF ListsInv, GoodShown, GoodList
  <2> QED  BY <2>1, <2>2
<1> QED  BY <1>1, PanelAssumption, FS_Subset

LEMMA FullGivesAll ==
    ASSUME NEW S, S \subseteq Shares
    PROVE  DOMAIN Full(S) = Shares /\ Set(Full(S)) = S
  BY DEF Full, Set

\* A screen, its requests and the codes change.
LEMMA InviteMoves ==
    ASSUME InviteInv, ScreenInv', \A m \in mints' : m \in mints \/ GoodMint(m),
           \A c \in codes' : c \in codes \/ Whole(c)
    PROVE  InviteInv'
<1>1. \A m \in mints' : GoodMint(m)  BY Zenon DEF InviteInv
<1>2. \A c \in codes' : Whole(c)  BY Zenon DEF InviteInv, FirstCodeIsWhole, Whole
<1>3. FirstCodeIsWhole'  BY <1>2, Zenon DEF FirstCodeIsWhole, Whole, Set
<1>4. (\A m \in mints : GoodMint(m))'  BY <1>1, Zenon DEF GoodMint, Whole, Set
<1> QED  BY <1>3, <1>4, Zenon DEF InviteInv

\* What a request is made of.
LEMMA MintIsMade ==
    ASSUME NEW grants, NEW from, NEW first, MintsFor(grants, from, first),
           first /\ ~invite.early => from \subseteq Set(grants)
    PROVE  \A m \in mints' : m \in mints \/ GoodMint(m)
<1>1. PICK at : at = IF invite.place = "tray" THEN "list" ELSE "mint"  OBVIOUS
<1>2. PICK e : e = invite.early  OBVIOUS
<1>3. PICK n : n = [grants |-> grants, from |-> from, first |-> first, live |-> TRUE,
                    early |-> e, at |-> at]
  OBVIOUS
<1>4. mints' = mints \cup {n}  BY <1>1, <1>2, <1>3, Zenon DEF MintsFor
<1>5. DOMAIN n = MintFields /\ n.grants = grants /\ n.from = from /\ n.first = first /\ n.early = e
  BY <1>3 DEF MintFields
<1>6. n.first /\ ~n.early => n.from \subseteq Set(n.grants)  BY <1>2, <1>5, Zenon
<1>7. GoodMint(n)  BY <1>5, <1>6, Zenon DEF GoodMint, Whole
<1> QED  BY <1>4, <1>7

LEMMA CommittedKeeps ==
    ASSUME ListsInv, InviteInv, Committed
    PROVE  InviteInv'
<1>1. /\ DOMAIN invite = InviteFields /\ DOMAIN invite.defaults = Shares
      /\ invite.seeded => invite.place = "pairing" /\ invite.from \subseteq Set(invite.defaults)
      /\ ~invite.seeded /\ ~invite.early => Set(invite.defaults) = {}
  BY DEF InviteInv, ScreenInv
<1>2. Folders \subseteq Shares /\ IsFiniteSet(Folders)  BY FoldersAreShared
<1>3. invite.place = "pairing" /\ codes' = codes  BY DEF Committed
<1>4. PICK s : s = (invite.seeded \/ Seeds)  OBVIOUS
<1>5. PICK q : q = (invite.requested \/ AsksFirst)  OBVIOUS
<1>6. PICK b : b = (invite.busy \/ AsksFirst)  OBVIOUS
<1>7. PICK e : e = (invite.error /\ ~AsksFirst)  OBVIOUS
<1>8. PICK d : d = IF Seeds THEN Full(Folders) ELSE invite.defaults  OBVIOUS
<1>9. PICK f : f = IF Seeds THEN Folders ELSE invite.from  OBVIOUS
<1>10. invite' = [invite EXCEPT !.seeded = s, !.requested = q, !.busy = b, !.error = e,
                                !.defaults = d, !.from = f]
  BY <1>4, <1>5, <1>6, <1>7, <1>8, <1>9, Zenon DEF Committed
<1>11. /\ DOMAIN invite' = InviteFields /\ invite'.seeded = s /\ invite'.defaults = d
       /\ invite'.from = f /\ invite'.place = invite.place /\ invite'.early = invite.early
  BY <1>1, <1>10 DEF InviteFields
<1>12. ScreenInv'
  <2>1. CASE Seeds
    <3>1. d = Full(Folders) /\ f = Folders  BY <1>8, <1>9, <2>1, Zenon
    <3>2. DOMAIN d = Shares /\ Set(d) = Folders  BY <1>2, <3>1, FullGivesAll
    <3>3. s  BY <1>4, <2>1, Zenon
    <3>4. f \subseteq Set(d)  BY <3>1, <3>2
    <3> QED  BY <1>3, <1>11, <3>2, <3>3, <3>4, Zenon DEF ScreenInv, Set
  <2>2. CASE ~Seeds
    <3>1. d = invite.defaults /\ f = invite.from  BY <1>8, <1>9, <2>2, Zenon
    <3>2. s <=> invite.seeded  BY <1>4, <2>2, Zenon
    <3> QED  BY <1>1, <1>11, <3>1, <3>2, Zenon DEF ScreenInv, Set
  <2> QED  BY <2>1, <2>2
<1>13. \A m \in mints' : m \in mints \/ GoodMint(m)
  <2>1. CASE AsksFirst
    <3>1. MintsFor(invite.defaults, f, TRUE)  BY <1>11, <2>1, Zenon DEF Committed
    <3>2. ASSUME ~invite.early  PROVE f \subseteq Set(invite.defaults)
      <4>1. CASE invite.seeded
        <5>1. f = invite.from  BY <1>9, <4>1, Zenon DEF Seeds
        <5> QED  BY <1>1, <4>1, <5>1
      <4>2. CASE ~invite.seeded
        <5>1. Set(invite.defaults) = {}  BY <1>1, <3>2, <4>2
        <5>2. ~Loading /\ (Folders = {} \/ Cardinality({}) >= Cardinality(Folders))
          BY <2>1, <5>1, Zenon DEF AsksFirst, Ready
        <5>3. Cardinality({}) = 0 /\ Cardinality(Folders) \in Nat  BY <1>2, FS_EmptySet, FS_CardinalityType
        <5>4. Folders = {}
          <6>1. CASE Cardinality({}) >= Cardinality(Folders)
            <7>1. Cardinality(Folders) = 0  BY <5>3, <6>1
            <7> QED  BY <1>2, <7>1, FS_EmptySet
          <6> QED  BY <5>2, <6>1
        <5>5. f = Folders  BY <1>9, <4>2, <5>2, Zenon DEF Seeds
        <5> QED  BY <5>4, <5>5
      <4> QED  BY <4>1, <4>2
    <3> QED  BY <3>1, <3>2, MintIsMade
  <2>2. CASE ~AsksFirst
    <3>1. mints' = mints  BY <2>2, Zenon DEF Committed
    <3> QED  BY <3>1
  <2> QED  BY <2>1, <2>2
<1> QED  BY <1>3, <1>12, <1>13, InviteMoves

\* The tray and the wizard ask for all that they know of.
LEMMA AsksAtOnceKeeps ==
    ASSUME InviteInv, NEW chosen, chosen \subseteq Shares, AsksAtOnce(chosen)
    PROVE  InviteInv'
<1>1. /\ DOMAIN invite = InviteFields /\ DOMAIN invite.defaults = Shares
      /\ invite.seeded => invite.place = "pairing"
      /\ ~invite.seeded /\ ~invite.early => Set(invite.defaults) = {}
  BY DEF InviteInv, ScreenInv
<1>2. /\ invite.place \in {"tray", "wizard"} /\ codes' = codes
      /\ invite' = [invite EXCEPT !.requested = TRUE, !.from = chosen]
      /\ MintsFor(Full(chosen), chosen, TRUE)
  BY DEF AsksAtOnce
<1>3. /\ DOMAIN invite' = InviteFields /\ invite'.seeded = invite.seeded
      /\ invite'.defaults = invite.defaults /\ invite'.early = invite.early
  BY <1>1, <1>2 DEF InviteFields
<1>4. ~invite.seeded  BY <1>1, <1>2
<1>5. ScreenInv'  BY <1>1, <1>3, <1>4, Zenon DEF ScreenInv, Set
<1>6. chosen \subseteq Set(Full(chosen))  BY FullGivesAll
<1>7. \A m \in mints' : m \in mints \/ GoodMint(m)  BY <1>2, <1>6, MintIsMade
<1> QED  BY <1>2, <1>5, <1>7, InviteMoves

\* What a screen does that is not about its seeding.
LEMMA ScreenKeeps0 ==
    ASSUME ScreenInv, DOMAIN invite' = InviteFields,
           \A x \in {"place", "defaults", "from", "seeded", "early"} : invite'[x] = invite[x]
    PROVE  ScreenInv'
<1>1. /\ invite'.place = invite.place /\ invite'.defaults = invite.defaults
      /\ invite'.from = invite.from /\ invite'.seeded = invite.seeded
      /\ invite'.early = invite.early
  OBVIOUS
<1> QED  BY <1>1, Zenon DEF ScreenInv, Set

LEMMA InviteClicks ==
    ASSUME ListsInv, InviteInv,
           Regenerate \/ RunsOut \/ \E f \in Shares, mode \in AccessModes : Choose(f, mode)
    PROVE  InviteInv'
<1>1. ScreenInv /\ DOMAIN invite = InviteFields /\ DOMAIN invite.defaults = Shares
      /\ codes' = codes
  BY DEF InviteInv, ScreenInv, Regenerate, RunsOut, Choose
<1>2. CASE Regenerate
  <2>1. PICK b : b = (invite.place = "pairing")  OBVIOUS
  <2>2. invite' = [invite EXCEPT !.busy = b, !.error = FALSE]  BY <1>2, <2>1, Zenon DEF Regenerate
  <2>3. DOMAIN invite' = InviteFields
        /\ \A x \in {"place", "defaults", "from", "seeded", "early"} : invite'[x] = invite[x]
    BY <1>1, <2>2 DEF InviteFields
  <2>4. PICK g : MintsFor(g, invite.from, FALSE)  BY <1>2, Zenon DEF Regenerate
  <2>5. \A m \in mints' : m \in mints \/ GoodMint(m)  BY <2>4, MintIsMade
  <2> QED  BY <1>1, <2>3, <2>5, ScreenKeeps0, InviteMoves
<1>3. CASE RunsOut
  <2>1. invite' = [invite EXCEPT !.dead = TRUE] /\ mints' = mints  BY <1>3 DEF RunsOut
  <2>2. DOMAIN invite' = InviteFields
        /\ \A x \in {"place", "defaults", "from", "seeded", "early"} : invite'[x] = invite[x]
    BY <1>1, <2>1 DEF InviteFields
  <2> QED  BY <1>1, <2>1, <2>2, ScreenKeeps0, InviteMoves
<1>4. ASSUME NEW f \in Shares, NEW mode \in AccessModes, Choose(f, mode)  PROVE InviteInv'
  <2>1. PICK e : e = (invite.early \/ ~invite.seeded)  OBVIOUS
  <2>2. PICK d : d = [(invite.defaults) EXCEPT ![f] = mode]  OBVIOUS
  <2>3. invite' = [invite EXCEPT !.defaults = d, !.early = e] /\ mints' = mints
    <3>1. invite' = [invite EXCEPT !.defaults[f] = mode, !.early = @ \/ ~invite.seeded]
          /\ mints' = mints
      BY <1>4 DEF Choose
    <3>2. invite' = [invite EXCEPT !.defaults[f] = mode, !.early = e]  BY <2>1, <3>1, Zenon
    <3> QED  BY <2>2, <3>1, <3>2
  <2>4. /\ DOMAIN invite' = InviteFields /\ invite'.defaults = d /\ invite'.early = e
        /\ invite'.from = invite.from /\ invite'.seeded = invite.seeded
        /\ invite'.place = invite.place
    BY <1>1, <2>3 DEF InviteFields
  <2>5. DOMAIN d = Shares /\ Set(invite.defaults) \subseteq Set(d)
    <3>1. mode # "unset"  BY PanelAssumption DEF AccessModes
    <3> QED  BY <1>1, <2>2, <3>1 DEF Set
  <2>6. invite.seeded => invite.place = "pairing" /\ invite.from \subseteq Set(d)
    BY <1>1, <2>5 DEF ScreenInv
  <2>7. ~invite.seeded => e  BY <2>1, Zenon
  <2>8. ScreenInv'  BY <2>4, <2>5, <2>6, <2>7, Zenon DEF ScreenInv, Set
  <2> QED  BY <1>1, <2>3, <2>8, InviteMoves
<1> QED  BY <1>2, <1>3, <1>4

LEMMA MintsGoOn ==
    ASSUME InviteInv, NEW m \in mints, MintGoesOn(m) \/ MintFails(m)
    PROVE  InviteInv'
<1>1. ScreenInv /\ DOMAIN invite = InviteFields /\ GoodMint(m)
  BY DEF InviteInv, ScreenInv
<1>2. CASE MintGoesOn(m) /\ m.at = "list"
  <2>1. PICK n : n = [m EXCEPT !.at = "mint", !.grants = Full(There), !.from = There]  OBVIOUS
  <2>2. mints' = (mints \ {m}) \cup {n} /\ invite' = invite /\ codes' = codes
    BY <1>2, <2>1, Zenon DEF MintGoesOn
  <2>3. DOMAIN n = MintFields /\ n.grants = Full(There) /\ n.from = There
    BY <1>1, <2>1 DEF GoodMint, MintFields
  <2>4. Set(Full(There)) = There
    <3>1. There \subseteq Shares  BY DEF There
    <3> QED  BY <3>1, FullGivesAll
  <2>5. n.from \subseteq Set(n.grants)  BY <2>3, <2>4
  <2>6. GoodMint(n)  BY <2>3, <2>5, Zenon DEF GoodMint, Whole
  <2>7. \A x \in mints' : x \in mints \/ GoodMint(x)  BY <2>2, <2>6
  <2>8. ScreenInv'  BY <1>1, <2>2, Zenon DEF ScreenInv, Set
  <2> QED  BY <2>2, <2>7, <2>8, InviteMoves
<1>3. CASE MintGoesOn(m) /\ m.at = "mint"
  <2>1. PICK n : n = [m EXCEPT !.at = "draw"]  OBVIOUS
  <2>2. PICK c : c = [grants |-> m.grants, from |-> m.from, first |-> m.first, early |-> m.early]
    OBVIOUS
  <2>3. mints' = (mints \ {m}) \cup {n} /\ invite' = invite /\ codes' = codes \cup {c}
    BY <1>3, <2>1, <2>2, Zenon DEF MintGoesOn
  <2>4. Whole(m)  BY <1>1, <1>3, Zenon DEF GoodMint
  <2>5. /\ DOMAIN n = MintFields /\ n.grants = m.grants /\ n.from = m.from /\ n.first = m.first
        /\ n.early = m.early
    BY <1>1, <2>1 DEF GoodMint, MintFields
  <2>6. c.grants = m.grants /\ c.from = m.from /\ c.first = m.first /\ c.early = m.early  BY <2>2
  <2>7. Whole(n) /\ Whole(c)  BY <2>4, <2>5, <2>6, Zenon DEF Whole
  <2>8. GoodMint(n)  BY <2>5, <2>7, Zenon DEF GoodMint
  <2>9. \A x \in mints' : x \in mints \/ GoodMint(x)  BY <2>3, <2>8
  <2>10. \A x \in codes' : x \in codes \/ Whole(x)  BY <2>3, <2>7
  <2>11. ScreenInv'  BY <1>1, <2>3, Zenon DEF ScreenInv, Set
  <2> QED  BY <2>9, <2>10, <2>11, InviteMoves
<1>4. CASE MintFails(m) \/ (MintGoesOn(m) /\ m.at \notin {"list", "mint"})
  <2>1. /\ mints' = mints \ {m} /\ codes' = codes
        /\ \/ invite' = invite
           \/ invite' = [invite EXCEPT !.error = TRUE, !.busy = FALSE]
           \/ invite' = [invite EXCEPT !.minted = <<m.grants>>, !.dead = FALSE, !.busy = FALSE]
    BY <1>4, Zenon DEF MintFails, MintGoesOn
  <2>2. DOMAIN invite' = InviteFields
        /\ \A x \in {"place", "defaults", "from", "seeded", "early"} : invite'[x] = invite[x]
    BY <1>1, <2>1 DEF InviteFields
  <2>3. \A x \in mints' : x \in mints  BY <2>1
  <2> QED  BY <1>1, <2>1, <2>2, <2>3, ScreenKeeps0, InviteMoves
<1> QED  BY <1>2, <1>3, <1>4

\* Another screen comes; the requests of the one before it are made all the same.
LEMMA OpenedKeeps ==
    ASSUME InviteInv, NEW place, Opened(place), codes' = codes
    PROVE  InviteInv'
<1>1. invite' = [NoInvite EXCEPT !.place = place]  BY DEF Opened
<1>2. /\ DOMAIN invite' = InviteFields /\ invite'.defaults = NoDefaults /\ ~invite'.seeded
  BY <1>1 DEF NoInvite, InviteFields
<1>3. DOMAIN NoDefaults = Shares /\ Set(NoDefaults) = {}  BY DEF NoDefaults, Set
<1>4. ScreenInv'  BY <1>2, <1>3, Zenon DEF ScreenInv, Set
<1>5. \A m \in mints : GoodMint(m)  BY DEF InviteInv
<1>6. \A m \in mints : GoodMint([m EXCEPT !.live = FALSE])
  <2>1. ASSUME NEW m \in mints  PROVE GoodMint([m EXCEPT !.live = FALSE])
    <3>1. PICK n : n = [m EXCEPT !.live = FALSE]  OBVIOUS
    <3>2. DOMAIN m = MintFields  BY <1>5 DEF GoodMint
    <3>3. /\ DOMAIN n = MintFields /\ n.at = m.at /\ n.grants = m.grants /\ n.from = m.from
          /\ n.first = m.first /\ n.early = m.early
      BY <3>1, <3>2 DEF MintFields
    <3>4. GoodMint(n)  BY <1>5, <3>3, Zenon DEF GoodMint, Whole
    <3> QED  BY <3>1, <3>4, Zenon
  <2> QED  BY <2>1
<1>7. \A m \in mints' : \E x \in mints : m = [x EXCEPT !.live = FALSE]
  <2>1. mints' = {[m EXCEPT !.live = FALSE] : m \in mints}  BY Zenon DEF Opened
  <2> QED  BY <2>1, Zenon
<1>8. ASSUME NEW m \in mints'  PROVE GoodMint(m)
  <2>1. PICK x \in mints : m = [x EXCEPT !.live = FALSE]  BY <1>7, Zenon
  <2>2. GoodMint([x EXCEPT !.live = FALSE])  BY <1>6, Zenon
  <2> QED  BY <2>1, <2>2, Zenon
<1> QED  BY <1>4, <1>8, InviteMoves

LEMMA InviteStands ==
    ASSUME InviteInv, UNCHANGED inviteVars
    PROVE  InviteInv'
<1>1. ScreenInv'  BY Zenon DEF InviteInv, ScreenInv, Set, inviteVars
<1>2. mints' = mints /\ codes' = codes  BY DEF inviteVars
<1> QED  BY <1>1, <1>2, InviteMoves

LEMMA InviteKept ==
    ASSUME ListsInv, InviteInv, [MCNext]_consoleVars
    PROVE  InviteInv'
<1>1. CASE UNCHANGED inviteVars  BY <1>1, InviteStands
<1>2. CASE InviteNext
  <2>1. CASE AsksAtOnce({})
    <3>1. {} \subseteq Shares  OBVIOUS
    <3> QED  BY <2>1, <3>1, AsksAtOnceKeeps
  <2>2. CASE Committed  BY <2>2, CommittedKeeps
  <2>3. ASSUME NEW m \in mints, MintGoesOn(m) \/ MintFails(m)  PROVE InviteInv'
    BY <2>3, MintsGoOn
  <2>4. CASE Regenerate \/ RunsOut \/ \E f \in Shares, mode \in AccessModes : Choose(f, mode)
    BY <2>4, InviteClicks
  <2> QED  BY <1>2, <2>1, <2>2, <2>3, <2>4, Zenon DEF InviteNext, InviteWork
<1>3. CASE AsksAtOnce(wizard.chosen)
  <2>1. wizard.chosen \subseteq Shares  BY DEF ListsInv
  <2> QED  BY <1>3, <2>1, AsksAtOnceKeeps
<1>4. CASE \E place : Opened(place) /\ UNCHANGED codes  BY <1>4, OpenedKeeps
<1>5. MCNext => \/ UNCHANGED inviteVars \/ InviteNext \/ AsksAtOnce(wizard.chosen)
                \/ \E place : Opened(place) /\ UNCHANGED codes
  <2>1. (\E s : Navigated(s)) => \E place : Opened(place) /\ UNCHANGED codes
    BY Zenon DEF Navigated
  <2>2. PanelPart => UNCHANGED inviteVars \/ InviteNext \/ \E s : Navigated(s)
    BY Zenon DEF PanelPart, desktopVars
  <2>3. SetupPart => \/ UNCHANGED inviteVars \/ InviteNext \/ AsksAtOnce(wizard.chosen)
                     \/ \E place : Opened(place) /\ UNCHANGED codes
    <3>1. CheckNext => UNCHANGED inviteVars  BY Zenon DEF CheckNext
    <3>2. WizardNext => \/ UNCHANGED inviteVars \/ AsksAtOnce(wizard.chosen)
                        \/ \E place : Opened(place) /\ UNCHANGED codes
      <4>1. StepsAside \/ Skips \/ Picks \/ Added \/ WizardEnds \/ (\E n \in Degrading : Accepts(n))
               => UNCHANGED inviteVars
        BY Zenon DEF StepsAside, Skips, Picks, Added, WizardEnds, Accepts, Passes
      <4>2. FolderDone \/ SignInTook => \/ UNCHANGED inviteVars
                                        \/ \E place : Opened(place) /\ UNCHANGED codes
        BY Zenon DEF FolderDone, SignInTook, Advances, inviteVars
      <4> QED  BY <4>1, <4>2, Zenon DEF WizardNext, AsksForIt
    <3> QED  BY <3>1, <3>2, Zenon DEF SetupPart, desktopVars
  <2>4. SettingsPart => UNCHANGED inviteVars \/ \E s : Navigated(s)
    BY Zenon DEF SettingsPart
  <2>5. FrontPart => UNCHANGED inviteVars  BY Zenon DEF FrontPart, desktopVars
  <2>6. UpdatePart(SomeReleases) => UNCHANGED inviteVars  BY Zenon DEF UpdatePart, desktopVars
  <2> QED  BY <2>1, <2>2, <2>3, <2>4, <2>5, <2>6, Zenon DEF MCNext, ConsoleNext
<1>6. UNCHANGED consoleVars => UNCHANGED inviteVars  BY Zenon DEF consoleVars, desktopVars
<1> QED  BY <1>1, <1>2, <1>3, <1>4, <1>5, <1>6

LEMMA InviteStarts ==
    ASSUME MCInit
    PROVE  ListsInv /\ InviteInv
<1>1. PICK w, resources, section, budget : PanelInit(w, resources, section, budget)
  BY Zenon DEF MCInit, PanelScenario, InviteScenario, SetupScenario, BannerScenario,
               SettingsScenario, FrontScenario, UpdateScenario, NoPanel
<1>2. PICK none : none = [r \in Resources |-> [data |-> <<>>, loading |-> FALSE, of |-> 0, asked |-> 0]]
  OBVIOUS
<1>3. PICK S : S = resources \ {"firewall", IF section = "devices" THEN "" ELSE "streams"}
  OBVIOUS
<1>4. shown = Asked(none, S) /\ reads = NewReads(none, S)
  BY <1>1, <1>2, <1>3, Zenon DEF PanelInit
<1>5. GoodShown(none)
  <2>1. "folders" \in DOMAIN none /\ none["folders"] = [data |-> <<>>, loading |-> FALSE, of |-> 0, asked |-> 0]
    BY <1>2 DEF Resources, Listed
  <2>2. DOMAIN none["folders"] = ShownFields /\ none["folders"].data = <<>>
    BY <2>1 DEF ShownFields
  <2> QED  BY <2>1, <2>2 DEF GoodShown, GoodList
<1>6. GoodShown(shown) /\ \A rd \in reads : GoodRead(rd)  BY <1>4, <1>5, AskedKeeps, Zenon
<1>7. \E remote \in BOOLEAN : WizardInit(remote)
  BY Zenon DEF MCInit, PanelScenario, InviteScenario, SetupScenario, BannerScenario,
               SettingsScenario, FrontScenario, UpdateScenario, NoSetup
<1>8. "chosen" \in DOMAIN wizard /\ wizard.chosen = {}  BY <1>7 DEF WizardInit
<1>9. ListsInv  BY <1>6, <1>8 DEF ListsInv
<1>10. PICK place : InviteInit(place)
  BY Zenon DEF MCInit, PanelScenario, InviteScenario, SetupScenario, BannerScenario,
               SettingsScenario, FrontScenario, UpdateScenario, NoPanel
<1>11. invite = [NoInvite EXCEPT !.place = place] /\ mints = {} /\ codes = {}
  BY <1>10 DEF InviteInit
<1>12. DOMAIN invite = InviteFields /\ invite.defaults = NoDefaults /\ ~invite.seeded
  BY <1>11 DEF NoInvite, InviteFields
<1>13. DOMAIN NoDefaults = Shares /\ Set(NoDefaults) = {}  BY DEF NoDefaults, Set
<1>14. ScreenInv  BY <1>12, <1>13, Zenon DEF ScreenInv
<1>15. FirstCodeIsWhole  BY <1>11 DEF FirstCodeIsWhole
<1>16. \A m \in mints : GoodMint(m)  BY <1>11
<1> QED  BY <1>9, <1>14, <1>15, <1>16 DEF InviteInv

---------------------------------------------------------------------------
(* The stored secrets. *)

Keyed(c) == {"key", "token"} \subseteq DOMAIN c

\* What a call may store: what the operator saves, or nothing of a secret.
Honoured(c) ==
    /\ DOMAIN c = CallFields /\ Keyed(c.cfg)
    /\ c.at \in {"apply", "post"} => c.do = "save" \/ (c.cfg.key = None /\ c.cfg.token = None)

SecretsInv ==
    /\ Keyed(row) /\ DOMAIN form = FormFields /\ Keyed(form.draft)
    /\ \A c \in calls : Honoured(c)

LEMMA KeyedStays ==
    ASSUME NEW c, Keyed(c)
    PROVE  /\ Keyed(NoSecrets(c)) /\ Keyed(Effective(c)) /\ Keyed(Payload(c))
           /\ \A d \in Edited(c) : Keyed(d)
  BY DEF Keyed, NoSecrets, Effective, Payload, Edited, WithMode

LEMMA DefaultsKeyed == Keyed(Defaults) /\ Defaults.key = None /\ Defaults.token = None
  BY DEF Keyed, Defaults

LEMMA SecretsStep ==
    ASSUME SecretsInv, Keyed(row'), DOMAIN form' = FormFields, Keyed(form'.draft),
           \A c \in calls' : c \in calls \/ Honoured(c)
    PROVE  SecretsInv'
<1>1. \A c \in calls' : Honoured(c)  BY Zenon DEF SecretsInv
<1> QED  BY <1>1, Zenon DEF SecretsInv, Honoured, Keyed

LEMMA SecretsOfCalls ==
    ASSUME SecretsInv, NEW c \in calls, CallStep(c) \/ CallFails(c)
    PROVE  SecretsInv'
<1>1. /\ Keyed(row) /\ DOMAIN form = FormFields /\ Keyed(form.draft)
      /\ DOMAIN c = CallFields /\ Keyed(c.cfg) /\ Honoured(c)
  BY DEF SecretsInv, Honoured
<1>2. CASE Tested(c) \/ Applies(c) \/ Posted(c) \/ PutToEdge(c) \/ CallFails(c)
  <2>1. Keyed(row')
    <3>1. row' \in {row, Effective(c.cfg)}
      BY <1>2, Zenon DEF Tested, Applies, Posted, PutToEdge, CallFails
    <3> QED  BY <1>1, <3>1, KeyedStays
  <2>2. DOMAIN form' = FormFields /\ form'.draft = form.draft
    <3>1. CASE Tested(c)
      <4>1. PICK ok : Seen(c, [form EXCEPT !.testing = FALSE, !.error = ok = "error",
                               !.saving = @ \/ (c.do = "save" /\ ok = "ok"),
                               !.tested = IF ok = "error" THEN @ ELSE ok,
                               !.green = IF ok = "ok" THEN c.cfg ELSE @,
                               !.wrong = IF ok = "not" THEN TRUE ELSE @])
        BY <3>1, Zenon DEF Tested
      <4>2. PICK e : e = (ok = "error")  OBVIOUS
      <4>3. PICK s : s = (form.saving \/ (c.do = "save" /\ ok = "ok"))  OBVIOUS
      <4>4. PICK t : t = IF ok = "error" THEN form.tested ELSE ok  OBVIOUS
      <4>5. PICK w : w = IF ok = "not" THEN TRUE ELSE form.wrong  OBVIOUS
      <4>6. PICK g : g = IF ok = "ok" THEN c.cfg ELSE form.green  OBVIOUS
      <4>7. form' = form \/ form' = [form EXCEPT !.testing = FALSE, !.error = e, !.saving = s,
                                                 !.tested = t, !.green = g, !.wrong = w]
        BY <4>1, <4>2, <4>3, <4>4, <4>5, <4>6, Zenon DEF Seen
      <4> QED  BY <1>1, <4>7 DEF FormFields
    <3>2. CASE Applies(c) \/ Posted(c)
      <4>1. form' = form \/ form' = [form EXCEPT !.saving = FALSE, !.error = TRUE]
        BY <3>2, Zenon DEF Applies, Posted, GivesUp, Seen
      <4> QED  BY <1>1, <4>1 DEF FormFields
    <3>3. CASE PutToEdge(c)
      <4>1. form' = form \/ form' = [form EXCEPT !.tested = "no", !.error = FALSE, !.wrong = FALSE]
        BY <3>3, Zenon DEF PutToEdge, Seen
      <4> QED  BY <1>1, <4>1 DEF FormFields
    <3>4. CASE CallFails(c)
      <4>1. Seen(c, [form EXCEPT !.testing = @ /\ c.at # "test",
                                 !.saving = @ /\ (c.at = "test" \/ c.do = "load"),
                                 !.error = c.at \notin {"get", "got"},
                                 !.loaded = @ \/ c.at \in {"get", "got"}])
        BY <3>4 DEF CallFails
      <4>2. PICK t : t = (form.testing /\ c.at # "test")  OBVIOUS
      <4>3. PICK s : s = (form.saving /\ (c.at = "test" \/ c.do = "load"))  OBVIOUS
      <4>4. PICK e : e = (c.at \notin {"get", "got"})  OBVIOUS
      <4>5. PICK l : l = (form.loaded \/ c.at \in {"get", "got"})  OBVIOUS
      <4>6. \/ form' = form
            \/ form' = [form EXCEPT !.testing = t, !.saving = s, !.error = e, !.loaded = l]
        BY <4>1, <4>2, <4>3, <4>4, <4>5, Zenon DEF Seen
      <4> QED  BY <1>1, <4>6 DEF FormFields
    <3> QED  BY <1>2, <3>1, <3>2, <3>3, <3>4
  <2>3. \/ calls' = calls \ {c}
        \/ \E at \in {"apply", "post", "put", "get"} :
              /\ calls' = (calls \ {c}) \cup {[c EXCEPT !.at = at]}
              /\ at = "apply" => c.do = "save"
              /\ at = "post" => c.at = "apply"
    <3>1. CASE Tested(c) \/ CallFails(c)
      BY <3>1, Zenon DEF Tested, CallFails, Goes, Ends
    <3>2. CASE Applies(c) \/ Posted(c)
      <4>1. calls' = calls \ {c} \/ (calls' = (calls \ {c}) \cup {[c EXCEPT !.at = "post"]} /\ c.at = "apply")
               \/ calls' = (calls \ {c}) \cup {[c EXCEPT !.at = "put"]}
        BY <3>2, Zenon DEF Applies, Posted, GivesUp, Goes, Ends
      <4> QED  BY <4>1, Zenon
    <3>3. CASE PutToEdge(c)
      <4>1. calls' = (calls \ {c}) \cup {[c EXCEPT !.at = "get"]}
        BY <3>3, Zenon DEF PutToEdge, Goes
      <4> QED  BY <4>1, Zenon
    <3> QED  BY <1>2, <3>1, <3>2, <3>3
  <2>4. CASE calls' = calls \ {c}
    <3>1. \A x \in calls' : x \in calls  BY <2>4
    <3> QED  BY <1>1, <2>1, <2>2, <3>1, SecretsStep
  <2>5. ASSUME NEW at \in {"apply", "post", "put", "get"},
               calls' = (calls \ {c}) \cup {[c EXCEPT !.at = at]},
               at = "apply" => c.do = "save", at = "post" => c.at = "apply"
        PROVE  SecretsInv'
    <3>1. PICK n : n = [c EXCEPT !.at = at]  OBVIOUS
    <3>2. DOMAIN n = CallFields /\ n.at = at /\ n.cfg = c.cfg /\ n.do = c.do
      BY <1>1, <3>1 DEF CallFields
    <3>3. Honoured(n)  BY <1>1, <2>5, <3>2 DEF Honoured
    <3>4. \A x \in calls' : x \in calls \/ Honoured(x)  BY <2>5, <3>1, <3>3
    <3> QED  BY <1>1, <2>1, <2>2, <3>4, SecretsStep
  <2> QED  BY <2>3, <2>4, <2>5
<1>3. CASE Gets(c)
  <2>1. PICK n : n = [c EXCEPT !.at = "got", !.cfg = row]  OBVIOUS
  <2>2. DOMAIN n = CallFields /\ n.at = "got" /\ n.cfg = row  BY <1>1, <2>1 DEF CallFields
  <2>3. calls' = (calls \ {c}) \cup {n} /\ form' = form /\ row' = row
    BY <1>3, <2>1, Zenon DEF Gets
  <2>4. Honoured(n)  BY <1>1, <2>2 DEF Honoured
  <2>5. \A x \in calls' : x \in calls \/ Honoured(x)  BY <2>3, <2>4
  <2> QED  BY <1>1, <2>3, <2>5, SecretsStep
<1>4. CASE Got(c)
  <2>1. row' = row /\ calls' = calls \ {c}  BY <1>4 DEF Got, Ends
  <2>2. PICK has : has = [key |-> c.cfg.key # None, token |-> c.cfg.token # None]  OBVIOUS
  <2>3. PICK f : f = [form EXCEPT !.draft = NoSecrets(c.cfg), !.has = has, !.loaded = TRUE,
                                  !.fresh = TRUE]
    OBVIOUS
  <2>4. PICK s : s = (f.saving /\ c.do = "load")  OBVIOUS
  <2>5. form' = form \/ form' = [f EXCEPT !.saving = s]
    <3>1. form' = form \/ form' = [Loaded(c) EXCEPT !.saving = @ /\ c.do = "load"]
      BY <1>4, Zenon DEF Got, Seen
    <3>2. Loaded(c) = f  BY <2>2, <2>3, Zenon DEF Loaded
    <3> QED  BY <2>4, <3>1, <3>2, Zenon
  <2>6. DOMAIN form' = FormFields /\ form'.draft \in {form.draft, NoSecrets(c.cfg)}
    BY <1>1, <2>3, <2>5 DEF FormFields
  <2>7. Keyed(form'.draft)  BY <1>1, <2>6, KeyedStays
  <2>8. \A x \in calls' : x \in calls  BY <2>1
  <2> QED  BY <1>1, <2>1, <2>6, <2>7, <2>8, SecretsStep
<1> QED  BY <1>2, <1>3, <1>4 DEF CallStep

LEMMA SecretsOfClicks ==
    ASSUME SecretsInv, Patch \/ RunTest("test") \/ RunTest("save") \/ Restore
    PROVE  SecretsInv'
<1>1. Keyed(row) /\ DOMAIN form = FormFields /\ Keyed(form.draft)  BY DEF SecretsInv
<1>2. row' = row  BY DEF Patch, RunTest, Restore
<1>3. CASE Patch
  <2>1. PICK d \in Edited(form.draft) :
           /\ form' = [form EXCEPT !.draft = d, !.tested = "no", !.error = FALSE, !.wrong = FALSE,
                                   !.fresh = FALSE]
           /\ calls' = calls
    BY <1>3 DEF Patch
  <2>2. DOMAIN form' = FormFields /\ form'.draft = d  BY <1>1, <2>1 DEF FormFields
  <2>3. Keyed(d)  BY <1>1, KeyedStays
  <2> QED  BY <1>1, <1>2, <2>1, <2>2, <2>3, SecretsStep
<1>4. CASE RunTest("test") \/ RunTest("save")
  <2>1. PICK do : RunTest(do)  BY <1>4
  <2>2. PICK p : p = Payload(form.draft)  OBVIOUS
  <2>3. PICK c : c = Call(do, "test", p)  OBVIOUS
  <2>4. DOMAIN c = CallFields /\ c.at = "test" /\ c.cfg = p  BY <2>3 DEF Call, CallFields
  <2>5. Keyed(p)  BY <1>1, <2>2, KeyedStays
  <2>6. Honoured(c)  BY <2>4, <2>5 DEF Honoured
  <2>7. \/ /\ form' = [form EXCEPT !.testing = TRUE, !.error = FALSE, !.wrong = FALSE]
           /\ calls' = calls \cup {c}
        \/ form' = [form EXCEPT !.wrong = TRUE] /\ calls' = calls
    BY <2>1, <2>2, <2>3, Zenon DEF RunTest
  <2>8. DOMAIN form' = FormFields /\ form'.draft = form.draft  BY <1>1, <2>7 DEF FormFields
  <2>9. \A x \in calls' : x \in calls \/ Honoured(x)  BY <2>6, <2>7
  <2> QED  BY <1>1, <1>2, <2>8, <2>9, SecretsStep
<1>5. CASE Restore
  <2>1. PICK c : c = Call("restore", "post", Defaults)  OBVIOUS
  <2>2. DOMAIN c = CallFields /\ c.at = "post" /\ c.cfg = Defaults  BY <2>1 DEF Call, CallFields
  <2>3. Honoured(c)  BY <2>2, DefaultsKeyed DEF Honoured
  <2>4. form' = [form EXCEPT !.saving = TRUE] /\ calls' = calls \cup {c}  BY <1>5, <2>1 DEF Restore
  <2>5. DOMAIN form' = FormFields /\ form'.draft = form.draft  BY <1>1, <2>4 DEF FormFields
  <2>6. \A x \in calls' : x \in calls \/ Honoured(x)  BY <2>3, <2>4
  <2> QED  BY <1>1, <1>2, <2>5, <2>6, SecretsStep
<1> QED  BY <1>3, <1>4, <1>5

LEMMA SecretsOfScreens ==
    ASSUME SecretsInv, Mounted \/ Unmounted, row' = row
    PROVE  SecretsInv'
<1> DEFINE Left(c) == [c EXCEPT !.live = FALSE]
<1>1. \A c \in calls : Honoured(c)  BY DEF SecretsInv
<1>2. \A c \in calls : Honoured(Left(c))
  <2>1. ASSUME NEW c \in calls  PROVE Honoured(Left(c))
    <3>1. PICK n : n = [c EXCEPT !.live = FALSE]  OBVIOUS
    <3>2. DOMAIN c = CallFields  BY <1>1 DEF Honoured
    <3>3. DOMAIN n = CallFields /\ n.at = c.at /\ n.cfg = c.cfg /\ n.do = c.do
      BY <3>1, <3>2 DEF CallFields
    <3>4. Honoured(n)  BY <1>1, <3>3, Zenon DEF Honoured
    <3> QED  BY <3>1, <3>4, Zenon
  <2> QED  BY <2>1
<1> HIDE DEF Left
<1>3. PICK load : load = Call("load", "get", Defaults)  OBVIOUS
<1>4. Honoured(load)
  <2>1. DOMAIN load = CallFields /\ load.at = "get" /\ load.cfg = Defaults
    BY <1>3 DEF Call, CallFields
  <2> QED  BY <2>1, DefaultsKeyed DEF Honoured
<1>5. \A x \in calls' : (\E c \in calls : x = Left(c)) \/ x = load
  <2>1. CASE Mounted
    <3>1. calls' = {Left(c) : c \in calls} \cup {load}  BY <1>3, <2>1, Zenon DEF Mounted, Left
    <3> QED  BY <3>1
  <2>2. CASE Unmounted
    <3>1. calls' = {Left(c) : c \in calls}  BY <2>2, Zenon DEF Unmounted, Left
    <3> QED  BY <3>1
  <2> QED  BY <2>1, <2>2
<1>6. \A x \in calls' : x \in calls \/ Honoured(x)  BY <1>2, <1>4, <1>5, Zenon
<1>7. DOMAIN form' = FormFields /\ form'.draft = Defaults
  <2>1. DOMAIN NoForm = FormFields /\ NoForm.draft = Defaults  BY DEF NoForm, FormFields
  <2>2. form' \in {NoForm, [NoForm EXCEPT !.on = TRUE]}  BY DEF Mounted, Unmounted
  <2> QED  BY <2>1, <2>2 DEF FormFields
<1>8. Keyed(row)  BY DEF SecretsInv
<1> QED  BY <1>6, <1>7, <1>8, DefaultsKeyed, SecretsStep

LEMMA SecretsKept ==
    ASSUME SecretsInv, [MCNext]_consoleVars
    PROVE  SecretsInv'
<1>1. CASE UNCHANGED setVars  BY <1>1, Zenon DEF setVars, SecretsInv, Honoured, Keyed
<1>2. CASE SettingsNext  BY <1>2, SecretsOfCalls, SecretsOfClicks, Zenon DEF SettingsNext
<1>3. CASE (Mounted \/ Unmounted) /\ UNCHANGED <<row, edge, raced>>  BY <1>3, SecretsOfScreens
<1> QED  BY <1>1, <1>2, <1>3, SettingsMove

\* A secret that changes is one that was typed.
LEMMA SecretsChange ==
    ASSUME SecretsInv, [MCNext]_consoleVars, NEW s \in {"key", "token"}, row'[s] # row[s]
    PROVE  \E c \in calls : c.do = "save" /\ c.cfg[s] = row'[s] /\ row'[s] # None
<1>1. row' # row  OBVIOUS
<1>2. PICK c \in calls : c.at = "post" /\ row' = Effective(c.cfg)
  <2>1. SettingsNext  BY <1>1, SettingsMove DEF setVars
  <2> QED  BY <1>1, <2>1, Zenon
           DEF SettingsNext, Patch, RunTest, Restore, CallStep, Tested, Applies, Posted, PutToEdge,
               Gets, Got, CallFails
<1>3. Honoured(c)  BY DEF SecretsInv
<1>4. row'[s] = Or(c.cfg[s], row[s])  BY <1>2, <1>3 DEF Effective, Honoured, Keyed
<1>5. c.cfg[s] # None /\ row'[s] = c.cfg[s]  BY <1>4 DEF Or
<1>6. c.do = "save"  BY <1>2, <1>3, <1>5 DEF Honoured
<1> QED  BY <1>5, <1>6

LEMMA SecretsStart ==
    ASSUME MCInit
    PROVE  SecretsInv
<1>1. PICK r \in {Row0, RowC, RowD} : SettingsInit(r)
  <2>1. \A u, f : NoRemote(u, f) => SettingsInit(Row0)  BY Zenon DEF NoRemote
  <2>2. FrontScenario => SettingsInit(Row0)  BY Zenon DEF FrontScenario
  <2>3. SettingsScenario => \E r \in {Row0, RowC, RowD} : SettingsInit(r)
    BY Zenon DEF SettingsScenario
  <2>4. SettingsInit(Row0) \/ \E r \in {Row0, RowC, RowD} : SettingsInit(r)
    BY <2>1, <2>2, <2>3, Zenon DEF MCInit, PanelScenario, InviteScenario, SetupScenario,
                    BannerScenario, UpdateScenario
  <2> QED  BY <2>4, Zenon
<1>2. row = r /\ form = NoForm /\ calls = {}  BY <1>1 DEF SettingsInit
<1>3. Keyed(r)  BY <1>1 DEF Row0, RowC, RowD, Defaults, Keyed
<1>4. DOMAIN form = FormFields /\ form.draft = Defaults  BY <1>2 DEF NoForm, FormFields
<1>5. Keyed(form.draft)  BY <1>4, DefaultsKeyed
<1> QED  BY <1>2, <1>3, <1>4, <1>5 DEF SecretsInv

---------------------------------------------------------------------------
(* What holds of every run. *)

\* A wizard that went on over a report left nothing behind that blocks, and of
\* what degrades only what was accepted; no row of a window stays busy over a job
\* that is over, but for one whose own command could not be started and one that
\* another window's remedy announced; and an update that is run is the one that
\* was published, unless two downloads wrote the file at once (PreflightStep.tsx,
\* usePreflight.ts, updates.ts).  A wizard without the bridge, or past a check
\* that cannot run, goes on with nothing known.
THEOREM SetupHoldsAlways == Spec => []SetupHolds
<1>1. MCInit => SetupInv /\ UpdateInv  BY SetupStarts, UpdateStarts
<1>2. SetupInv /\ UpdateInv /\ [MCNext]_consoleVars => (SetupInv /\ UpdateInv)'
  BY SetupKept, UpdateKept
<1>3. SetupInv /\ UpdateInv => SetupHolds
  <2>1. SetupInv => NoRowStaysBusy  BY NoBarIsLeft
  <2>2. SetupInv => OnlyInOrderIsPassed  BY DEF SetupInv
  <2>3. UpdateInv => LaunchedIsPublished  BY DEF UpdateInv
  <2> QED  BY <2>1, <2>2, <2>3, Zenon DEF SetupHolds
<1> QED  BY <1>1, <1>2, <1>3, PTL DEF Spec

\* Unless saves have raced, the sidecar runs what is stored and an untouched form
\* shows it; what the control plane's strategy serves is for the name that was
\* asked for, and from its cache only while it is good for a day more, the
\* daemon's own answer being served as it comes; a request is said to come from
\* whoever has its address or lost it within the time to live; and a first code,
\* unless an access was chosen before the lists had come, has an entry for every
\* folder it was seeded with (SettingsScreen.tsx, edge/cert.go, edge/proxy.go,
\* PairingScreen.tsx).
THEOREM ConsoleHoldsAlways == Spec => []ConsoleHolds
<1> DEFINE Inv == FrontInv /\ SettingsInv /\ ListsInv /\ InviteInv
<1>1. MCInit => Inv  BY FrontStarts, SettingsStarts, InviteStarts
<1>2. Inv /\ [MCNext]_consoleVars => Inv'
  BY FrontKept, SettingsKept, ListsKept, InviteKept
<1>3. Inv => ConsoleHolds
  <2>1. InviteInv => FirstCodeIsWhole  BY DEF InviteInv
  <2> QED  BY <2>1, FrontIsGood, SettingsAreGood, Zenon DEF ConsoleHolds
<1> HIDE DEF Inv
<1> QED  BY <1>1, <1>2, <1>3, PTL DEF Spec

\* A stored secret is replaced by what the operator typed, and by nothing else:
\* a form that left it untouched, or that was restored, does not take it away
\* (operatorNetwork.ts: withStoredSecrets).
THEOREM StoredSecretsAreKept == Spec => SecretsAreKept
<1>1. MCInit => SecretsInv  BY SecretsStart
<1>2. SecretsInv /\ [MCNext]_consoleVars => SecretsInv'  BY SecretsKept
<1>3. SecretsInv /\ [MCNext]_consoleVars =>
         [\A s \in {"key", "token"} :
             row'[s] # row[s] => \E c \in calls : c.do = "save" /\ c.cfg[s] = row'[s]
                                                  /\ row'[s] # None]_row
  BY SecretsChange
<1> QED  BY <1>1, <1>2, <1>3, PTL DEF Spec, SecretsAreKept

=============================================================================
