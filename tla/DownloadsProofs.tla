-------------------------- MODULE DownloadsProofs --------------------------
(***************************************************************************)
(* What the download queue keeps, for any jobs, any number of transfers at *)
(* once and any bounds: that no job waits beside a free transfer, what the *)
(* transfers leave in the downloads folder, and that a fetched file stays. *)
(***************************************************************************)
EXTENDS Downloads, FiniteSetTheorems, SequenceTheorems, TLAPS

Contents == Seq(Byte)

\* Statuses of a job that has a name in the folder, and of one that may still
\* have a partial file there.
Live == {"queued", "downloading", "paused", "error", "done"}
Begun == Live \ {"done"}

Spent == [faults: Nat, untold: Nat, changes: Nat, userFiles: Nat, revivals: Nat,
          recancels: Nat, pauses: Nat, crashes: Nat]

\* A row that there is has a name.
IsRow(r) == r \in Row /\ (r.status # "none" => r.dest \in Names)

TypeInv ==
    /\ rows \in [Jobs -> Row] /\ saved \in [Jobs -> Row]
    /\ \A j \in Jobs : IsRow(rows[j]) /\ IsRow(saved[j])
    /\ runs \in [Jobs -> Run]
    /\ part \in [Names -> Contents \cup {NoFile}]
    /\ disk \in [Names -> Contents \cup {NoFile, UserFile}]
    /\ version \in [Jobs -> 0..MaxChanges]
    /\ unsaved \in BOOLEAN
    /\ spent \in Spent

\* A version is one of those there have been.
VersionInv == \A j \in Jobs : version[j] <= spent.changes

\* The transfers are those of the rows that say so, the queue holds each job that
\* is queued once, and waits only when every transfer is taken.
TransfersOf(rs) == {j \in Jobs : rs[j].at # "none"}

QueueOf(r, q, rs) ==
    /\ q \in Seq(Jobs)
    /\ \A i \in DOMAIN q : r[q[i]].status = "queued"
    /\ \A i, k \in DOMAIN q : q[i] = q[k] => i = k
    /\ \A j \in Jobs : rs[j].at # "none" <=> r[j].status = "downloading"
    /\ IsFiniteSet(TransfersOf(rs)) /\ Cardinality(TransfersOf(rs)) <= Concurrency

QueueInv == QueueOf(rows, queue, runs) /\ NoneWaitsInVain

\* No two rows have one name, in the window or in the queue file.
Distinct(r) ==
    \A i, j \in Jobs : r[i].status \in Live /\ r[j].status \in Live /\ r[i].dest = r[j].dest
                          => i = j

NamesInv == spent.revivals = 0 => Distinct(rows) /\ Distinct(saved)

\* Without a crash, a partial file has a job that may go on with it.
CleanInv ==
    spent.crashes = 0 =>
        \A n \in Names : part[n] = NoFile \/ \E i \in Jobs : rows[i].dest = n /\ rows[i].status \in Begun

\* f is the first bytes of j's file, none of a version after v, and none behind one
\* of a later version.
IsPrefix(f, j, v) ==
    /\ f \in Contents
    /\ \A i \in DOMAIN f : f[i].at = i /\ f[i].job = j /\ f[i].version <= v
    /\ \A i, k \in DOMAIN f : i <= k => f[i].version <= f[k].version

\* What a transfer writes is of the version that it was answered with.
Latest(r, v) == IF r.at \in {"reading", "closing"} THEN r.version ELSE v

\* A partial file is a prefix of the file of the job that has its name, and a
\* transfer knows how long it is.
PartOf(j) ==
    LET f == part[rows[j].dest] IN
    /\ runs[j].version <= version[j]
    /\ rows[j].status \in Begun => f = NoFile \/ IsPrefix(f, j, Latest(runs[j], version[j]))
    /\ runs[j].at # "none" => runs[j].written = BytesOnDisk(f)
    /\ runs[j].at \in {"reading", "closing"} => f # NoFile

PartInv == Undisturbed => \A j \in Jobs : PartOf(j)

\* While every answer says how long the file is, a transfer never has more than
\* there is of the version it was answered with, and a job that is done has left a
\* file as long as one of the versions.
WholeOf(j) ==
    LET f == disk[rows[j].dest] IN
    /\ runs[j].at \in {"reading", "closing"} =>
          runs[j].told /\ runs[j].written <= Length[runs[j].version]
    /\ rows[j].status = "done" =>
          IsPrefix(f, j, version[j]) /\ \E v \in 0..version[j] : Len(f) = Length[v]

WholeInv == Undisturbed /\ spent.untold = 0 => \A j \in Jobs : WholeOf(j)

\* A fetched file is that of a job that is done.
KeptInv ==
    spent.revivals + spent.crashes = 0 =>
        \A n \in Names : IsFile(disk[n]) => \E i \in Jobs : rows[i].dest = n /\ rows[i].status = "done"

Inv == TypeInv /\ VersionInv /\ QueueInv /\ NamesInv /\ CleanInv /\ PartInv /\ WholeInv /\ KeptInv

---------------------------------------------------------------------------
(* The pump. *)

\* What the rows and the transfers are after the pump, given what they were
\* before: a job that was queued may have begun.
Pumped(nr, nn) ==
    /\ rows' \in [Jobs -> Row] /\ runs' \in [Jobs -> Run]
    /\ \A j \in Jobs : rows'[j].dest = nr[j].dest
    /\ \A j \in Jobs :
          \/ rows'[j].status = nr[j].status /\ runs'[j] = nn[j]
          \/ /\ nr[j].status = "queued" /\ rows'[j].status = "downloading"
             /\ runs'[j].at = "opening" /\ runs'[j].version = 0
             /\ runs'[j].written = BytesOnDisk(part'[nr[j].dest])

\* A byte count is one, and only a content is a file.
LEMMA FileFacts ==
    /\ NoFile # UserFile /\ NoFile \notin Contents /\ UserFile \notin Contents
    /\ \A f \in Contents \cup {NoFile, UserFile} : IsFile(f) <=> f \in Contents
    /\ \A f \in Contents \cup {NoFile, UserFile} : BytesOnDisk(f) \in Nat
<1>1. NoFile # UserFile /\ NoFile \notin Contents /\ UserFile \notin Contents
  BY DownloadsAssumption DEF Contents
<1>2. \A f \in Contents : Len(f) \in Nat
  BY DEF Contents
<1> QED
  BY <1>1, <1>2 DEF IsFile, BytesOnDisk

\* As many jobs begin as transfers are free, or all that wait.
LEMMA PumpLemma ==
  ASSUME NEW nr \in [Jobs -> Row], NEW nq, NEW nn \in [Jobs -> Run],
         QueueOf(nr, nq, nn), \A j \in Jobs : IsRow(nr[j]),
         part' \in [Names -> Contents \cup {NoFile}],
         Pump(nr, nq, nn)
  PROVE  QueueInv' /\ Pumped(nr, nn)
<1> DEFINE old == TransfersOf(nn)
           free == Concurrency - Cardinality(old)
           n == IF free < Len(nq) THEN free ELSE Len(nq)
           started == {nq[i] : i \in 1..n}
           fresh(j) == [NotRunning EXCEPT !.at = "opening",
                                          !.written = BytesOnDisk(part'[nr[j].dest])]
<1>1. nq \in Seq(Jobs) /\ Len(nq) \in Nat /\ DOMAIN nq = 1..Len(nq)
  BY DEF QueueOf
<1>2. IsFiniteSet(old) /\ Cardinality(old) \in Nat /\ Cardinality(old) <= Concurrency
  BY FS_CardinalityType DEF QueueOf
<1>3. free \in Nat /\ Cardinality(old) + free = Concurrency
  BY <1>2, DownloadsAssumption
<1>4. n \in Nat /\ n <= Len(nq) /\ n <= free /\ (n < Len(nq) => n = free)
  BY <1>1, <1>3
<1>5. /\ rows' = [j \in Jobs |-> IF j \in started THEN [nr[j] EXCEPT !.status = "downloading"]
                                 ELSE nr[j]]
      /\ runs' = [j \in Jobs |-> IF j \in started THEN fresh(j) ELSE nn[j]]
      /\ queue' = SubSeq(nq, n + 1, Len(nq))
  BY DEF Pump, TransfersOf
<1>6. \A i \in 1..n : nq[i] \in Jobs /\ nr[nq[i]].status = "queued" /\ nn[nq[i]].at = "none"
  BY <1>1, <1>4 DEF QueueOf
<1> HIDE DEF n, free, old
<1>7. IsFiniteSet(started) /\ Cardinality(started) = n
  <2> DEFINE f == [i \in 1..n |-> nq[i]]
  <2>1. f \in Surjection(1..n, started)
    BY DEF Surjection
  <2>2. IsFiniteSet(1..n) /\ Cardinality(1..n) = n
    BY <1>4, FS_Interval
  <2>3. f \in Injection(1..n, started)
    <3>1. \A i, k \in 1..n : nq[i] = nq[k] => i = k
      BY <1>1, <1>4 DEF QueueOf
    <3> QED
      BY <3>1, <2>1 DEF Injection, IsInjective
  <2> QED
    BY <2>1, <2>2, <2>3, FS_Surjection
<1>8. \A j \in started : nr[j].dest \in Names /\ fresh(j) \in Run /\ fresh(j).at = "opening"
                         /\ fresh(j).version = 0
                         /\ fresh(j).written = BytesOnDisk(part'[nr[j].dest])
  <2> SUFFICES ASSUME NEW j \in started PROVE nr[j].dest \in Names /\ fresh(j) \in Run
                 /\ fresh(j).at = "opening" /\ fresh(j).version = 0
                 /\ fresh(j).written = BytesOnDisk(part'[nr[j].dest])
    OBVIOUS
  <2>1. nr[j].dest \in Names
    BY <1>6 DEF IsRow
  <2>2. PICK b \in Nat : b = BytesOnDisk(part'[nr[j].dest])
    BY <2>1, FileFacts
  <2>3. 0 \in 0..MaxChanges
    BY DownloadsAssumption
  <2>4. fresh(j) = [NotRunning EXCEPT !.at = "opening", !.written = b]
    BY <2>2
  <2> QED
    BY <2>1, <2>2, <2>3, <2>4 DEF NotRunning, Run
<1> HIDE DEF fresh
<1>9. Pumped(nr, nn)
  <2>1. \A j \in started : j \in Jobs /\ nr[j].status = "queued" /\ nn[j].at = "none"
    BY <1>6
  <2>2. runs' \in [Jobs -> Run]
    BY <1>5, <1>8
  <2>3. rows' \in [Jobs -> Row]
    BY <1>5 DEF Row
  <2>4. \A j \in Jobs : rows'[j].dest = nr[j].dest
    BY <1>5 DEF Row
  <2>5. \A j \in Jobs \ started : rows'[j].status = nr[j].status /\ runs'[j] = nn[j]
    BY <1>5
  <2>6. \A j \in started : nr[j].status = "queued" /\ rows'[j].status = "downloading" /\ runs'[j] = fresh(j)
    BY <1>5, <2>1 DEF Row
  <2> QED
    BY <1>8, <2>1, <2>2, <2>3, <2>4, <2>5, <2>6 DEF Pumped
<1>10. TransfersOf(runs') = old \cup started /\ old \cap started = {}
  BY <1>5, <1>6, <1>8 DEF TransfersOf, old
<1>11. IsFiniteSet(TransfersOf(runs')) /\ Cardinality(TransfersOf(runs')) = Cardinality(old) + n
  <2>1. Cardinality(old \cap started) = 0
    BY <1>10, FS_EmptySet
  <2>2. Cardinality(old \cup started) = Cardinality(old) + Cardinality(started) - Cardinality(old \cap started)
        /\ IsFiniteSet(old \cup started)
    BY <1>2, <1>7, FS_Union
  <2> QED
    BY <1>2, <1>4, <1>7, <1>10, <2>1, <2>2
<1>12. /\ queue' \in Seq(Jobs)
       /\ DOMAIN queue' = 1..(Len(nq) - n)
       /\ \A i \in DOMAIN queue' : queue'[i] = nq[n + i] /\ n + i \in DOMAIN nq /\ n + i \notin 1..n
  <2>1. /\ SubSeq(nq, n + 1, Len(nq)) \in Seq(Jobs)
        /\ Len(SubSeq(nq, n + 1, Len(nq))) = IF n + 1 <= Len(nq) THEN Len(nq) - (n + 1) + 1 ELSE 0
        /\ \A i \in 1..(Len(nq) - (n + 1) + 1) : SubSeq(nq, n + 1, Len(nq))[i] = nq[n + 1 + i - 1]
    BY <1>1, <1>4, SubSeqProperties
  <2> QED
    BY <1>1, <1>4, <1>5, <2>1
<1>13. \A i \in DOMAIN queue' : rows'[queue'[i]].status = "queued"
  <2> SUFFICES ASSUME NEW i \in DOMAIN queue' PROVE rows'[queue'[i]].status = "queued"
    OBVIOUS
  <2>1. nq[n + i] \in Jobs /\ nr[nq[n + i]].status = "queued"
    BY <1>1, <1>12 DEF QueueOf
  <2>2. nq[n + i] \notin started
    <3> SUFFICES ASSUME NEW k \in 1..n, nq[k] = nq[n + i] PROVE FALSE
      OBVIOUS
    <3>1. k \in DOMAIN nq /\ n + i \in DOMAIN nq
      BY <1>1, <1>4, <1>12
    <3>2. k = n + i
      BY <3>1 DEF QueueOf
    <3> QED
      BY <1>12, <3>2
  <2> QED
    BY <1>5, <1>12, <2>1, <2>2
<1>14. \A i, k \in DOMAIN queue' : queue'[i] = queue'[k] => i = k
  BY <1>1, <1>4, <1>12 DEF QueueOf
<1>15. \A j \in Jobs : runs'[j].at # "none" <=> rows'[j].status = "downloading"
  <2> SUFFICES ASSUME NEW j \in Jobs PROVE runs'[j].at # "none" <=> rows'[j].status = "downloading"
    OBVIOUS
  <2>1. CASE rows'[j].status = nr[j].status /\ runs'[j] = nn[j]
    BY <2>1 DEF QueueOf
  <2> QED
    BY <1>9, <2>1 DEF Pumped
<1>16. NoneWaitsInVain'
  <2>1. queue' # <<>> => n = free
    BY <1>1, <1>4, <1>12
  <2> QED
    BY <1>3, <1>11, <2>1 DEF NoneWaitsInVain, Running, TransfersOf
<1>17. Cardinality(TransfersOf(runs')) <= Concurrency
  BY <1>2, <1>3, <1>4, <1>11, DownloadsAssumption
<1> QED
  BY <1>9, <1>11, <1>12, <1>13, <1>14, <1>15, <1>16, <1>17 DEF QueueInv, QueueOf

---------------------------------------------------------------------------
(* The counters, the rows, the queue. *)

Kinds == {"faults", "untold", "changes", "userFiles", "revivals", "recancels", "pauses", "crashes"}

SpentGrows == spent' \in Spent /\ \A w \in Kinds : spent'[w] >= spent[w]

\* A counter that is spent is one more, and the others stay.
LEMMA SpendLemma ==
  ASSUME TypeInv, NEW w \in Kinds, NEW max, Spend(w, max)
  PROVE  SpentGrows /\ spent'[w] > 0
<1>1. spent \in Spent /\ spent' = [spent EXCEPT ![w] = spent[w] + 1]
  BY DEF TypeInv, Spend
<1>2. \A v \in Kinds : spent[v] \in Nat
  BY <1>1 DEF Spent, Kinds
<1>3. PICK k \in Nat : k = spent[w] + 1
  BY <1>2
<1>4. spent' = [spent EXCEPT ![w] = k]
  BY <1>1, <1>3
<1>5. spent' \in Spent
  BY <1>1, <1>3, <1>4 DEF Spent, Kinds
<1>6. \A v \in Kinds : v \in DOMAIN spent
  BY <1>1 DEF Spent, Kinds
<1>7. \A v \in Kinds : spent'[v] = IF v = w THEN k ELSE spent[v]
  BY <1>4, <1>6
<1> QED
  BY <1>2, <1>3, <1>5, <1>7 DEF SpentGrows

LEMMA NothingSpent == ASSUME TypeInv, UNCHANGED spent PROVE SpentGrows
<1>1. spent \in Spent
  BY DEF TypeInv
<1>2. \A v \in Kinds : spent[v] \in Nat
  BY <1>1 DEF Spent, Kinds
<1> QED
  BY <1>1, <1>2 DEF SpentGrows

\* What has not happened has not happened before.
LEMMA Regimes ==
  ASSUME TypeInv, SpentGrows
  PROVE  /\ Undisturbed' => Undisturbed
         /\ Undisturbed => spent.revivals = 0 /\ spent.recancels = 0 /\ spent.crashes = 0
         /\ Undisturbed' => spent'.revivals = 0 /\ spent'.recancels = 0 /\ spent'.crashes = 0
         /\ spent'.revivals = 0 => spent.revivals = 0
         /\ spent'.crashes = 0 => spent.crashes = 0
         /\ spent'.untold = 0 => spent.untold = 0
         /\ spent'.revivals + spent'.crashes = 0 => spent'.revivals = 0 /\ spent'.crashes = 0
                                                    /\ spent.revivals + spent.crashes = 0
<1>1. spent \in Spent /\ spent' \in Spent
  BY DEF TypeInv, SpentGrows
<1>2. /\ spent.revivals \in Nat /\ spent.recancels \in Nat /\ spent.crashes \in Nat /\ spent.untold \in Nat
      /\ spent'.revivals \in Nat /\ spent'.recancels \in Nat /\ spent'.crashes \in Nat /\ spent'.untold \in Nat
  BY <1>1 DEF Spent
<1>3. /\ spent'.revivals >= spent.revivals /\ spent'.recancels >= spent.recancels
      /\ spent'.crashes >= spent.crashes /\ spent'.untold >= spent.untold
  BY DEF SpentGrows, Kinds
<1>4. \A a, b, c \in Nat : a + b + c = 0 <=> a = 0 /\ b = 0 /\ c = 0
  OBVIOUS
<1>5. \A a, b \in Nat : a + b = 0 <=> a = 0 /\ b = 0
  OBVIOUS
<1>6. \A a, b \in Nat : a >= b /\ a = 0 => b = 0
  OBVIOUS
<1>7. Undisturbed <=> spent.revivals = 0 /\ spent.recancels = 0 /\ spent.crashes = 0
  BY <1>2, <1>4 DEF Undisturbed
<1>8. Undisturbed' <=> spent'.revivals = 0 /\ spent'.recancels = 0 /\ spent'.crashes = 0
  <2>1. Undisturbed' <=> spent'.revivals + spent'.recancels + spent'.crashes = 0
    BY Zenon DEF Undisturbed
  <2>2. spent'.revivals \in Nat /\ spent'.recancels \in Nat /\ spent'.crashes \in Nat
    BY <1>2
  <2> QED
    BY <1>4, <2>1, <2>2, Zenon
<1>9. /\ spent'.revivals = 0 => spent.revivals = 0
      /\ spent'.recancels = 0 => spent.recancels = 0
      /\ spent'.crashes = 0 => spent.crashes = 0
      /\ spent'.untold = 0 => spent.untold = 0
  BY <1>2, <1>3, <1>6
<1>10. /\ spent.revivals + spent.crashes = 0 <=> spent.revivals = 0 /\ spent.crashes = 0
       /\ spent'.revivals + spent'.crashes = 0 <=> spent'.revivals = 0 /\ spent'.crashes = 0
  BY <1>2, <1>5
<1> QED
  BY <1>7, <1>8, <1>9, <1>10

\* A row that gets another status keeps its name, and the others stay.
LEMMA SetsLemma ==
  ASSUME TypeInv, NEW j \in Jobs,
         NEW st \in {"queued", "downloading", "paused", "error", "done", "cancelled"},
         rows[j].status # "none"
  PROVE  /\ Sets(j, st) \in [Jobs -> Row]
         /\ \A i \in Jobs : IsRow(Sets(j, st)[i]) /\ Sets(j, st)[i].dest = rows[i].dest
         /\ Sets(j, st)[j].status = st
         /\ \A i \in Jobs \ {j} : Sets(j, st)[i] = rows[i]
<1>1. rows \in [Jobs -> Row] /\ \A i \in Jobs : IsRow(rows[i])
  BY DEF TypeInv
<1>2. Sets(j, st) = [rows EXCEPT ![j] = [rows[j] EXCEPT !.status = st]]
  BY DEF Sets
<1>3. /\ [rows[j] EXCEPT !.status = st] \in Row
      /\ [rows[j] EXCEPT !.status = st].dest = rows[j].dest
      /\ [rows[j] EXCEPT !.status = st].status = st
  BY <1>1 DEF Row
<1>4. IsRow([rows[j] EXCEPT !.status = st])
  BY <1>1, <1>3 DEF IsRow
<1>5. Sets(j, st)[j] = [rows[j] EXCEPT !.status = st]
      /\ \A i \in Jobs \ {j} : Sets(j, st)[i] = rows[i]
  BY <1>1, <1>2
<1>6. Sets(j, st) \in [Jobs -> Row]
  BY <1>1, <1>2, <1>3
<1> QED
  BY <1>1, <1>3, <1>4, <1>5, <1>6

\* A transfer goes on, in another state.
LEMMA RunLemma ==
  ASSUME TypeInv, QueueInv, NEW j \in Jobs, NEW r \in Run,
         runs[j].at # "none", r.at # "none",
         runs' = [runs EXCEPT ![j] = r], UNCHANGED <<rows, queue>>
  PROVE  QueueInv' /\ runs' \in [Jobs -> Run]
<1>1. runs \in [Jobs -> Run]
  BY DEF TypeInv
<1>2. \A i \in Jobs : runs'[i].at # "none" <=> runs[i].at # "none"
  BY <1>1
<1>3. TransfersOf(runs') = TransfersOf(runs) /\ Running' = Running
  BY <1>2 DEF TransfersOf, Running
<1>4. rows' = rows /\ queue' = queue
  OBVIOUS
<1>5. QueueOf(rows, queue, runs')
  BY <1>2, <1>3 DEF QueueInv, QueueOf
<1>6. NoneWaitsInVain'
  BY <1>3, <1>4 DEF QueueInv, NoneWaitsInVain
<1> QED
  BY <1>1, <1>4, <1>5, <1>6 DEF QueueInv

\* The queue without a job.
LEMMA WithoutLemma ==
  ASSUME NEW q \in Seq(Jobs), NEW j \in Jobs, \A i, k \in DOMAIN q : q[i] = q[k] => i = k
  PROVE  /\ Without(q, j) \in Seq(Jobs)
         /\ \A i \in DOMAIN Without(q, j) :
               Without(q, j)[i] # j /\ \E k \in DOMAIN q : Without(q, j)[i] = q[k]
         /\ \A i, k \in DOMAIN Without(q, j) : Without(q, j)[i] = Without(q, j)[k] => i = k
         /\ Without(q, j) # <<>> => q # <<>>
<1> DEFINE w == Without(q, j)
<1>1. CASE \A i \in DOMAIN q : q[i] # j
  <2>1. w = q
    BY <1>1 DEF Without
  <2> QED
    BY <1>1, <2>1
<1>2. CASE \E i \in DOMAIN q : q[i] = j
  <2> DEFINE k == CHOOSE i \in DOMAIN q : q[i] = j
             at(i) == IF i < k THEN i ELSE i + 1
  <2>1. k \in DOMAIN q /\ q[k] = j
    BY <1>2
  <2>2. w = [i \in 1..(Len(q) - 1) |-> IF i < k THEN q[i] ELSE q[i + 1]]
    BY <1>2 DEF Without
  <2> HIDE DEF k, w
  <2>3. DOMAIN q = 1..Len(q) /\ Len(q) \in Nat /\ k \in 1..Len(q) /\ Len(q) - 1 \in Nat
    BY <2>1
  <2>4. DOMAIN w = 1..(Len(q) - 1)
    BY <2>2
  <2>5. \A i \in DOMAIN w : at(i) \in DOMAIN q /\ at(i) # k /\ w[i] = q[at(i)]
    BY <2>2, <2>3, <2>4
  <2>6. \A i, l \in DOMAIN w : at(i) = at(l) => i = l
    BY <2>3, <2>4
  <2> HIDE DEF at
  <2>7. w \in Seq(Jobs)
    BY <2>2, <2>3, <2>4, <2>5
  <2>8. \A i \in DOMAIN w : w[i] # j
    BY <2>1, <2>5
  <2>9. \A i, l \in DOMAIN w : w[i] = w[l] => i = l
    BY <2>5, <2>6
  <2> QED
    BY <2>1, <2>5, <2>7, <2>8, <2>9 DEF w
<1> QED
  BY <1>1, <1>2

\* A job at rest gets a status at rest, and leaves the queue.
LEMMA RestLemma ==
  ASSUME TypeInv, QueueInv, NEW j \in Jobs, NEW st \in {"paused", "cancelled"},
         j \notin Running, rows[j].status # "none",
         rows' = Sets(j, st), queue' = Without(queue, j), UNCHANGED runs
  PROVE  QueueInv'
<1>1. /\ queue \in Seq(Jobs)
      /\ \A i \in DOMAIN queue : rows[queue[i]].status = "queued"
      /\ \A i, k \in DOMAIN queue : queue[i] = queue[k] => i = k
      /\ \A i \in Jobs : runs[i].at # "none" <=> rows[i].status = "downloading"
      /\ IsFiniteSet(TransfersOf(runs)) /\ Cardinality(TransfersOf(runs)) <= Concurrency
      /\ NoneWaitsInVain
  BY DEF QueueInv, QueueOf
<1>2. /\ queue' \in Seq(Jobs)
      /\ \A i \in DOMAIN queue' : queue'[i] # j /\ \E k \in DOMAIN queue : queue'[i] = queue[k]
      /\ \A i, k \in DOMAIN queue' : queue'[i] = queue'[k] => i = k
      /\ queue' # <<>> => queue # <<>>
  BY <1>1, WithoutLemma
<1>3. rows'[j].status = st /\ \A i \in Jobs \ {j} : rows'[i] = rows[i]
  BY SetsLemma
<1>4. \A i \in DOMAIN queue' : rows'[queue'[i]].status = "queued"
  BY <1>1, <1>2, <1>3
<1>5. \A i \in Jobs : runs[i].at # "none" <=> rows'[i].status = "downloading"
  BY <1>1, <1>3 DEF Running
<1>6. runs' = runs /\ Running' = Running
  BY DEF Running
<1>7. NoneWaitsInVain'
  BY <1>1, <1>2, <1>6 DEF NoneWaitsInVain
<1>8. QueueOf(rows', queue', runs)
  BY <1>1, <1>2, <1>4, <1>5 DEF QueueOf
<1> QED
  BY <1>6, <1>7, <1>8 DEF QueueInv

---------------------------------------------------------------------------
(* What the actions that end with the pump leave. *)

Same(i) == rows'[i] = rows[i] /\ runs'[i] = runs[i]

Begins(i, n) ==
    /\ rows'[i].status = "downloading" /\ rows'[i].dest = n
    /\ runs'[i].at = "opening" /\ runs'[i].version = 0
    /\ runs'[i].written = BytesOnDisk(part'[n])

\* The jobs but one stay as they are, or begin.
OthersGoOn(j) ==
    /\ QueueInv' /\ rows' \in [Jobs -> Row] /\ runs' \in [Jobs -> Run]
    /\ \A i \in Jobs : IsRow(rows'[i])
    /\ \A i \in Jobs \ {j} : Same(i) \/ (rows[i].status = "queued" /\ Begins(i, rows[i].dest))

\* The transfer of a job has ended, and its row says how.
Ended(j, st) ==
    /\ OthersGoOn(j)
    /\ rows'[j] = [status |-> st, dest |-> rows[j].dest] /\ runs'[j] = NotRunning

\* A job has been queued, and may have begun.
Started(j, n) ==
    /\ OthersGoOn(j)
    /\ \/ rows'[j] = [status |-> "queued", dest |-> n] /\ runs'[j] = runs[j]
       \/ Begins(j, n)

LEMMA OthersLemma ==
  ASSUME TypeInv, NEW j \in Jobs, NEW nr \in [Jobs -> Row], NEW nn \in [Jobs -> Run],
         \A i \in Jobs : IsRow(nr[i]),
         \A i \in Jobs \ {j} : nr[i] = rows[i] /\ nn[i] = runs[i],
         QueueInv', Pumped(nr, nn)
  PROVE  OthersGoOn(j)
<1>1. /\ rows' \in [Jobs -> Row] /\ runs' \in [Jobs -> Run]
      /\ \A i \in Jobs : rows'[i].dest = nr[i].dest
      /\ \A i \in Jobs :
          \/ rows'[i].status = nr[i].status /\ runs'[i] = nn[i]
          \/ /\ nr[i].status = "queued" /\ rows'[i].status = "downloading"
             /\ runs'[i].at = "opening" /\ runs'[i].version = 0
             /\ runs'[i].written = BytesOnDisk(part'[nr[i].dest])
  BY DEF Pumped
<1>2. \A i \in Jobs : IsRow(rows'[i])
  BY <1>1 DEF IsRow
<1>3. ASSUME NEW i \in Jobs \ {j}
      PROVE  Same(i) \/ (rows[i].status = "queued" /\ Begins(i, rows[i].dest))
  <2>1. nr[i] = rows[i] /\ nn[i] = runs[i] /\ rows'[i] \in Row /\ rows[i] \in Row
    BY <1>1, <1>3
  <2>2. CASE rows'[i].status = nr[i].status /\ runs'[i] = nn[i]
    <3>1. rows'[i] = rows[i]
      BY <1>1, <1>3, <2>1, <2>2, SMTT(30) DEF Row
    <3> QED
      BY <2>1, <2>2, <3>1 DEF Same
  <2>3. CASE /\ nr[i].status = "queued" /\ rows'[i].status = "downloading"
             /\ runs'[i].at = "opening" /\ runs'[i].version = 0
             /\ runs'[i].written = BytesOnDisk(part'[nr[i].dest])
    BY <1>1, <1>3, <2>1, <2>3 DEF Begins
  <2> QED
    BY <1>1, <1>3, <2>2, <2>3
<1> QED
  BY <1>1, <1>2, <1>3 DEF OthersGoOn

\* A job is queued and the pump runs: enqueue and resume.
LEMMA StartLemma ==
  ASSUME TypeInv, QueueInv, NEW j \in Jobs, NEW n \in Names,
         rows[j].status \notin {"queued", "downloading"}, UNCHANGED part,
         NEW nr, nr = [rows EXCEPT ![j] = [status |-> "queued", dest |-> n]],
         Pump(nr, Append(queue, j), runs)
  PROVE  Started(j, n)
<1> DEFINE q == Append(queue, j)
           r == [status |-> "queued", dest |-> n]
<1>1. /\ rows \in [Jobs -> Row] /\ \A i \in Jobs : IsRow(rows[i])
      /\ runs \in [Jobs -> Run] /\ part' \in [Names -> Contents \cup {NoFile}]
  BY DEF TypeInv
<1>2. r \in Row /\ IsRow(r)
  BY DEF Row, IsRow
<1>3. nr \in [Jobs -> Row] /\ nr[j] = r /\ \A i \in Jobs \ {j} : nr[i] = rows[i]
  BY <1>1, <1>2
<1>4. \A i \in Jobs : IsRow(nr[i])
  BY <1>1, <1>2, <1>3
<1>5. /\ queue \in Seq(Jobs)
      /\ \A i \in DOMAIN queue : rows[queue[i]].status = "queued"
      /\ \A i, k \in DOMAIN queue : queue[i] = queue[k] => i = k
      /\ \A i \in Jobs : runs[i].at # "none" <=> rows[i].status = "downloading"
      /\ IsFiniteSet(TransfersOf(runs)) /\ Cardinality(TransfersOf(runs)) <= Concurrency
  BY DEF QueueInv, QueueOf
<1>6. /\ q \in Seq(Jobs) /\ DOMAIN q = 1..(Len(queue) + 1) /\ DOMAIN queue = 1..Len(queue)
      /\ Len(queue) \in Nat /\ q[Len(queue) + 1] = j
      /\ \A i \in 1..Len(queue) : q[i] = queue[i]
  BY <1>5
<1>7. \A i \in DOMAIN queue : queue[i] # j /\ queue[i] \in Jobs
  BY <1>5
<1> HIDE DEF q
<1>8. \A i \in DOMAIN q : nr[q[i]].status = "queued"
  BY <1>3, <1>5, <1>6, <1>7
<1>9. \A i, k \in DOMAIN q : q[i] = q[k] => i = k
  BY <1>5, <1>6, <1>7
<1>10. runs[j].at = "none"
  BY <1>5
<1>11. \A i \in Jobs : runs[i].at # "none" <=> nr[i].status = "downloading"
  BY <1>3, <1>5, <1>10
<1>12. QueueOf(nr, q, runs)
  BY <1>5, <1>6, <1>8, <1>9, <1>11 DEF QueueOf
<1>13. QueueInv' /\ Pumped(nr, runs)
  BY <1>1, <1>3, <1>4, <1>12, PumpLemma DEF q
<1>14. OthersGoOn(j)
  BY <1>1, <1>3, <1>4, <1>13, OthersLemma
<1>15. /\ rows'[j] \in Row /\ rows'[j].dest = n
       /\ \/ rows'[j].status = "queued" /\ runs'[j] = runs[j]
          \/ /\ rows'[j].status = "downloading"
             /\ runs'[j].at = "opening" /\ runs'[j].version = 0
             /\ runs'[j].written = BytesOnDisk(part'[n])
  BY <1>3, <1>13 DEF Pumped
<1>16. CASE rows'[j].status = "queued" /\ runs'[j] = runs[j]
  <2>1. rows'[j] = [status |-> "queued", dest |-> n]
    BY <1>15, <1>16 DEF Row
  <2> QED
    BY <1>14, <1>16, <2>1 DEF Started
<1> QED
  BY <1>14, <1>15, <1>16 DEF Started, Begins

\* A transfer ends and the pump runs: #run's finally.
LEMMA EndLemma ==
  ASSUME TypeInv, QueueInv, NEW j \in Jobs, NEW st \in {"paused", "error", "done", "cancelled"},
         runs[j].at # "none", part' \in [Names -> Contents \cup {NoFile}],
         PumpOn(Sets(j, st), queue, [runs EXCEPT ![j] = NotRunning])
  PROVE  Ended(j, st)
<1> DEFINE nr == Sets(j, st)
           nn == [runs EXCEPT ![j] = NotRunning]
<1>1. /\ queue \in Seq(Jobs)
      /\ \A i \in DOMAIN queue : rows[queue[i]].status = "queued"
      /\ \A i, k \in DOMAIN queue : queue[i] = queue[k] => i = k
      /\ \A i \in Jobs : runs[i].at # "none" <=> rows[i].status = "downloading"
      /\ IsFiniteSet(TransfersOf(runs)) /\ Cardinality(TransfersOf(runs)) <= Concurrency
  BY DEF QueueInv, QueueOf
<1>2. rows[j].status = "downloading" /\ rows[j] \in Row
  BY <1>1 DEF TypeInv
<1>3. /\ nr \in [Jobs -> Row] /\ \A i \in Jobs : IsRow(nr[i])
      /\ nr[j].status = st /\ nr[j].dest = rows[j].dest
      /\ \A i \in Jobs \ {j} : nr[i] = rows[i]
  BY <1>2, SetsLemma
<1>4. NotRunning \in Run /\ NotRunning.at = "none"
  BY DownloadsAssumption DEF NotRunning, Run
<1>5. nn \in [Jobs -> Run] /\ nn[j] = NotRunning /\ \A i \in Jobs \ {j} : nn[i] = runs[i]
  BY <1>4 DEF TypeInv
<1> HIDE DEF nr, nn
<1>6. TransfersOf(nn) = TransfersOf(runs) \ {j}
  BY <1>4, <1>5 DEF TransfersOf
<1>7. IsFiniteSet(TransfersOf(nn)) /\ Cardinality(TransfersOf(nn)) <= Concurrency
  <2>1. TransfersOf(nn) \in SUBSET TransfersOf(runs)
    BY <1>6
  <2>2. IsFiniteSet(TransfersOf(nn)) /\ Cardinality(TransfersOf(nn)) <= Cardinality(TransfersOf(runs))
    BY <1>1, <2>1, FS_Subset
  <2>3. Cardinality(TransfersOf(nn)) \in Nat /\ Cardinality(TransfersOf(runs)) \in Nat
    BY <1>1, <2>2, FS_CardinalityType
  <2> QED
    BY <1>1, <2>2, <2>3, DownloadsAssumption
<1>8. \A i \in DOMAIN queue : queue[i] # j /\ queue[i] \in Jobs
  BY <1>1, <1>2
<1>9. \A i \in DOMAIN queue : nr[queue[i]].status = "queued"
  BY <1>1, <1>3, <1>8
<1>10. \A i \in Jobs : nn[i].at # "none" <=> nr[i].status = "downloading"
  BY <1>1, <1>3, <1>4, <1>5
<1>11. QueueOf(nr, queue, nn)
  BY <1>1, <1>7, <1>9, <1>10 DEF QueueOf
<1>12. Pump(nr, queue, nn)
  BY DEF PumpOn, nr, nn
<1>13. QueueInv' /\ Pumped(nr, nn)
  BY <1>3, <1>5, <1>11, <1>12, PumpLemma
<1>14. OthersGoOn(j)
  BY <1>3, <1>5, <1>13, OthersLemma
<1>15. rows'[j] \in Row /\ rows'[j].dest = rows[j].dest /\ rows'[j].status = st /\ runs'[j] = nn[j]
  BY <1>3, <1>13 DEF Pumped
<1>16. rows'[j] = [status |-> st, dest |-> rows[j].dest]
  BY <1>15 DEF Row
<1> QED
  BY <1>5, <1>14, <1>15, <1>16 DEF Ended

---------------------------------------------------------------------------
(* The steps, by what they leave.                                          *)

Elsewhere == UNCHANGED <<disk, version, saved>>

\* enqueue
NewJob(j) ==
    /\ rows[j].status = "none"
    /\ \E n \in Names : FreeName(n) /\ Started(j, n)
    /\ part' = part /\ Elsewhere

\* resume
Again(j) ==
    /\ Resumable(j) /\ Started(j, rows[j].dest)
    /\ rows[j].status = "cancelled" => spent'.revivals > 0
    /\ part' = part /\ Elsewhere

\* A transfer stops, and its partial file stays or goes.
Stopped(j) ==
    /\ runs[j].at # "none" /\ Elsewhere
    /\ \/ part' = part /\ \E st \in {"paused", "error"} : Ended(j, st)
       \/ Removes(rows[j].dest) /\ \E st \in {"cancelled", "error"} : Ended(j, st)

\* A transfer is done.
Finished(j) ==
    LET n == rows[j].dest IN
    /\ \/ runs[j].at = "opening" /\ runs[j].written = Length[version[j]]
       \/ runs[j].at = "closing" /\ Ends(j)
    /\ part[n] # NoFile
    /\ disk' = [disk EXCEPT ![n] = part[n]] /\ Removes(n)
    /\ Ended(j, "done")
    /\ UNCHANGED <<version, saved>>

\* A transfer is told to stop, or has read everything.
GoesOn(j) ==
    /\ \E r \in Run :
          /\ runs' = [runs EXCEPT ![j] = r]
          /\ r.written = runs[j].written /\ r.version = runs[j].version
          /\ r.told = runs[j].told
          /\ \/ r.at = runs[j].at
             \/ runs[j].at = "reading" /\ r.at = "closing"
    /\ runs[j].at # "none"
    /\ rows' = rows /\ part' = part /\ Elsewhere

\* A job at rest is paused or cancelled.
Rests(j) ==
    /\ runs[j].at = "none" /\ runs' = runs /\ Elsewhere
    /\ \/ rows[j].status = "queued" /\ rows' = Sets(j, "paused") /\ part' = part
       \/ /\ rows[j].status \in {"queued", "paused", "error", "cancelled"}
          /\ rows[j].status = "cancelled" => spent'.recancels > 0
          /\ rows' = Sets(j, "cancelled") /\ Removes(rows[j].dest)

\* An answer comes, and then its bytes.
Opens(j) ==
    /\ runs[j].at = "opening" /\ rows' = rows /\ Elsewhere
    /\ \E from \in Nat, told \in BOOLEAN :
          /\ from < Length[version[j]] /\ (from = runs[j].written \/ from = 0)
          /\ Sinks(j, from, told)
          /\ told \/ spent'.untold > 0

Grows(j) ==
    ReadsChunk(j) /\ rows' = rows /\ Elsewhere

Memory == rows' = rows /\ runs' = runs /\ part' = part

Step ==
    \/ \E j \in Jobs : NewJob(j) \/ Again(j) \/ Stopped(j) \/ Finished(j) \/ GoesOn(j)
                       \/ Rests(j) \/ Opens(j) \/ Grows(j)
    \/ Memory /\ saved' = rows /\ UNCHANGED <<disk, version>>
    \/ Crash /\ spent'.crashes > 0
    \/ \E n \in Names : Memory /\ disk[n] = NoFile /\ disk' = [disk EXCEPT ![n] = UserFile]
                        /\ UNCHANGED <<version, saved>>
    \/ Memory /\ spent'.changes = spent.changes + 1 /\ UNCHANGED <<disk, saved>>
       /\ \E j \in Jobs : version' = [version EXCEPT ![j] = version[j] + 1]

Good == TypeInv' /\ QueueInv' /\ SpentGrows /\ Step

\* Types follow from what the steps leave.
LEMMA TypesFrom ==
  ASSUME TypeInv, NEW j \in Jobs, OthersGoOn(j), UNCHANGED <<saved, version>>, SpentGrows,
         part' \in [Names -> Contents \cup {NoFile}],
         disk' \in [Names -> Contents \cup {NoFile, UserFile}], unsaved' \in BOOLEAN
  PROVE  TypeInv'
BY DEF TypeInv, OthersGoOn, SpentGrows

\* A name without its partial file.
LEMMA RemovesLemma ==
  ASSUME TypeInv, NEW n \in Names, Removes(n)
  PROVE  /\ part' \in [Names -> Contents \cup {NoFile}]
         /\ part'[n] = NoFile /\ \A m \in Names \ {n} : part'[m] = part[m]
BY DEF TypeInv, Removes

\* A job that is downloading has a name, and a transfer.
LEMMA Downloading ==
  ASSUME TypeInv, QueueInv, NEW j \in Jobs, runs[j].at # "none"
  PROVE  rows[j].status = "downloading" /\ rows[j].dest \in Names
BY DEF TypeInv, QueueInv, QueueOf, IsRow

LEMMA StopsStep ==
  ASSUME TypeInv, QueueInv, NEW j \in Jobs, runs[j].at # "none", Stops(j), SpentGrows
  PROVE  Good
<1>1. rows[j].dest \in Names /\ runs[j] \in Run
  BY Downloading DEF TypeInv
<1>2. runs[j].paused \in BOOLEAN /\ runs[j].cancelled \in BOOLEAN
  BY <1>1 DEF Run
<1>3. part' \in [Names -> Contents \cup {NoFile}] /\ UNCHANGED <<disk, version, saved>>
      /\ unsaved' \in BOOLEAN
  <2>1. UNCHANGED <<disk, version, saved>> /\ unsaved' \in BOOLEAN
    BY DEF Stops
  <2>2. CASE runs[j].cancelled
    BY <1>1, <2>1, <2>2, RemovesLemma DEF Stops
  <2>3. CASE ~runs[j].cancelled
    BY <2>1, <2>3 DEF Stops, TypeInv
  <2> QED
    BY <2>1, <2>2, <2>3
<1>4. Stopped(j)
  <2>1. CASE runs[j].cancelled
    <3>1. PumpOn(Sets(j, "cancelled"), queue, [runs EXCEPT ![j] = NotRunning]) /\ Removes(rows[j].dest)
      BY <2>1 DEF Stops
    <3> QED
      BY <1>3, <3>1, EndLemma DEF Stopped, Elsewhere
  <2>2. CASE ~runs[j].cancelled /\ runs[j].paused
    <3>1. PumpOn(Sets(j, "paused"), queue, [runs EXCEPT ![j] = NotRunning]) /\ part' = part
      BY <2>2 DEF Stops
    <3> QED
      BY <1>3, <3>1, EndLemma DEF Stopped, Elsewhere
  <2>3. CASE ~runs[j].cancelled /\ ~runs[j].paused
    <3>1. PumpOn(Sets(j, "error"), queue, [runs EXCEPT ![j] = NotRunning]) /\ part' = part
      BY <2>3 DEF Stops
    <3> QED
      BY <1>3, <3>1, EndLemma DEF Stopped, Elsewhere
  <2> QED
    BY <1>2, <2>1, <2>2, <2>3
<1>5. OthersGoOn(j)
  BY <1>4 DEF Stopped, Ended
<1>6. TypeInv' /\ QueueInv'
  <2>1. disk' \in [Names -> Contents \cup {NoFile, UserFile}]
    BY <1>3 DEF TypeInv
  <2> QED
    BY <1>3, <1>5, <2>1, TypesFrom DEF OthersGoOn
<1> QED
  BY <1>4, <1>6 DEF Good, Step

LEMMA StopsAnewStep ==
  ASSUME TypeInv, QueueInv, NEW j \in Jobs, runs[j].at # "none", StopsAnew(j), SpentGrows
  PROVE  Good
<1>1. rows[j].dest \in Names
  BY Downloading
<1>2. /\ part' \in [Names -> Contents \cup {NoFile}] /\ UNCHANGED <<disk, version, saved>>
      /\ unsaved' \in BOOLEAN /\ Removes(rows[j].dest)
  BY <1>1, RemovesLemma DEF StopsAnew
<1>3. Ended(j, "error")
  BY <1>2, EndLemma DEF StopsAnew
<1>4. TypeInv' /\ QueueInv'
  <2>1. disk' \in [Names -> Contents \cup {NoFile, UserFile}]
    BY <1>2 DEF TypeInv
  <2> QED
    BY <1>2, <1>3, <2>1, TypesFrom DEF Ended, OthersGoOn
<1> QED
  BY <1>2, <1>3, <1>4 DEF Good, Step, Stopped, Elsewhere

LEMMA FinishesStep ==
  ASSUME TypeInv, QueueInv, NEW j \in Jobs, Finishes(j), SpentGrows,
         \/ runs[j].at = "opening" /\ runs[j].written = Length[version[j]]
         \/ runs[j].at = "closing" /\ Ends(j)
  PROVE  Good
<1>1. runs[j].at # "none" /\ rows[j].dest \in Names
  BY Downloading
<1>2. CASE part[rows[j].dest] = NoFile
  BY <1>1, <1>2, StopsStep DEF Finishes
<1>3. CASE part[rows[j].dest] # NoFile
  <2>1. /\ disk' = [disk EXCEPT ![rows[j].dest] = part[rows[j].dest]]
        /\ Removes(rows[j].dest) /\ UNCHANGED <<version, saved>> /\ unsaved' \in BOOLEAN
        /\ PumpOn(Sets(j, "done"), queue, [runs EXCEPT ![j] = NotRunning])
    BY <1>3 DEF Finishes
  <2>2. part' \in [Names -> Contents \cup {NoFile}]
    BY <1>1, <2>1, RemovesLemma
  <2>3. disk' \in [Names -> Contents \cup {NoFile, UserFile}]
    BY <1>1, <2>1 DEF TypeInv
  <2>4. Ended(j, "done")
    BY <1>1, <2>1, <2>2, EndLemma
  <2>5. TypeInv' /\ QueueInv'
    BY <2>1, <2>2, <2>3, <2>4, TypesFrom DEF Ended, OthersGoOn
  <2>6. Finished(j)
    BY <1>3, <2>1, <2>4 DEF Finished
  <2> QED
    BY <2>5, <2>6 DEF Good, Step
<1> QED
  BY <1>2, <1>3

LEMMA EnqueueStep ==
  ASSUME TypeInv, QueueInv, NEW j \in Jobs, Enqueue(j)
  PROVE  Good
<1>1. PICK n \in Names : /\ FreeName(n)
                         /\ Pump([rows EXCEPT ![j] = [status |-> "queued", dest |-> n]],
                                 Append(queue, j), runs)
  BY DEF Enqueue
<1>2. rows[j].status = "none" /\ UNCHANGED <<part, disk, version, saved, spent>>
  BY DEF Enqueue
<1>3. Started(j, n)
  BY <1>1, <1>2, StartLemma
<1>4. SpentGrows
  BY <1>2, NothingSpent
<1>5. unsaved' \in BOOLEAN
  BY DEF Enqueue, TypeInv
<1>6. TypeInv' /\ QueueInv'
  <2>1. /\ part' \in [Names -> Contents \cup {NoFile}]
        /\ disk' \in [Names -> Contents \cup {NoFile, UserFile}]
    BY <1>2 DEF TypeInv
  <2> QED
    BY <1>2, <1>3, <1>4, <1>5, <2>1, TypesFrom DEF Started, OthersGoOn
<1> QED
  BY <1>1, <1>2, <1>3, <1>4, <1>6 DEF Good, Step, NewJob, Elsewhere

LEMMA ResumeStep ==
  ASSUME TypeInv, QueueInv, NEW j \in Jobs, Resume(j)
  PROVE  Good
<1>1. /\ rows[j].status \in {"paused", "error", "cancelled"} /\ Resumable(j)
      /\ Pump(Sets(j, "queued"), Append(queue, j), runs)
      /\ UNCHANGED <<part, disk, version, saved>> /\ unsaved' = TRUE
  BY DEF Resume, Resumable
<1>2. rows \in [Jobs -> Row] /\ rows[j] \in Row /\ rows[j].dest \in Names
  BY <1>1 DEF TypeInv, IsRow
<1>3. Sets(j, "queued") = [rows EXCEPT ![j] = [status |-> "queued", dest |-> rows[j].dest]]
  <2>1. [rows[j] EXCEPT !.status = "queued"] = [status |-> "queued", dest |-> rows[j].dest]
    BY <1>2 DEF Row
  <2> QED
    BY <2>1 DEF Sets
<1>4. Started(j, rows[j].dest)
  BY <1>1, <1>2, <1>3, StartLemma
<1>5. SpentGrows /\ (rows[j].status = "cancelled" => spent'.revivals > 0)
  <2>1. CASE rows[j].status = "cancelled"
    BY <2>1, SpendLemma DEF Resume, Kinds
  <2>2. CASE rows[j].status # "cancelled"
    BY <2>2, NothingSpent DEF Resume
  <2> QED
    BY <2>1, <2>2
<1>6. TypeInv' /\ QueueInv'
  <2>1. /\ part' \in [Names -> Contents \cup {NoFile}]
        /\ disk' \in [Names -> Contents \cup {NoFile, UserFile}]
    BY <1>1 DEF TypeInv
  <2> QED
    BY <1>1, <1>4, <1>5, <2>1, TypesFrom DEF Started, OthersGoOn
<1> QED
  BY <1>1, <1>4, <1>5, <1>6 DEF Good, Step, Again, Elsewhere

\* A transfer that goes on in another state keeps the types and the queue.
LEMMA SameQueueStep ==
  ASSUME TypeInv, QueueInv, NEW j \in Jobs, NEW r \in Run, runs[j].at # "none", r.at # "none",
         runs' = [runs EXCEPT ![j] = r], part' \in [Names -> Contents \cup {NoFile}],
         UNCHANGED <<rows, queue, disk, version, saved, unsaved>>, SpentGrows
  PROVE  TypeInv' /\ QueueInv'
<1>1. QueueInv' /\ runs' \in [Jobs -> Run]
  BY RunLemma
<1> QED
  BY <1>1 DEF TypeInv, SpentGrows

\* A job at rest that is paused or cancelled keeps them too.
LEMMA RestStep ==
  ASSUME TypeInv, QueueInv, NEW j \in Jobs, NEW st \in {"paused", "cancelled"},
         j \notin Running, rows[j].status # "none",
         rows' = Sets(j, st), queue' = Without(queue, j),
         part' \in [Names -> Contents \cup {NoFile}], unsaved' = TRUE,
         UNCHANGED <<runs, disk, version, saved>>, SpentGrows
  PROVE  TypeInv' /\ QueueInv'
<1>1. QueueInv'
  BY RestLemma
<1>2. rows' \in [Jobs -> Row] /\ \A i \in Jobs : IsRow(rows'[i])
  BY SetsLemma
<1> QED
  BY <1>1, <1>2 DEF TypeInv, SpentGrows

LEMMA PauseStep ==
  ASSUME TypeInv, QueueInv, NEW j \in Jobs, Pause(j)
  PROVE  Good
<1>1. SpentGrows
  BY SpendLemma DEF Pause, Kinds
<1>2. runs[j] \in Run /\ runs \in [Jobs -> Run]
  BY DEF TypeInv
<1>3. CASE j \in Running /\ runs' = [runs EXCEPT ![j].paused = TRUE]
           /\ UNCHANGED <<rows, queue, unsaved>>
  <2> DEFINE r == [runs[j] EXCEPT !.paused = TRUE]
  <2>1. r \in Run /\ r.at = runs[j].at /\ r.written = runs[j].written /\ r.version = runs[j].version
        /\ r.told = runs[j].told
    BY <1>2 DEF Run
  <2>2. runs' = [runs EXCEPT ![j] = r]
    BY <1>3
  <2>3. UNCHANGED <<files, version, saved>> /\ runs[j].at # "none"
    BY <1>3 DEF Pause, Running
  <2> HIDE DEF r
  <2>4. part' \in [Names -> Contents \cup {NoFile}]
    BY <2>3 DEF TypeInv, files
  <2>5. TypeInv' /\ QueueInv'
    BY <1>1, <1>3, <2>1, <2>2, <2>3, <2>4, SameQueueStep DEF files
  <2>6. GoesOn(j)
    BY <1>3, <2>1, <2>2, <2>3 DEF GoesOn, Elsewhere, files
  <2> QED
    BY <1>1, <2>5, <2>6 DEF Good, Step
<1>4. CASE j \notin Running /\ PauseAtRest(j)
  <2>1. /\ rows' = Sets(j, "paused") /\ queue' = Without(queue, j) /\ unsaved' = TRUE
        /\ UNCHANGED <<runs, part, disk, version, saved>>
    BY <1>4 DEF PauseAtRest, Pause, files
  <2>2. runs[j].at = "none"
    BY <1>4 DEF Running
  <2>3. rows[j].status = "queued"
    BY <2>2 DEF Pause, QueueInv, QueueOf
  <2>4. part' \in [Names -> Contents \cup {NoFile}]
    BY <2>1 DEF TypeInv
  <2>5. TypeInv' /\ QueueInv'
    BY <1>1, <1>4, <2>1, <2>3, <2>4, RestStep
  <2>6. Rests(j)
    BY <2>1, <2>2, <2>3 DEF Rests, Elsewhere
  <2> QED
    BY <1>1, <2>5, <2>6 DEF Good, Step
<1> QED
  BY <1>3, <1>4 DEF Pause

LEMMA CancelStep ==
  ASSUME TypeInv, QueueInv, NEW j \in Jobs, Cancel(j)
  PROVE  Good
<1>1. SpentGrows /\ (rows[j].status = "cancelled" => spent'.recancels > 0)
  <2>1. CASE rows[j].status = "cancelled"
    BY <2>1, SpendLemma DEF Cancel, Kinds
  <2>2. CASE rows[j].status # "cancelled"
    BY <2>2, SpendLemma DEF Cancel, Kinds
  <2> QED
    BY <2>1, <2>2
<1>2. runs[j] \in Run /\ runs \in [Jobs -> Run]
  BY DEF TypeInv
<1>3. CASE j \in Running /\ runs' = [runs EXCEPT ![j].cancelled = TRUE]
           /\ UNCHANGED <<rows, queue, part, unsaved>>
  <2> DEFINE r == [runs[j] EXCEPT !.cancelled = TRUE]
  <2>1. r \in Run /\ r.at = runs[j].at /\ r.written = runs[j].written /\ r.version = runs[j].version
        /\ r.told = runs[j].told
    BY <1>2 DEF Run
  <2>2. runs' = [runs EXCEPT ![j] = r]
    BY <1>3
  <2>3. UNCHANGED <<disk, version, saved>> /\ runs[j].at # "none"
    BY <1>3 DEF Cancel, Running
  <2> HIDE DEF r
  <2>4. part' \in [Names -> Contents \cup {NoFile}]
    BY <1>3 DEF TypeInv
  <2>5. TypeInv' /\ QueueInv'
    BY <1>1, <1>3, <2>1, <2>2, <2>3, <2>4, SameQueueStep
  <2>6. GoesOn(j)
    BY <1>3, <2>1, <2>2, <2>3 DEF GoesOn, Elsewhere
  <2> QED
    BY <1>1, <2>5, <2>6 DEF Good, Step
<1>4. CASE j \notin Running /\ CancelAtRest(j)
  <2>1. /\ rows' = Sets(j, "cancelled") /\ queue' = Without(queue, j) /\ unsaved' = TRUE
        /\ Removes(rows[j].dest) /\ UNCHANGED <<runs, disk, version, saved>>
    BY <1>4 DEF CancelAtRest, Cancel
  <2>2. runs[j].at = "none"
    BY <1>4 DEF Running
  <2>3. rows[j].status \in {"queued", "paused", "error", "cancelled"} /\ rows[j].dest \in Names
    BY <2>2 DEF Cancel, QueueInv, QueueOf, TypeInv, IsRow, Row
  <2>4. part' \in [Names -> Contents \cup {NoFile}]
    BY <2>1, <2>3, RemovesLemma
  <2>5. TypeInv' /\ QueueInv'
    BY <1>1, <1>4, <2>1, <2>3, <2>4, RestStep
  <2>6. Rests(j)
    BY <1>1, <2>1, <2>2, <2>3 DEF Rests, Elsewhere
  <2> QED
    BY <1>1, <2>5, <2>6 DEF Good, Step
<1> QED
  BY <1>3, <1>4 DEF Cancel

\* The length of a version of a file.
LEMMA Lengths ==
  ASSUME TypeInv, NEW j \in Jobs
  PROVE  /\ Length[version[j]] \in Nat \ {0} /\ Length[runs[j].version] \in Nat \ {0}
         /\ Length[0] \in Nat \ {0}
         /\ runs[j].written \in Nat /\ runs[j].version \in 0..MaxChanges
<1>1. version[j] \in 0..MaxChanges /\ runs[j].version \in 0..MaxChanges /\ 0 \in 0..MaxChanges
      /\ runs[j].written \in Nat
  BY DownloadsAssumption DEF TypeInv, Run
<1> QED
  BY <1>1, DownloadsAssumption

\* The bytes of an answer begin, or the partial file goes.
LEMMA ServedStep ==
  ASSUME TypeInv, QueueInv, NEW j \in Jobs, NEW from \in Nat, NEW told \in BOOLEAN,
         runs[j].at = "opening", from < Length[version[j]], Served(j, from, told),
         SpentGrows, told \/ spent'.untold > 0
  PROVE  Good
<1>1. CASE from = runs[j].written \/ from = 0
  <2>1. Sinks(j, from, told) /\ UNCHANGED <<rows, queue, disk, version, saved, unsaved>>
    BY <1>1 DEF Served
  <2> DEFINE r == [runs[j] EXCEPT !.at = "reading", !.written = from,
                                  !.version = version[j], !.told = told]
  <2>2. runs[j] \in Run /\ runs \in [Jobs -> Run] /\ version[j] \in 0..MaxChanges
    BY DEF TypeInv
  <2>3. r \in Run /\ r.at = "reading"
    BY <2>2 DEF Run
  <2>4. runs' = [runs EXCEPT ![j] = r]
    BY <2>1 DEF Sinks
  <2> HIDE DEF r
  <2>5. rows[j].dest \in Names
    BY Downloading
  <2>6. part' \in [Names -> Contents \cup {NoFile}]
    <3>1. <<>> \in Contents
      BY DEF Contents
    <3> QED
      BY <2>1, <2>5, <3>1 DEF Sinks, TypeInv
  <2>7. TypeInv' /\ QueueInv'
    BY <2>1, <2>3, <2>4, <2>6, SameQueueStep
  <2>8. Opens(j)
    BY <1>1, <2>1 DEF Opens, Elsewhere
  <2> QED
    BY <2>7, <2>8 DEF Good, Step
<1>2. CASE ~(from = runs[j].written \/ from = 0)
  BY <1>2, StopsAnewStep DEF Served
<1> QED
  BY <1>1, <1>2

LEMMA AnswersStep ==
  ASSUME TypeInv, QueueInv, NEW j \in Jobs, Answers(j)
  PROVE  Good
<1>1. runs[j].at = "opening" /\ runs[j].written < Length[version[j]]
  BY DEF Answers
<1>2. CASE \E from \in 0..(Length[version[j]] - 1) :
             /\ IF from = runs[j].written THEN UNCHANGED spent ELSE Spend("faults", MaxFaults)
             /\ Served(j, from, TRUE)
  <2>1. PICK from \in 0..(Length[version[j]] - 1) :
             /\ IF from = runs[j].written THEN UNCHANGED spent ELSE Spend("faults", MaxFaults)
             /\ Served(j, from, TRUE)
    BY <1>2
  <2>2. SpentGrows
    <3>1. CASE from = runs[j].written
      BY <2>1, <3>1, NothingSpent
    <3>2. CASE from # runs[j].written
      BY <2>1, <3>2, SpendLemma DEF Kinds
    <3> QED
      BY <3>1, <3>2
  <2>3. from \in Nat /\ from < Length[version[j]]
    BY <2>1, Lengths
  <2> QED
    BY <1>1, <2>1, <2>2, <2>3, ServedStep
<1>3. CASE Spend("untold", MaxUntold) /\ Served(j, runs[j].written, FALSE)
  <2>1. SpentGrows /\ spent'.untold > 0
    BY <1>3, SpendLemma DEF Kinds
  <2>2. runs[j].written \in Nat
    BY Lengths
  <2> QED
    BY <1>1, <1>3, <2>1, <2>2, ServedStep
<1> QED
  BY <1>2, <1>3 DEF Answers

LEMMA ReadsStep ==
  ASSUME TypeInv, QueueInv, NEW j \in Jobs, ReadsChunk(j)
  PROVE  Good
<1> DEFINE next == runs[j].written + 1
           byte == [job |-> j, version |-> runs[j].version, at |-> next]
           n == rows[j].dest
<1>1. runs[j] \in Run /\ runs \in [Jobs -> Run] /\ runs[j].at = "reading"
  BY DEF TypeInv, ReadsChunk
<1>2. next \in Nat \ {0}
  BY <1>1 DEF Run
<1>3. byte \in Byte
  BY <1>1, <1>2 DEF Byte, Run
<1> DEFINE r == [runs[j] EXCEPT !.written = next]
<1>4. runs' = [runs EXCEPT ![j] = r]
  BY DEF ReadsChunk
<1>5. r \in Run /\ r.at = "reading"
  BY <1>1, <1>2 DEF Run
<1>6. /\ part' = [part EXCEPT ![n] = IF part[n] = NoFile THEN part[n] ELSE Append(part[n], byte)]
      /\ UNCHANGED <<rows, queue, disk, version, saved, unsaved, spent>>
  BY DEF ReadsChunk
<1> HIDE DEF r, next, byte
<1>7. n \in Names
  BY <1>1, Downloading
<1>8. part' \in [Names -> Contents \cup {NoFile}]
  <2>1. part[n] # NoFile => Append(part[n], byte) \in Contents
    BY <1>3, <1>7 DEF TypeInv, Contents
  <2> QED
    BY <1>6, <1>7, <2>1 DEF TypeInv
<1>9. SpentGrows
  BY <1>6, NothingSpent
<1>10. TypeInv' /\ QueueInv'
  BY <1>1, <1>4, <1>5, <1>6, <1>8, <1>9, SameQueueStep
<1> QED
  BY <1>6, <1>9, <1>10 DEF Good, Step, Grows, Elsewhere

LEMMA BodyEndsStep ==
  ASSUME TypeInv, QueueInv, NEW j \in Jobs, BodyEnds(j)
  PROVE  Good
<1> DEFINE r == [runs[j] EXCEPT !.at = "closing"]
<1>1. runs[j] \in Run /\ runs \in [Jobs -> Run] /\ runs[j].at = "reading"
  BY DEF TypeInv, BodyEnds
<1>2. /\ r \in Run /\ r.at = "closing" /\ r.written = runs[j].written
      /\ r.version = runs[j].version /\ r.told = runs[j].told
  BY <1>1 DEF Run
<1>3. runs' = [runs EXCEPT ![j] = r] /\ UNCHANGED <<rows, queue, part, disk, version, saved, unsaved>>
  BY DEF BodyEnds, files
<1> HIDE DEF r
<1>4. SpentGrows
  <2>1. CASE Whole(j)
    BY <2>1, NothingSpent DEF BodyEnds
  <2>2. CASE ~Whole(j)
    BY <2>2, SpendLemma DEF BodyEnds, Kinds
  <2> QED
    BY <2>1, <2>2
<1>5. part' \in [Names -> Contents \cup {NoFile}]
  BY <1>3 DEF TypeInv
<1>6. TypeInv' /\ QueueInv'
  BY <1>1, <1>2, <1>3, <1>4, <1>5, SameQueueStep
<1>7. GoesOn(j)
  BY <1>1, <1>2, <1>3 DEF GoesOn, Elsewhere
<1> QED
  BY <1>4, <1>6, <1>7 DEF Good, Step

LEMMA TransferStep ==
  ASSUME TypeInv, QueueInv, NEW j \in Jobs, Transfer(j)
  PROVE  Good
<1>1. CASE Fails(j)
  <2>1. SpentGrows
    <3>1. CASE Aborted(j)
      BY <1>1, <3>1, NothingSpent DEF Fails
    <3>2. CASE ~Aborted(j)
      BY <1>1, <3>2, SpendLemma DEF Fails, Kinds
    <3> QED
      BY <3>1, <3>2
  <2> QED
    BY <1>1, <2>1, StopsStep DEF Fails
<1>2. CASE PastTheEnd(j)
  <2>1. runs[j].at = "opening"
    BY <1>2 DEF PastTheEnd
  <2>2. CASE runs[j].written = Length[version[j]] /\ Finishes(j) /\ UNCHANGED spent
    BY <2>1, <2>2, NothingSpent, FinishesStep
  <2>3. CASE StopsAnew(j) /\ UNCHANGED spent
    BY <2>1, <2>3, NothingSpent, StopsAnewStep
  <2>4. CASE Spend("untold", MaxUntold) /\ StopsAnew(j)
    <3>1. SpentGrows
      BY <2>4, SpendLemma DEF Kinds
    <3> QED
      BY <2>1, <2>4, <3>1, StopsAnewStep
  <2> QED
    BY <1>2, <2>2, <2>3, <2>4 DEF PastTheEnd
<1>3. CASE SinkCloses(j)
  <2>1. SpentGrows /\ runs[j].at = "closing"
    BY <1>3, NothingSpent DEF SinkCloses
  <2>2. CASE Ends(j)
    BY <1>3, <2>1, <2>2, FinishesStep DEF SinkCloses
  <2>3. CASE ~Ends(j)
    BY <1>3, <2>1, <2>3, StopsStep DEF SinkCloses
  <2> QED
    BY <2>2, <2>3
<1> QED
  BY <1>1, <1>2, <1>3, AnswersStep, ReadsStep, BodyEndsStep DEF Transfer

LEMMA CrashStep ==
  ASSUME TypeInv, QueueInv, Crash
  PROVE  Good
<1> DEFINE back(j) == IF saved[j].status \in {"queued", "downloading"}
                      THEN [saved[j] EXCEPT !.status = "paused"] ELSE saved[j]
<1>1. /\ rows' = [j \in Jobs |-> back(j)] /\ queue' = <<>>
      /\ runs' = [j \in Jobs |-> NotRunning] /\ unsaved' = FALSE
      /\ UNCHANGED <<part, disk, version, saved>>
  BY DEF Crash, files
<1>2. SpentGrows /\ spent'.crashes > 0
  BY SpendLemma DEF Crash, Kinds
<1>3. \A j \in Jobs : back(j) \in Row /\ IsRow(back(j)) /\ back(j).status # "downloading"
  <2> SUFFICES ASSUME NEW j \in Jobs
               PROVE  back(j) \in Row /\ IsRow(back(j)) /\ back(j).status # "downloading"
    OBVIOUS
  <2>1. saved[j] \in Row /\ IsRow(saved[j])
    BY DEF TypeInv
  <2>2. [saved[j] EXCEPT !.status = "paused"] \in Row
        /\ [saved[j] EXCEPT !.status = "paused"].dest = saved[j].dest
        /\ [saved[j] EXCEPT !.status = "paused"].status = "paused"
    BY <2>1 DEF Row
  <2> QED
    BY <2>1, <2>2 DEF IsRow
<1> HIDE DEF back
<1>4. rows' \in [Jobs -> Row] /\ \A j \in Jobs : IsRow(rows'[j]) /\ rows'[j].status # "downloading"
  BY <1>1, <1>3
<1>5. NotRunning \in Run /\ NotRunning.at = "none"
  BY DownloadsAssumption DEF NotRunning, Run
<1>6. runs' \in [Jobs -> Run] /\ \A j \in Jobs : runs'[j].at = "none"
  BY <1>1, <1>5
<1>7. TypeInv'
  BY <1>1, <1>2, <1>4, <1>6 DEF TypeInv, SpentGrows
<1>8. TransfersOf(runs') = {}
  BY <1>6 DEF TransfersOf
<1>9. IsFiniteSet(TransfersOf(runs')) /\ Cardinality(TransfersOf(runs')) <= Concurrency
  <2>1. Cardinality(TransfersOf(runs')) = 0 /\ IsFiniteSet(TransfersOf(runs'))
    BY <1>8, FS_EmptySet
  <2> QED
    BY <2>1, DownloadsAssumption
<1>10. QueueInv'
  BY <1>1, <1>4, <1>6, <1>9 DEF QueueInv, QueueOf, NoneWaitsInVain
<1> QED
  BY <1>2, <1>7, <1>10 DEF Good, Step

\* Every step keeps the types and the queue, and is one of those above.
LEMMA StepLemma ==
  ASSUME TypeInv, VersionInv, QueueInv, Next
  PROVE  Good
<1>1. ASSUME NEW j \in Jobs, Enqueue(j) \/ Pause(j) \/ Resume(j) \/ Cancel(j)
      PROVE  Good
  BY <1>1, EnqueueStep, PauseStep, ResumeStep, CancelStep
<1>2. ASSUME NEW j \in Jobs, Transfer(j) PROVE Good
  BY <1>2, TransferStep
<1>3. ASSUME UNCHANGED memory PROVE QueueInv' /\ rows' = rows /\ runs' = runs
  <2>1. rows' = rows /\ runs' = runs /\ queue' = queue
    BY <1>3 DEF memory
  <2>2. Running' = Running
    BY <2>1 DEF Running
  <2> QED
    BY <2>1, <2>2 DEF QueueInv, NoneWaitsInVain
<1>4. CASE Persist
  <2>1. /\ UNCHANGED memory /\ saved' = rows /\ unsaved' = FALSE
        /\ UNCHANGED <<part, disk, version, spent>>
    BY <1>4 DEF Persist, files
  <2>2. TypeInv'
    BY <1>3, <2>1 DEF TypeInv
  <2> QED
    BY <1>3, <2>1, <2>2, NothingSpent DEF Good, Step, Memory
<1>5. ASSUME NEW n \in Names, UserSaves(n) PROVE Good
  <2>1. /\ UNCHANGED memory /\ disk[n] = NoFile /\ disk' = [disk EXCEPT ![n] = UserFile]
        /\ UNCHANGED <<part, version, saved, unsaved>>
    BY <1>5 DEF UserSaves
  <2>2. SpentGrows
    BY <1>5, SpendLemma DEF UserSaves, Kinds
  <2>3. TypeInv'
    BY <1>3, <2>1, <2>2 DEF TypeInv, SpentGrows
  <2> QED
    BY <1>3, <2>1, <2>2, <2>3 DEF Good, Step, Memory
<1>6. ASSUME NEW j \in Jobs, ServerChanges(j) PROVE Good
  <2>1. /\ UNCHANGED memory /\ UNCHANGED <<part, disk, saved, unsaved>>
        /\ version' = [version EXCEPT ![j] = version[j] + 1] /\ Spend("changes", MaxChanges)
    BY <1>6 DEF ServerChanges, files
  <2>2. SpentGrows /\ spent.changes \in Nat /\ spent.changes < MaxChanges
        /\ spent' = [spent EXCEPT !.changes = spent.changes + 1]
    BY <2>1, SpendLemma DEF Kinds, Spend, TypeInv, Spent
  <2>3. spent'.changes = spent.changes + 1
    BY <2>2 DEF TypeInv, Spent
  <2>4. version[j] + 1 \in 0..MaxChanges
    BY <2>2, DownloadsAssumption, SMTT(30) DEF VersionInv, TypeInv
  <2>5. TypeInv'
    BY <1>3, <2>1, <2>2, <2>4 DEF TypeInv, SpentGrows
  <2> QED
    BY <1>3, <2>1, <2>2, <2>3, <2>5 DEF Good, Step, Memory
<1> QED
  BY <1>1, <1>2, <1>4, <1>5, <1>6, CrashStep DEF Next

---------------------------------------------------------------------------
(* The other parts of the invariant.                                       *)

\* A job that another's step lets begin keeps its name and its partial file.
LEMMA OthersKeep ==
  ASSUME NEW j \in Jobs, OthersGoOn(j), NEW i \in Jobs \ {j}
  PROVE  /\ rows'[i].dest = rows[i].dest
         /\ rows'[i].status \in Live <=> rows[i].status \in Live
         /\ rows'[i].status \in Begun <=> rows[i].status \in Begun
         /\ rows'[i].status = "done" <=> rows[i].status = "done"
BY DEF OthersGoOn, Same, Begins, Live, Begun

LEMMA VersionStep == ASSUME TypeInv, VersionInv, Good PROVE VersionInv'
<1>1. /\ version \in [Jobs -> 0..MaxChanges] /\ version' \in [Jobs -> 0..MaxChanges]
      /\ spent.changes \in Nat /\ spent'.changes \in Nat /\ spent'.changes >= spent.changes
  BY DEF TypeInv, Good, SpentGrows, Spent, Kinds
<1>2. CASE version' = version
  BY <1>1, <1>2, DownloadsAssumption DEF VersionInv
<1>3. CASE /\ spent'.changes = spent.changes + 1
           /\ \E j \in Jobs : version' = [version EXCEPT ![j] = version[j] + 1]
  BY <1>1, <1>3, DownloadsAssumption DEF VersionInv
<1>4. version' = version \/ (/\ spent'.changes = spent.changes + 1
           /\ \E j \in Jobs : version' = [version EXCEPT ![j] = version[j] + 1])
  BY DEF Good, Step, NewJob, Again, Stopped, Finished, GoesOn, Rests, Opens, Grows, Elsewhere, Crash
<1> QED
  BY <1>2, <1>3, <1>4

\* Rows stay distinct when no name is taken.
LEMMA DistinctKept ==
  ASSUME NEW r, NEW s, Distinct(r),
         \A i \in Jobs : s[i].status \in Live => r[i].status \in Live /\ s[i].dest = r[i].dest
  PROVE  Distinct(s)
BY DEF Distinct

LEMMA NamesStep == ASSUME TypeInv, QueueInv, NamesInv, Good PROVE NamesInv'
<1> SUFFICES ASSUME spent'.revivals = 0 PROVE Distinct(rows)' /\ Distinct(saved)'
  BY DEF NamesInv
<1>1. Distinct(rows) /\ Distinct(saved)
  BY Regimes DEF NamesInv, Good
<1>2. ASSUME UNCHANGED rows PROVE Distinct(rows)'
  BY <1>1, <1>2 DEF Distinct
<1>3. ASSUME UNCHANGED saved PROVE Distinct(saved)'
  BY <1>1, <1>3 DEF Distinct
<1>4. ASSUME NEW j \in Jobs, OthersGoOn(j),
             rows'[j].status \in Live => rows[j].status \in Live /\ rows'[j].dest = rows[j].dest
      PROVE  Distinct(rows)'
  <2>1. \A i \in Jobs : rows'[i].status \in Live => rows[i].status \in Live /\ rows'[i].dest = rows[i].dest
    BY <1>4, OthersKeep
  <2> QED
    BY <1>1, <2>1, DistinctKept
<1>5. ASSUME NEW j \in Jobs, NewJob(j) PROVE Distinct(rows)' /\ Distinct(saved)'
  <2>1. PICK n \in Names : FreeName(n) /\ Started(j, n)
    BY <1>5 DEF NewJob
  <2>2. OthersGoOn(j) /\ rows'[j].dest = n
    BY <2>1 DEF Started, Begins
  <2>3. \A i \in Jobs : rows[i].status \in Live => rows[i].dest # n
    BY <2>1 DEF FreeName, Claimed, Live
  <2>4. \A i \in Jobs \ {j} : rows'[i].status \in Live => rows[i].status \in Live /\ rows'[i].dest = rows[i].dest
    BY <2>2, OthersKeep
  <2>5. Distinct(rows)'
    BY <1>1, <2>2, <2>3, <2>4 DEF Distinct
  <2> QED
    BY <1>3, <1>5, <2>5 DEF NewJob, Elsewhere
<1>6. ASSUME NEW j \in Jobs, Again(j) PROVE Distinct(rows)' /\ Distinct(saved)'
  <2>1. rows[j].status \in {"paused", "error"} /\ Started(j, rows[j].dest)
    BY <1>6 DEF Again, Resumable
  <2>2. OthersGoOn(j) /\ rows'[j].dest = rows[j].dest /\ rows[j].status \in Live
    BY <2>1 DEF Started, Begins, Live
  <2> QED
    BY <1>3, <1>4, <1>6, <2>2 DEF Again, Elsewhere
<1>7. ASSUME NEW j \in Jobs, Stopped(j) \/ Finished(j)
      PROVE  Distinct(rows)' /\ Distinct(saved)'
  <2>1. OthersGoOn(j) /\ rows'[j].dest = rows[j].dest /\ saved' = saved
    BY <1>7 DEF Stopped, Finished, Ended, Elsewhere
  <2>2. rows[j].status = "downloading"
    BY <1>7, Downloading DEF Stopped, Finished
  <2> QED
    BY <1>3, <1>4, <1>7, <2>1, <2>2 DEF Live
<1>8. ASSUME NEW j \in Jobs, Rests(j) PROVE Distinct(rows)' /\ Distinct(saved)'
  <2>1. PICK st \in {"paused", "cancelled"} : /\ rows' = Sets(j, st)
                                              /\ st = "paused" => rows[j].status = "queued"
                                              /\ rows[j].status # "none"
    BY <1>8 DEF Rests
  <2>2. \A i \in Jobs : rows'[i].status \in Live => rows[i].status \in Live /\ rows'[i].dest = rows[i].dest
    BY <2>1, SetsLemma DEF Live
  <2> QED
    BY <1>1, <1>3, <1>8, <2>2, DistinctKept DEF Rests, Elsewhere
<1>9. CASE Crash
  <2>1. rows' = [j \in Jobs |-> IF saved[j].status \in {"queued", "downloading"}
                                THEN [saved[j] EXCEPT !.status = "paused"] ELSE saved[j]]
        /\ saved' = saved
    BY <1>9 DEF Crash
  <2>2. \A j \in Jobs : saved[j] \in Row
    BY DEF TypeInv
  <2>3. \A i \in Jobs : rows'[i].status \in Live => saved[i].status \in Live /\ rows'[i].dest = saved[i].dest
    BY <2>1, <2>2 DEF Row, Live
  <2> QED
    BY <1>1, <1>3, <2>1, <2>3, DistinctKept
<1>10. CASE Memory /\ saved' = rows
  BY <1>1, <1>2, <1>10 DEF Memory, Distinct
<1>11. CASE rows' = rows /\ saved' = saved
  BY <1>2, <1>3, <1>11
<1> QED
  BY <1>5, <1>6, <1>7, <1>8, <1>9, <1>10, <1>11
     DEF Good, Step, GoesOn, Opens, Grows, Elsewhere, Memory

LEMMA CleanStep == ASSUME TypeInv, QueueInv, CleanInv, Good PROVE CleanInv'
<1> SUFFICES ASSUME spent'.crashes = 0, NEW n \in Names, part'[n] # NoFile
             PROVE  \E i \in Jobs : rows'[i].dest = n /\ rows'[i].status \in Begun
  BY DEF CleanInv
<1>1. part[n] # NoFile => \E i \in Jobs : rows[i].dest = n /\ rows[i].status \in Begun
  BY Regimes DEF CleanInv, Good
<1>2. part \in [Names -> Contents \cup {NoFile}]
  BY DEF TypeInv
<1>3. ASSUME NEW j \in Jobs, OthersGoOn(j), part[n] # NoFile,
             \/ rows'[j].status \in Begun /\ rows'[j].dest = rows[j].dest
             \/ rows[j].status \notin Begun
             \/ rows[j].dest # n
      PROVE  \E i \in Jobs : rows'[i].dest = n /\ rows'[i].status \in Begun
  BY <1>1, <1>3, OthersKeep
<1>4. ASSUME NEW j \in Jobs, NewJob(j)
      PROVE  \E i \in Jobs : rows'[i].dest = n /\ rows'[i].status \in Begun
  <2>1. OthersGoOn(j) /\ rows[j].status \notin Begun /\ part' = part
    BY <1>4 DEF NewJob, Started, Begun, Live
  <2> QED
    BY <1>3, <2>1
<1>5. ASSUME NEW j \in Jobs, Again(j)
      PROVE  \E i \in Jobs : rows'[i].dest = n /\ rows'[i].status \in Begun
  <2>1. OthersGoOn(j) /\ rows'[j].status \in Begun /\ rows'[j].dest = rows[j].dest /\ part' = part
    BY <1>5 DEF Again, Started, Begins, Begun, Live
  <2> QED
    BY <1>3, <2>1
<1>6. ASSUME NEW j \in Jobs, Stopped(j) \/ Finished(j)
      PROVE  \E i \in Jobs : rows'[i].dest = n /\ rows'[i].status \in Begun
  <2>1. OthersGoOn(j) /\ rows'[j].dest = rows[j].dest /\ rows[j].dest \in Names
    BY <1>6, Downloading DEF Stopped, Finished, Ended
  <2>2. CASE Removes(rows[j].dest)
    <3>1. rows[j].dest # n /\ part[n] # NoFile
      BY <2>1, <2>2, RemovesLemma
    <3> QED
      BY <1>3, <2>1, <3>1
  <2>3. CASE part' = part /\ rows'[j].status \in {"paused", "error"}
    BY <1>3, <2>1, <2>3 DEF Begun, Live
  <2> QED
    BY <1>6, <2>2, <2>3 DEF Stopped, Finished, Ended
<1>7. ASSUME NEW j \in Jobs, Rests(j)
      PROVE  \E i \in Jobs : rows'[i].dest = n /\ rows'[i].status \in Begun
  <2>1. CASE rows[j].status = "queued" /\ rows' = Sets(j, "paused") /\ part' = part
    <3>1. PICK i \in Jobs : rows[i].dest = n /\ rows[i].status \in Begun
      BY <1>1, <2>1
    <3>2. rows'[i].dest = n /\ rows'[i].status \in Begun
      <4>1. rows'[i].dest = rows[i].dest /\ rows'[j].status = "paused"
            /\ (i # j => rows'[i] = rows[i])
        BY <2>1, SetsLemma
      <4> QED
        BY <3>1, <4>1 DEF Begun, Live
    <3> QED
      BY <3>2
  <2>2. CASE rows[j].status # "none" /\ rows' = Sets(j, "cancelled") /\ Removes(rows[j].dest)
    <3>1. rows[j].dest \in Names
      BY <2>2 DEF TypeInv, IsRow
    <3>2. rows[j].dest # n /\ part[n] # NoFile
      BY <2>2, <3>1, RemovesLemma
    <3>3. PICK i \in Jobs : rows[i].dest = n /\ rows[i].status \in Begun
      BY <1>1, <3>2
    <3>4. rows'[i].dest = n /\ rows'[i].status \in Begun
      BY <2>2, <3>2, <3>3, SetsLemma
    <3> QED
      BY <3>4
  <2> QED
    BY <1>7, <2>1, <2>2 DEF Rests
<1>8. ASSUME NEW j \in Jobs, Opens(j) \/ Grows(j)
      PROVE  \E i \in Jobs : rows'[i].dest = n /\ rows'[i].status \in Begun
  <2>1. runs[j].at # "none" /\ rows' = rows
        /\ (part'[n] = part[n] \/ n = rows[j].dest)
    BY <1>2, <1>8 DEF Opens, Sinks, Grows, ReadsChunk
  <2>2. rows[j].status \in Begun
    BY <2>1, Downloading DEF Begun, Live
  <2> QED
    BY <1>1, <2>1, <2>2
<1>9. CASE rows' = rows /\ part' = part
  BY <1>1, <1>9
<1>10. ~(spent'.crashes > 0)
  BY DEF Good, SpentGrows, Spent
<1> QED
  BY <1>4, <1>5, <1>6, <1>7, <1>8, <1>9, <1>10 DEF Good, Step, GoesOn, Memory

\* A transfer's job is one that has begun.
LEMMA TransfersBegun ==
  ASSUME TypeInv, QueueInv, NEW i \in Jobs, rows[i].status \notin Begun
  PROVE  runs[i].at = "none"
BY Downloading DEF Begun, Live

\* The job with a name is the only one that has begun under it.
LEMMA OneName ==
  ASSUME TypeInv, Distinct(rows), NEW i \in Jobs, NEW j \in Jobs, i # j,
         rows[i].status \in Live, rows[j].status \in Live
  PROVE  rows[i].dest # rows[j].dest
BY DEF Distinct

\* The first bytes of a file are so whatever comes after.
LEMMA PrefixStays ==
  ASSUME NEW j \in Jobs, NEW f, NEW v \in Nat, NEW w \in Nat, v <= w, IsPrefix(f, j, v)
  PROVE  IsPrefix(f, j, w)
<1>1. \A i \in DOMAIN f : f[i].version \in Nat
  <2>1. \A i \in DOMAIN f : f[i] \in Byte
    BY DEF IsPrefix, Contents
  <2> QED
    BY <2>1, DownloadsAssumption DEF Byte
<1>2. \A i \in DOMAIN f : f[i].version <= w
  BY <1>1 DEF IsPrefix
<1> QED
  BY <1>2 DEF IsPrefix

\* The version that an answer brought is one of those there have been.
LEMMA Versions ==
  ASSUME TypeInv, NEW j \in Jobs
  PROVE  version[j] \in Nat /\ runs[j].version \in Nat /\ Latest(runs[j], version[j]) \in Nat
<1>1. version[j] \in 0..MaxChanges /\ runs[j].version \in 0..MaxChanges
  BY DEF TypeInv, Run
<1> QED
  BY <1>1, DownloadsAssumption DEF Latest

\* What a job that has begun has in the folder.
LEMMA BegunPrefix ==
  ASSUME TypeInv, NEW j \in Jobs, PartOf(j), rows[j].status \in Begun
  PROVE  part[rows[j].dest] = NoFile \/ IsPrefix(part[rows[j].dest], j, version[j])
<1>1. /\ version[j] \in Nat /\ Latest(runs[j], version[j]) \in Nat
      /\ Latest(runs[j], version[j]) <= version[j]
  BY Versions DEF Latest, PartOf
<1> QED
  BY <1>1, PrefixStays DEF PartOf

\* The others keep their part, when their files are not touched.
LEMMA OthersPart ==
  ASSUME TypeInv, QueueInv, NEW j \in Jobs, OthersGoOn(j), NEW i \in Jobs \ {j}, PartOf(i),
         version' = version,
         rows[i].status \in Begun => part'[rows[i].dest] = part[rows[i].dest]
  PROVE  PartOf(i)'
<1>1. Same(i) \/ (rows[i].status = "queued" /\ Begins(i, rows[i].dest))
  BY DEF OthersGoOn
<1>2. CASE rows[i].status \notin Begun
  <2>1. rows'[i] = rows[i] /\ runs'[i] = runs[i]
    BY <1>1, <1>2 DEF Same, Begun, Live
  <2>2. runs[i].at = "none"
    BY <1>2, TransfersBegun
  <2> QED
    BY <1>2, <2>1, <2>2 DEF PartOf
<1>3. CASE rows[i].status \in Begun
  <2>1. CASE Same(i)
    BY <1>3, <2>1 DEF PartOf, Same
  <2>2. CASE rows[i].status = "queued" /\ Begins(i, rows[i].dest)
    <3>1. part[rows[i].dest] = NoFile \/ IsPrefix(part[rows[i].dest], i, version[i])
      BY <1>3, BegunPrefix
    <3>2. version[i] \in Nat
      BY Versions
    <3> QED
      BY <1>3, <2>2, <3>1, <3>2 DEF PartOf, Begins, Latest
  <2> QED
    BY <1>1, <2>1, <2>2
<1> QED
  BY <1>2, <1>3

LEMMA SamePart ==
  ASSUME TypeInv, NEW i \in Jobs, PartOf(i), rows'[i] = rows[i], runs'[i] = runs[i],
         part'[rows[i].dest] = part[rows[i].dest],
         version'[i] \in Nat, version'[i] >= version[i]
  PROVE  PartOf(i)'
<1>1. /\ version[i] \in Nat /\ runs[i].version \in Nat
      /\ Latest(runs[i], version[i]) \in Nat /\ Latest(runs[i], version'[i]) \in Nat
      /\ Latest(runs[i], version[i]) <= Latest(runs[i], version'[i])
  BY Versions DEF Latest
<1>2. runs'[i].version <= version'[i]
  BY <1>1 DEF PartOf
<1>3. rows[i].status \in Begun =>
         part[rows[i].dest] = NoFile \/ IsPrefix(part[rows[i].dest], i, Latest(runs[i], version'[i]))
  BY <1>1, PrefixStays DEF PartOf
<1> QED
  BY <1>2, <1>3 DEF PartOf

\* A byte more, at the place where the file ended.
LEMMA PrefixGrows ==
  ASSUME NEW j \in Jobs, NEW f, NEW v \in Nat, IsPrefix(f, j, v), NEW byte \in Byte,
         byte.job = j, byte.at = Len(f) + 1, byte.version = v
  PROVE  IsPrefix(Append(f, byte), j, v) /\ Len(Append(f, byte)) = Len(f) + 1
<1>1. f \in Seq(Byte) /\ Len(f) \in Nat /\ DOMAIN f = 1..Len(f)
  BY DEF IsPrefix, Contents
<1>2. /\ Append(f, byte) \in Seq(Byte) /\ DOMAIN Append(f, byte) = 1..(Len(f) + 1)
      /\ Len(Append(f, byte)) = Len(f) + 1 /\ Append(f, byte)[Len(f) + 1] = byte
      /\ \A i \in 1..Len(f) : Append(f, byte)[i] = f[i]
  BY <1>1
<1> DEFINE g == Append(f, byte)
<1> HIDE DEF g
<1>3. \A i \in DOMAIN g : i \in Nat /\ i <= Len(f) + 1 /\ (i = Len(f) + 1 \/ i \in DOMAIN f)
  BY <1>1, <1>2 DEF g
<1>4. /\ g[Len(f) + 1] = byte /\ g \in Contents
      /\ \A i \in DOMAIN f : g[i] = f[i] /\ f[i].at = i /\ f[i].job = j /\ f[i].version <= v
                              /\ i < Len(f) + 1
  BY <1>1, <1>2 DEF IsPrefix, Contents, g
<1>5. \A i \in DOMAIN g : g[i].at = i /\ g[i].job = j /\ g[i].version <= v
  BY <1>3, <1>4
<1>6. ASSUME NEW i \in DOMAIN g, NEW k \in DOMAIN g, i <= k
      PROVE  g[i].version <= g[k].version
  <2>1. CASE k \in DOMAIN f
    <3>1. i \in DOMAIN f
      BY <1>1, <1>3, <1>6, <2>1
    <3> QED
      BY <1>4, <1>6, <2>1, <3>1 DEF IsPrefix
  <2>2. CASE k = Len(f) + 1
    BY <1>4, <1>5, <2>2
  <2> QED
    BY <1>3, <2>1, <2>2
<1> QED
  BY <1>2, <1>4, <1>5, <1>6 DEF IsPrefix, g

\* What the answer's first bytes leave.
LEMMA PartOpens ==
  ASSUME TypeInv, QueueInv, NEW j \in Jobs, PartOf(j), Opens(j)
  PROVE  PartOf(j)'
<1> DEFINE n == rows[j].dest
<1>1. PICK from \in Nat, told \in BOOLEAN :
         (from = runs[j].written \/ from = 0) /\ Sinks(j, from, told)
  BY DEF Opens
<1>2. /\ n \in Names /\ rows'[j] = rows[j] /\ rows[j].status = "downloading"
      /\ part \in [Names -> Contents \cup {NoFile}] /\ runs \in [Jobs -> Run]
      /\ version' = version /\ version[j] \in Nat
  BY Downloading, Versions DEF Opens, TypeInv, Elsewhere
<1>3. /\ runs'[j].at = "reading" /\ runs'[j].written = from /\ runs'[j].version = version[j]
      /\ Latest(runs'[j], version'[j]) = version[j]
  <2>1. runs'[j].at = "reading" /\ runs'[j].written = from /\ runs'[j].version = version[j]
    BY <1>1, <1>2 DEF Sinks, Run
  <2> QED
    BY <2>1 DEF Latest
<1>4. /\ runs[j].written = BytesOnDisk(part[n])
      /\ part[n] = NoFile \/ IsPrefix(part[n], j, version[j])
  BY <1>2, BegunPrefix DEF PartOf, Opens, Begun, Live
<1>5. CASE from > 0 /\ part[n] # NoFile
  <2>1. part'[n] = part[n] /\ from = runs[j].written
    BY <1>1, <1>2, <1>5 DEF Sinks
  <2> QED
    BY <1>2, <1>3, <1>4, <1>5, <2>1 DEF PartOf
<1>6. CASE ~(from > 0 /\ part[n] # NoFile)
  <2>1. part'[n] = <<>>
    BY <1>1, <1>2, <1>6 DEF Sinks
  <2>2. from = 0
    <3>1. part[n] = NoFile => BytesOnDisk(part[n]) = 0
      BY DEF BytesOnDisk, IsFile
    <3> QED
      BY <1>1, <1>4, <1>6, <3>1
  <2>3. <<>> \in Contents /\ Len(<<>>) = 0
    BY DEF Contents
  <2>4. BytesOnDisk(<<>>) = 0 /\ <<>> # NoFile
    BY <2>3, FileFacts DEF BytesOnDisk
  <2>5. IsPrefix(<<>>, j, version[j])
    BY <2>3 DEF IsPrefix
  <2> QED
    BY <1>2, <1>3, <2>1, <2>2, <2>4, <2>5 DEF PartOf
<1> QED
  BY <1>5, <1>6

\* What a chunk leaves.
LEMMA PartGrows ==
  ASSUME TypeInv, QueueInv, NEW j \in Jobs, PartOf(j), Grows(j)
  PROVE  PartOf(j)'
<1> DEFINE n == rows[j].dest
           next == runs[j].written + 1
           byte == [job |-> j, version |-> runs[j].version, at |-> next]
<1>1. /\ n \in Names /\ rows'[j] = rows[j] /\ rows[j].status = "downloading"
      /\ part \in [Names -> Contents \cup {NoFile}] /\ runs \in [Jobs -> Run]
      /\ runs[j].at = "reading" /\ version' = version
  BY Downloading DEF Grows, ReadsChunk, TypeInv, Elsewhere
<1>2. /\ IsPrefix(part[n], j, runs[j].version) /\ part[n] # NoFile
      /\ runs[j].written = BytesOnDisk(part[n]) /\ runs[j].version <= version[j]
  BY <1>1 DEF PartOf, Begun, Live, Latest
<1>3. runs[j].written = Len(part[n]) /\ Len(part[n]) \in Nat
  BY <1>1, <1>2, FileFacts DEF BytesOnDisk, IsPrefix, Contents
<1>4. /\ byte \in Byte /\ byte.job = j /\ byte.at = Len(part[n]) + 1
      /\ byte.version = runs[j].version /\ runs[j].version \in Nat
  BY <1>1, <1>3, Versions DEF Byte, Run
<1>5. part'[n] = Append(part[n], byte)
  BY <1>1, <1>2 DEF Grows, ReadsChunk
<1>6. /\ runs'[j].at = "reading" /\ runs'[j].written = next
      /\ runs'[j].version = runs[j].version
  BY <1>1 DEF Grows, ReadsChunk, Run
<1> HIDE DEF byte
<1>7. IsPrefix(part'[n], j, runs[j].version) /\ Len(part'[n]) = next
  BY <1>2, <1>3, <1>4, <1>5, PrefixGrows
<1>8. BytesOnDisk(part'[n]) = next /\ part'[n] # NoFile
  BY <1>7, FileFacts DEF BytesOnDisk, IsPrefix
<1> QED
  BY <1>1, <1>2, <1>6, <1>7, <1>8 DEF PartOf, Latest

\* A file that changes on the server has a later version.
LEMMA VersionGrows ==
  ASSUME TypeInv, NEW i \in Jobs,
         version' = version \/ \E j \in Jobs : version' = [version EXCEPT ![j] = version[j] + 1]
  PROVE  version'[i] \in Nat /\ version'[i] >= version[i]
<1>1. version \in [Jobs -> 0..MaxChanges] /\ version[i] \in Nat
  BY Versions DEF TypeInv
<1>2. CASE version' = version
  BY <1>1, <1>2
<1>3. ASSUME NEW j \in Jobs, version' = [version EXCEPT ![j] = version[j] + 1]
      PROVE  version'[i] \in Nat /\ version'[i] >= version[i]
  BY <1>1, <1>3
<1> QED
  BY <1>2, <1>3

LEMMA PartStep == ASSUME TypeInv, QueueInv, NamesInv, PartInv, Good PROVE PartInv'
<1> SUFFICES ASSUME Undisturbed', NEW i \in Jobs PROVE PartOf(i)'
  BY DEF PartInv
<1>1. /\ Undisturbed /\ Distinct(rows) /\ spent'.revivals = 0 /\ spent'.recancels = 0
      /\ spent'.crashes = 0
  BY Regimes DEF NamesInv, Good
<1>2. \A k \in Jobs : PartOf(k)
  BY <1>1 DEF PartInv
<1>3. part \in [Names -> Contents \cup {NoFile}] /\ \A k \in Jobs : version[k] \in Nat
  BY Versions DEF TypeInv
<1>4. ASSUME NEW j \in Jobs, OthersGoOn(j), i # j, version' = version,
             \/ part' = part
             \/ (Removes(rows[j].dest) /\ rows[j].status = "downloading")
      PROVE  PartOf(i)'
  <2>1. rows[i].status \in Begun => part'[rows[i].dest] = part[rows[i].dest]
    <3> SUFFICES ASSUME rows[i].status \in Begun, Removes(rows[j].dest), rows[j].status = "downloading"
                 PROVE  part'[rows[i].dest] = part[rows[i].dest]
      BY <1>4
    <3>1. rows[i].dest # rows[j].dest /\ rows[i].dest \in Names /\ rows[j].dest \in Names
      BY <1>1, <1>4, OneName DEF Begun, Live, TypeInv, IsRow
    <3> QED
      BY <3>1, RemovesLemma
  <2> QED
    BY <1>2, <1>4, <2>1, OthersPart
<1>5. ASSUME NEW j \in Jobs, NewJob(j) PROVE PartOf(i)'
  <2>1. PICK n \in Names : FreeName(n) /\ Started(j, n)
    BY <1>5 DEF NewJob
  <2>2. part' = part /\ OthersGoOn(j) /\ version' = version
    BY <1>5, <2>1 DEF NewJob, Started, Elsewhere
  <2>3. CASE i = j
    <3>1. part'[n] = NoFile
      BY <2>1, <2>2 DEF FreeName
    <3>2. CASE Begins(j, n)
      BY <1>3, <2>2, <2>3, <3>1, <3>2 DEF PartOf, Begins
    <3>3. CASE rows'[j] = [status |-> "queued", dest |-> n] /\ runs'[j] = runs[j]
      <4>1. runs[j].at = "none"
        BY <1>5, TransfersBegun DEF NewJob, Begun, Live
      <4> QED
        BY <1>2, <2>2, <2>3, <3>1, <3>3, <4>1 DEF PartOf
    <3> QED
      BY <2>1, <3>2, <3>3 DEF Started
  <2> QED
    BY <1>4, <2>2, <2>3
<1>6. ASSUME NEW j \in Jobs, Again(j) PROVE PartOf(i)'
  <2>1. /\ rows[j].status \in {"paused", "error"} /\ Started(j, rows[j].dest)
        /\ part' = part /\ OthersGoOn(j) /\ version' = version
    BY <1>1, <1>6 DEF Again, Started, Resumable, Elsewhere
  <2>2. CASE i = j
    <3>1. part[rows[j].dest] = NoFile \/ IsPrefix(part[rows[j].dest], j, version[j])
      BY <1>2, <2>1, BegunPrefix DEF Begun, Live
    <3>2. CASE Begins(j, rows[j].dest)
      BY <1>3, <2>1, <2>2, <3>1, <3>2 DEF PartOf, Begins, Latest
    <3>3. CASE rows'[j] = [status |-> "queued", dest |-> rows[j].dest] /\ runs'[j] = runs[j]
      <4>1. runs[j].at = "none"
        BY <2>1, Downloading
      <4> QED
        BY <1>2, <2>1, <2>2, <3>1, <3>3, <4>1 DEF PartOf, Latest
    <3> QED
      BY <2>1, <3>2, <3>3 DEF Started
  <2> QED
    BY <1>4, <2>1, <2>2
<1>7. ASSUME NEW j \in Jobs, Stopped(j) PROVE PartOf(i)'
  <2>1. rows[j].status = "downloading" /\ rows[j].dest \in Names
    BY <1>7, Downloading DEF Stopped
  <2>2. /\ OthersGoOn(j) /\ rows'[j].dest = rows[j].dest /\ runs'[j].at = "none"
        /\ runs'[j].version = 0 /\ version' = version /\ version[j] \in Nat
    BY <1>3, <1>7 DEF Stopped, Ended, NotRunning, Elsewhere
  <2>3. part' = part \/ Removes(rows[j].dest)
    BY <1>7 DEF Stopped
  <2>4. CASE i = j
    <3>1. part[rows[j].dest] = NoFile \/ IsPrefix(part[rows[j].dest], j, version[j])
      BY <1>2, <2>1, BegunPrefix DEF Begun, Live
    <3>2. part'[rows[j].dest] = NoFile \/ IsPrefix(part'[rows[j].dest], j, version[j])
      BY <2>1, <2>3, <3>1, RemovesLemma
    <3> QED
      BY <2>2, <2>4, <3>2 DEF PartOf, Latest
  <2> QED
    BY <1>4, <2>1, <2>2, <2>3, <2>4
<1>8. ASSUME NEW j \in Jobs, Finished(j) PROVE PartOf(i)'
  <2>1. rows[j].status = "downloading"
    BY <1>8, Downloading DEF Finished
  <2>2. /\ OthersGoOn(j) /\ rows'[j].status = "done" /\ runs'[j].at = "none"
        /\ runs'[j].version = 0 /\ version' = version /\ Removes(rows[j].dest)
    BY <1>8 DEF Finished, Ended, NotRunning
  <2>3. CASE i = j
    BY <1>3, <2>2, <2>3 DEF PartOf, Begun
  <2> QED
    BY <1>4, <2>1, <2>2, <2>3
<1>9. ASSUME NEW j \in Jobs, GoesOn(j) PROVE PartOf(i)'
  <2>1. PICK r \in Run : /\ runs' = [runs EXCEPT ![j] = r] /\ r.written = runs[j].written
                         /\ r.version = runs[j].version
                         /\ (r.at = runs[j].at \/ (runs[j].at = "reading" /\ r.at = "closing"))
    BY <1>9 DEF GoesOn
  <2>2. rows' = rows /\ part' = part /\ runs[j].at # "none" /\ runs \in [Jobs -> Run]
        /\ version' = version
    BY <1>9 DEF GoesOn, TypeInv, Elsewhere
  <2>3. CASE i = j
    <3>1. runs'[j] = r
      BY <2>1, <2>2
    <3>2. Latest(r, version[j]) = Latest(runs[j], version[j])
      BY <2>1 DEF Latest
    <3> QED
      BY <1>2, <2>1, <2>2, <2>3, <3>1, <3>2 DEF PartOf
  <2>4. CASE i # j
    BY <1>2, <1>3, <2>1, <2>2, <2>4, SamePart
  <2> QED
    BY <2>3, <2>4
<1>10. ASSUME NEW j \in Jobs, Rests(j) PROVE PartOf(i)'
  <2>1. PICK st \in {"paused", "cancelled"} :
          /\ rows' = Sets(j, st) /\ rows[j].status \in Begun
          /\ \/ st = "paused" /\ part' = part
             \/ st = "cancelled" /\ Removes(rows[j].dest)
    BY <1>1, <1>10 DEF Rests, Begun, Live
  <2>2. /\ runs' = runs /\ runs[j].at = "none" /\ rows[j].dest \in Names
        /\ rows[j].status # "none" /\ version' = version
    BY <1>10, <2>1 DEF Rests, TypeInv, IsRow, Begun, Live, Elsewhere
  <2>3. rows'[j].dest = rows[j].dest /\ rows'[j].status = st /\ (i # j => rows'[i] = rows[i])
    BY <2>1, <2>2, SetsLemma
  <2>4. CASE i = j
    <3>1. part[rows[j].dest] = NoFile \/ IsPrefix(part[rows[j].dest], j, version[j])
      BY <1>2, <2>1, BegunPrefix
    <3>2. part'[rows[j].dest] = NoFile \/ IsPrefix(part'[rows[j].dest], j, version[j])
      BY <2>1, <2>2, <3>1, RemovesLemma
    <3> QED
      BY <1>2, <2>2, <2>3, <2>4, <3>2 DEF PartOf, Latest
  <2>5. CASE i # j /\ rows[i].status \in Begun
    <3>1. rows[i].dest # rows[j].dest /\ rows[i].dest \in Names
      BY <1>1, <2>1, <2>5, OneName DEF Begun, Live, TypeInv, IsRow
    <3>2. part'[rows[i].dest] = part[rows[i].dest]
      BY <2>1, <2>2, <3>1, RemovesLemma
    <3> QED
      BY <1>2, <1>3, <2>2, <2>3, <2>5, <3>2, SamePart
  <2>6. CASE i # j /\ rows[i].status \notin Begun
    <3>1. runs[i].at = "none"
      BY <2>6, TransfersBegun
    <3> QED
      BY <1>2, <2>2, <2>3, <2>6, <3>1 DEF PartOf
  <2> QED
    BY <2>4, <2>5, <2>6
<1>11. ASSUME NEW j \in Jobs, Opens(j) \/ Grows(j) PROVE PartOf(i)'
  <2>1. CASE i = j
    BY <1>2, <1>11, <2>1, PartOpens, PartGrows
  <2>2. CASE i # j
    <3>1. /\ rows' = rows /\ runs'[i] = runs[i] /\ runs[j].at # "none" /\ version' = version
          /\ \A n \in Names \ {rows[j].dest} : part'[n] = part[n]
      BY <1>3, <1>11, <2>2 DEF Opens, Sinks, Grows, ReadsChunk, TypeInv, Elsewhere
    <3>2. rows[j].status \in Begun
      BY <3>1, TransfersBegun
    <3>3. CASE rows[i].status \in Begun
      <4>1. rows[i].dest # rows[j].dest /\ rows[i].dest \in Names
        BY <1>1, <2>2, <3>2, <3>3, OneName DEF Begun, Live, TypeInv, IsRow
      <4> QED
        BY <1>2, <1>3, <3>1, <4>1, SamePart
    <3>4. CASE rows[i].status \notin Begun
      <4>1. runs[i].at = "none"
        BY <3>4, TransfersBegun
      <4> QED
        BY <1>2, <3>1, <3>4, <4>1 DEF PartOf
    <3> QED
      BY <3>3, <3>4
  <2> QED
    BY <2>1, <2>2
<1>12. ASSUME Memory,
             version' = version \/ \E j \in Jobs : version' = [version EXCEPT ![j] = version[j] + 1]
       PROVE  PartOf(i)'
  <2>1. version'[i] \in Nat /\ version'[i] >= version[i]
    BY <1>12, VersionGrows
  <2> QED
    BY <1>2, <1>12, <2>1, SamePart DEF Memory
<1>13. ~(spent'.crashes > 0)
  BY <1>1
<1> QED
  BY <1>5, <1>6, <1>7, <1>8, <1>9, <1>10, <1>11, <1>12, <1>13 DEF Good, Step

\* A job that does not begin to read, or to be done, keeps what there is of it.
LEMMA SameWhole ==
  ASSUME TypeInv, NEW i \in Jobs, WholeOf(i), version'[i] \in Nat, version'[i] >= version[i],
         \/ rows'[i] = rows[i] /\ runs'[i] = runs[i]
         \/ rows'[i].status # "done" /\ runs'[i].at \notin {"reading", "closing"},
         rows[i].status = "done" => disk'[rows[i].dest] = disk[rows[i].dest]
  PROVE  WholeOf(i)'
<1>1. version[i] \in Nat
  BY Versions
<1>2. rows[i].status = "done" =>
         /\ IsPrefix(disk[rows[i].dest], i, version'[i])
         /\ \E v \in 0..version'[i] : Len(disk[rows[i].dest]) = Length[v]
  <2> SUFFICES ASSUME rows[i].status = "done"
               PROVE  /\ IsPrefix(disk[rows[i].dest], i, version'[i])
                      /\ \E v \in 0..version'[i] : Len(disk[rows[i].dest]) = Length[v]
    OBVIOUS
  <2>1. PICK v \in 0..version[i] : Len(disk[rows[i].dest]) = Length[v]
    BY DEF WholeOf
  <2>2. v \in 0..version'[i]
    BY <1>1, <2>1
  <2>3. IsPrefix(disk[rows[i].dest], i, version'[i])
    BY <1>1, PrefixStays DEF WholeOf
  <2> QED
    BY <2>1, <2>2, <2>3
<1> QED
  BY <1>2 DEF WholeOf

LEMMA OthersWhole ==
  ASSUME TypeInv, NEW j \in Jobs, OthersGoOn(j), NEW i \in Jobs \ {j}, WholeOf(i),
         version' = version,
         rows[i].status = "done" => disk'[rows[i].dest] = disk[rows[i].dest]
  PROVE  WholeOf(i)'
<1>1. Same(i) \/ Begins(i, rows[i].dest)
  BY DEF OthersGoOn
<1>2. version'[i] \in Nat /\ version'[i] >= version[i]
  BY VersionGrows
<1> QED
  BY <1>1, <1>2, SameWhole DEF Same, Begins

\* A job that finishes leaves as many bytes as its version has.
LEMMA FinishedIsWhole ==
  ASSUME TypeInv, QueueInv, NEW j \in Jobs, PartOf(j), WholeOf(j), Finished(j)
  PROVE  WholeOf(j)'
<1> DEFINE n == rows[j].dest
<1>1. rows[j].status = "downloading" /\ n \in Names
  BY Downloading DEF Finished
<1>2. /\ rows'[j] = [status |-> "done", dest |-> n] /\ runs'[j] = NotRunning
      /\ disk' = [disk EXCEPT ![n] = part[n]] /\ part[n] # NoFile /\ version' = version
  BY DEF Finished, Ended
<1>3. disk'[n] = part[n]
  BY <1>1, <1>2 DEF TypeInv
<1>4. IsPrefix(part[n], j, version[j]) /\ runs[j].written = BytesOnDisk(part[n])
  BY <1>1, <1>2, BegunPrefix DEF PartOf, Finished, Begun, Live
<1>5. Len(part[n]) = runs[j].written
  BY <1>4, FileFacts DEF IsPrefix, BytesOnDisk
<1>6. \E v \in 0..version[j] : runs[j].written = Length[v]
  <2>1. CASE runs[j].at = "opening" /\ runs[j].written = Length[version[j]]
    <3>1. version[j] \in 0..version[j]
      BY Versions
    <3> QED
      BY <2>1, <3>1
  <2>2. CASE runs[j].at = "closing" /\ Ends(j)
    <3>1. runs[j].told /\ runs[j].written <= Length[runs[j].version]
      BY <2>2 DEF WholeOf
    <3>2. runs[j].written >= Length[runs[j].version]
      BY <2>2, <3>1 DEF Ends, Whole
    <3>3. runs[j].written = Length[runs[j].version]
      BY <3>1, <3>2, Lengths
    <3>4. runs[j].version \in 0..version[j]
      BY Versions DEF PartOf
    <3> QED
      BY <3>3, <3>4
  <2> QED
    BY <2>1, <2>2 DEF Finished
<1> QED
  BY <1>2, <1>3, <1>4, <1>5, <1>6 DEF WholeOf, NotRunning

LEMMA WholeStep ==
  ASSUME TypeInv, QueueInv, NamesInv, PartInv, WholeInv, Good
  PROVE  WholeInv'
<1> SUFFICES ASSUME Undisturbed', spent'.untold = 0, NEW i \in Jobs PROVE WholeOf(i)'
  BY DEF WholeInv
<1>1. /\ Undisturbed /\ Distinct(rows) /\ spent'.revivals = 0 /\ spent'.recancels = 0
      /\ spent'.crashes = 0 /\ spent.untold = 0
  BY Regimes DEF NamesInv, Good
<1>2. \A k \in Jobs : PartOf(k) /\ WholeOf(k)
  BY <1>1 DEF PartInv, WholeInv
<1>3. version' = version => version'[i] \in Nat /\ version'[i] >= version[i]
  BY VersionGrows
<1>4. ASSUME NEW j \in Jobs, NewJob(j) \/ Again(j) \/ Stopped(j) PROVE WholeOf(i)'
  <2>1. OthersGoOn(j) /\ disk' = disk /\ version' = version
    BY <1>4 DEF NewJob, Again, Stopped, Started, Ended, Elsewhere
  <2>2. CASE i # j
    BY <1>2, <2>1, <2>2, OthersWhole
  <2>3. CASE i = j
    <3>1. rows'[j].status # "done" /\ runs'[j].at \notin {"reading", "closing"}
      <4>1. CASE Stopped(j)
        BY <4>1 DEF Stopped, Ended, NotRunning
      <4>2. ASSUME NewJob(j) \/ Again(j), NEW n, Started(j, n)
            PROVE  rows'[j].status # "done" /\ runs'[j].at \notin {"reading", "closing"}
        <5>1. rows[j].status \notin {"downloading", "done"}
          BY <4>2 DEF NewJob, Again, Resumable
        <5>2. runs[j].at = "none"
          BY <5>1, Downloading
        <5> QED
          BY <4>2, <5>2 DEF Started, Begins
      <4> QED
        BY <1>4, <4>1, <4>2 DEF NewJob, Again
    <3> QED
      BY <1>2, <1>3, <2>1, <2>3, <3>1, SameWhole
  <2> QED
    BY <2>2, <2>3
<1>5. ASSUME NEW j \in Jobs, Finished(j) PROVE WholeOf(i)'
  <2>1. CASE i = j
    BY <1>2, <1>5, <2>1, FinishedIsWhole
  <2>2. CASE i # j
    <3>1. /\ OthersGoOn(j) /\ disk' = [disk EXCEPT ![rows[j].dest] = part[rows[j].dest]]
          /\ rows[j].status = "downloading" /\ version' = version
      BY <1>5, Downloading DEF Finished, Ended
    <3>2. rows[i].status = "done" => disk'[rows[i].dest] = disk[rows[i].dest]
      <4> SUFFICES ASSUME rows[i].status = "done" PROVE disk'[rows[i].dest] = disk[rows[i].dest]
        OBVIOUS
      <4>1. rows[i].dest # rows[j].dest /\ rows[i].dest \in Names
        BY <1>1, <2>2, <3>1, OneName DEF Live, TypeInv, IsRow
      <4> QED
        BY <3>1, <4>1 DEF TypeInv
    <3> QED
      BY <1>2, <2>2, <3>1, <3>2, OthersWhole
  <2> QED
    BY <2>1, <2>2
<1>6. ASSUME NEW j \in Jobs, GoesOn(j) PROVE WholeOf(i)'
  <2>1. PICK r \in Run : /\ runs' = [runs EXCEPT ![j] = r] /\ r.written = runs[j].written
                         /\ r.version = runs[j].version /\ r.told = runs[j].told
                         /\ (r.at = runs[j].at \/ (runs[j].at = "reading" /\ r.at = "closing"))
    BY <1>6 DEF GoesOn
  <2>2. rows' = rows /\ disk' = disk /\ version' = version /\ runs \in [Jobs -> Run]
    BY <1>6 DEF GoesOn, TypeInv, Elsewhere
  <2>3. CASE i = j
    <3>1. runs'[j] = r
      BY <2>1, <2>2
    <3> QED
      BY <1>2, <2>1, <2>2, <2>3, <3>1 DEF WholeOf
  <2>4. CASE i # j
    <3>1. runs'[i] = runs[i]
      BY <2>1, <2>2, <2>4
    <3> QED
      BY <1>2, <1>3, <2>2, <3>1, SameWhole
  <2> QED
    BY <2>3, <2>4
<1>7. ASSUME NEW j \in Jobs, Rests(j) PROVE WholeOf(i)'
  <2>1. PICK st \in {"paused", "cancelled"} : rows' = Sets(j, st) /\ rows[j].status \notin {"none", "done"}
    BY <1>7 DEF Rests
  <2>2. runs' = runs /\ disk' = disk /\ version' = version /\ runs[j].at = "none"
    BY <1>7 DEF Rests, Elsewhere
  <2>3. rows'[j].status = st /\ (i # j => rows'[i] = rows[i])
    BY <2>1, SetsLemma
  <2>4. CASE i = j
    BY <1>2, <1>3, <2>2, <2>3, <2>4, SameWhole
  <2>5. CASE i # j
    BY <1>2, <1>3, <2>2, <2>3, <2>5, SameWhole
  <2> QED
    BY <2>4, <2>5
<1>8. ASSUME NEW j \in Jobs, Opens(j) PROVE WholeOf(i)'
  <2>1. PICK from \in Nat, told \in BOOLEAN :
           from < Length[version[j]] /\ Sinks(j, from, told) /\ (told \/ spent'.untold > 0)
    BY <1>8 DEF Opens
  <2>2. /\ rows' = rows /\ disk' = disk /\ version' = version /\ runs \in [Jobs -> Run]
        /\ rows[j].status = "downloading" /\ told = TRUE
    BY <1>8, <2>1, Downloading DEF Opens, Elsewhere, TypeInv
  <2>3. CASE i = j
    <3>1. /\ runs'[j].at = "reading" /\ runs'[j].written = from
          /\ runs'[j].version = version[j] /\ runs'[j].told = TRUE
      BY <2>1, <2>2 DEF Sinks, Run
    <3>2. from <= Length[version[j]]
      BY <2>1, Lengths
    <3> QED
      BY <2>2, <2>3, <3>1, <3>2 DEF WholeOf
  <2>4. CASE i # j
    <3>1. runs'[i] = runs[i]
      BY <2>1, <2>2, <2>4 DEF Sinks
    <3> QED
      BY <1>2, <1>3, <2>2, <3>1, SameWhole
  <2> QED
    BY <2>3, <2>4
<1>9. ASSUME NEW j \in Jobs, Grows(j) PROVE WholeOf(i)'
  <2>1. /\ rows' = rows /\ disk' = disk /\ version' = version /\ runs \in [Jobs -> Run]
        /\ runs' = [runs EXCEPT ![j].written = runs[j].written + 1]
        /\ runs[j].written + 1 <= Length[runs[j].version] /\ runs[j].at = "reading"
    BY <1>9 DEF Grows, ReadsChunk, Elsewhere, TypeInv
  <2>2. rows[j].status = "downloading" /\ runs[j].told
    BY <1>2, <2>1, Downloading DEF WholeOf
  <2>3. CASE i = j
    <3>1. /\ runs'[j].written = runs[j].written + 1 /\ runs'[j].version = runs[j].version
          /\ runs'[j].told = runs[j].told
      BY <2>1, <2>2 DEF Run
    <3> QED
      BY <2>1, <2>2, <2>3, <3>1 DEF WholeOf
  <2>4. CASE i # j
    <3>1. runs'[i] = runs[i]
      BY <2>1, <2>4
    <3> QED
      BY <1>2, <1>3, <2>1, <3>1, SameWhole
  <2> QED
    BY <2>3, <2>4
<1>10. ASSUME Memory, disk' = disk,
              version' = version \/ \E j \in Jobs : version' = [version EXCEPT ![j] = version[j] + 1]
       PROVE  WholeOf(i)'
  <2>1. version'[i] \in Nat /\ version'[i] >= version[i]
    BY <1>10, VersionGrows
  <2> QED
    BY <1>2, <1>10, <2>1, SameWhole DEF Memory
<1>11. ASSUME NEW n \in Names, Memory, disk[n] = NoFile, disk' = [disk EXCEPT ![n] = UserFile],
              version' = version
       PROVE  WholeOf(i)'
  <2>1. rows[i].status = "done" => disk'[rows[i].dest] = disk[rows[i].dest]
    <3> SUFFICES ASSUME rows[i].status = "done" PROVE disk'[rows[i].dest] = disk[rows[i].dest]
      OBVIOUS
    <3>1. disk[rows[i].dest] # NoFile /\ rows[i].dest \in Names
      BY <1>2, FileFacts DEF WholeOf, IsPrefix, TypeInv, IsRow
    <3> QED
      BY <1>11, <3>1 DEF TypeInv
  <2> QED
    BY <1>2, <1>3, <1>11, <2>1, SameWhole DEF Memory
<1>12. ~(spent'.crashes > 0)
  BY <1>1
<1> QED
  BY <1>4, <1>5, <1>6, <1>7, <1>8, <1>9, <1>10, <1>11, <1>12 DEF Good, Step

\* While no cancelled job comes back and the app is not killed, a job that is done
\* stays so, under its name.
LEMMA DoneStays ==
  ASSUME TypeInv, QueueInv, Good, spent'.revivals = 0, spent'.crashes = 0,
         NEW i \in Jobs, rows[i].status = "done"
  PROVE  rows'[i].status = "done" /\ rows'[i].dest = rows[i].dest
<1>1. ASSUME NEW j \in Jobs, NewJob(j) \/ Again(j) \/ Stopped(j) \/ Finished(j)
      PROVE  rows'[i].status = "done" /\ rows'[i].dest = rows[i].dest
  <2>1. OthersGoOn(j) /\ rows[j].status # "done"
    BY <1>1, Downloading DEF NewJob, Again, Resumable, Stopped, Finished, Started, Ended
  <2> QED
    BY <2>1, OthersKeep
<1>2. ASSUME NEW j \in Jobs, Rests(j)
      PROVE  rows'[i].status = "done" /\ rows'[i].dest = rows[i].dest
  <2>1. PICK st \in {"paused", "cancelled"} : rows' = Sets(j, st) /\ rows[j].status \notin {"none", "done"}
    BY <1>2 DEF Rests
  <2>2. i # j
    BY <2>1
  <2> QED
    BY <2>1, <2>2, SetsLemma
<1>3. ~(spent'.crashes > 0)
  BY DEF Good, SpentGrows, Spent
<1>4. \/ \E j \in Jobs : NewJob(j) \/ Again(j) \/ Stopped(j) \/ Finished(j) \/ Rests(j)
      \/ rows' = rows
  BY <1>3 DEF Good, Step, GoesOn, Opens, Grows, Memory
<1> QED
  BY <1>1, <1>2, <1>4

LEMMA KeptStep ==
  ASSUME TypeInv, QueueInv, NamesInv, KeptInv, Good
  PROVE  /\ KeptInv'
         /\ spent'.revivals + spent'.crashes = 0 =>
               \A n \in Names : IsFile(disk[n]) => disk'[n] = disk[n]
<1> SUFFICES ASSUME spent'.revivals + spent'.crashes = 0, NEW n \in Names
             PROVE  /\ IsFile(disk'[n]) => \E i \in Jobs : rows'[i].dest = n /\ rows'[i].status = "done"
                    /\ IsFile(disk[n]) => disk'[n] = disk[n]
  BY DEF KeptInv, IsFile
<1>1. /\ spent'.revivals = 0 /\ spent'.crashes = 0 /\ Distinct(rows)
      /\ IsFile(disk[n]) => \E i \in Jobs : rows[i].dest = n /\ rows[i].status = "done"
  BY Regimes DEF NamesInv, KeptInv, Good
<1>2. IsFile(disk[n]) => \E i \in Jobs : rows'[i].dest = n /\ rows'[i].status = "done"
  BY <1>1, DoneStays
<1>3. CASE disk' = disk
  BY <1>2, <1>3
<1>4. ASSUME NEW j \in Jobs, Finished(j)
      PROVE  /\ IsFile(disk'[n]) => \E i \in Jobs : rows'[i].dest = n /\ rows'[i].status = "done"
             /\ IsFile(disk[n]) => disk'[n] = disk[n]
  <2>1. /\ rows[j].status = "downloading" /\ rows'[j] = [status |-> "done", dest |-> rows[j].dest]
        /\ disk' = [disk EXCEPT ![rows[j].dest] = part[rows[j].dest]]
        /\ disk \in [Names -> Contents \cup {NoFile, UserFile}]
    BY <1>4, Downloading DEF Finished, Ended, TypeInv
  <2>2. CASE rows[j].dest = n
    <3>1. ~IsFile(disk[n])
      BY <1>1, <2>1, <2>2, OneName DEF Live
    <3> QED
      BY <2>1, <2>2, <3>1
  <2>3. CASE rows[j].dest # n
    BY <1>2, <2>1, <2>3
  <2> QED
    BY <2>2, <2>3
<1>5. ASSUME NEW m \in Names, disk[m] = NoFile, disk' = [disk EXCEPT ![m] = UserFile]
      PROVE  /\ IsFile(disk'[n]) => \E i \in Jobs : rows'[i].dest = n /\ rows'[i].status = "done"
             /\ IsFile(disk[n]) => disk'[n] = disk[n]
  BY <1>2, <1>5 DEF IsFile, TypeInv
<1> QED
  <2>1. \/ disk' = disk \/ \E j \in Jobs : Finished(j)
        \/ \E m \in Names : disk[m] = NoFile /\ disk' = [disk EXCEPT ![m] = UserFile]
    BY DEF Good, Step, NewJob, Again, Stopped, GoesOn, Rests, Opens, Grows, Elsewhere, Crash, files
  <2> QED
    BY <1>3, <1>4, <1>5, <2>1

---------------------------------------------------------------------------
(* The invariant, and what it says. *)

LEMMA InvInit == DownloadsInit => Inv
<1> SUFFICES ASSUME DownloadsInit PROVE Inv
  OBVIOUS
<1>1. NoRow \in Row /\ NotRunning \in Run /\ 0 \in 0..MaxChanges /\ IsRow(NoRow)
  BY DownloadsAssumption DEF NoRow, Row, NotRunning, Run, IsRow
<1>2. /\ rows = [j \in Jobs |-> NoRow] /\ saved = rows /\ queue = <<>>
      /\ runs = [j \in Jobs |-> NotRunning] /\ part = [n \in Names |-> NoFile] /\ disk = part
      /\ version = [j \in Jobs |-> 0] /\ unsaved = FALSE
      /\ spent = [faults |-> 0, untold |-> 0, changes |-> 0, userFiles |-> 0, revivals |-> 0,
                  recancels |-> 0, pauses |-> 0, crashes |-> 0]
  BY DEF DownloadsInit
<1>3. TypeInv
  BY <1>1, <1>2 DEF TypeInv, Spent
<1>4. \A j \in Jobs : rows[j].status = "none" /\ runs[j].at = "none" /\ runs[j].version = 0
  BY <1>2 DEF NoRow, NotRunning
<1>5. QueueInv
  <2>1. TransfersOf(runs) = {}
    BY <1>4 DEF TransfersOf
  <2>2. IsFiniteSet(TransfersOf(runs)) /\ Cardinality(TransfersOf(runs)) = 0
    BY <2>1, FS_EmptySet
  <2> QED
    BY <1>2, <1>4, <2>2, DownloadsAssumption DEF QueueInv, QueueOf, NoneWaitsInVain
<1>6. \A n \in Names : part[n] = NoFile /\ disk[n] = NoFile
  BY <1>2
<1>7. VersionInv /\ NamesInv /\ CleanInv /\ KeptInv
  BY <1>2, <1>4, <1>6 DEF VersionInv, NamesInv, Distinct, Live, CleanInv, KeptInv, IsFile
<1>8. PartInv
  BY <1>2, <1>4 DEF PartInv, PartOf, Begun, Live
<1>9. WholeInv
  BY <1>2, <1>4 DEF WholeInv, WholeOf
<1> QED
  BY <1>3, <1>5, <1>7, <1>8, <1>9 DEF Inv

LEMMA InvStep == Inv /\ [Next]_vars => Inv'
<1> SUFFICES ASSUME Inv, [Next]_vars PROVE Inv'
  OBVIOUS
<1>1. CASE Next
  <2>1. Good
    BY <1>1, StepLemma DEF Inv
  <2> QED
    BY <2>1, VersionStep, NamesStep, CleanStep, PartStep, WholeStep, KeptStep DEF Inv, Good
<1>2. CASE UNCHANGED vars
  <2>1. /\ rows' = rows /\ queue' = queue /\ runs' = runs /\ part' = part /\ disk' = disk
        /\ version' = version /\ saved' = saved /\ unsaved' = unsaved /\ spent' = spent
    BY <1>2 DEF vars, memory, files
  <2>2. TypeInv' /\ VersionInv' /\ NamesInv' /\ CleanInv' /\ KeptInv'
    BY <2>1 DEF Inv, TypeInv, VersionInv, NamesInv, Distinct, CleanInv, KeptInv
  <2>3. QueueInv'
    BY <2>1 DEF Inv, QueueInv, NoneWaitsInVain, Running
  <2>4. PartInv' /\ WholeInv'
    BY <2>1 DEF Inv, PartInv, PartOf, WholeInv, WholeOf, Undisturbed, Latest
  <2> QED
    BY <2>2, <2>3, <2>4 DEF Inv
<1> QED
  BY <1>1, <1>2

LEMMA InvAlways == Spec => []Inv
BY InvInit, InvStep, PTL DEF Spec

\* No job waits in the queue beside a free transfer, whatever ended the one before
\* it: pump is called wherever a transfer becomes free.
THEOREM NoneWaits == Spec => []NoneWaitsInVain
<1>1. Inv => NoneWaitsInVain
  BY DEF Inv, QueueInv
<1> QED
  BY <1>1, InvAlways, PTL

LEMMA InvTypes == ASSUME Inv PROVE TypeOK
<1>1. TypeInv /\ QueueInv
  BY DEF Inv
<1>2. \A f \in Contents : IsContent(f)
  BY DEF Contents, IsContent
<1>3. \A n \in Names : (IsFile(part[n]) => IsContent(part[n])) /\ (IsFile(disk[n]) => IsContent(disk[n]))
  BY <1>1, <1>2, FileFacts DEF TypeInv
<1> QED
  BY <1>1, <1>3 DEF TypeInv, QueueInv, QueueOf, TypeOK

LEMMA InvPrefixes == ASSUME Inv PROVE PartsArePrefixes
<1> SUFFICES ASSUME Undisturbed, NEW n \in Names, IsFile(part[n])
             PROVE  \E j \in Jobs : InPlace(part[n], j)
  BY DEF PartsArePrefixes
<1>1. TypeInv /\ CleanInv /\ PartInv
  BY DEF Inv
<1>2. spent.crashes = 0
  BY <1>1, NothingSpent, Regimes DEF TypeInv, Undisturbed, Spent
<1>3. PICK j \in Jobs : rows[j].dest = n /\ rows[j].status \in Begun
  BY <1>1, <1>2 DEF CleanInv, IsFile
<1>4. IsPrefix(part[n], j, version[j])
  BY <1>1, <1>3, BegunPrefix DEF PartInv, IsFile
<1> QED
  BY <1>4 DEF IsPrefix, InPlace

LEMMA InvWhole == ASSUME Inv PROVE DoneIsWhole
<1> SUFFICES ASSUME Undisturbed, spent.untold = 0, NEW j \in Jobs, rows[j].status = "done"
             PROVE  LET f == disk[rows[j].dest] IN
                    /\ IsFile(f) /\ InPlace(f, j)
                    /\ \E v \in 0..version[j] : Len(f) = Length[v]
  BY DEF DoneIsWhole
<1>1. /\ IsPrefix(disk[rows[j].dest], j, version[j])
      /\ \E v \in 0..version[j] : Len(disk[rows[j].dest]) = Length[v]
  BY DEF Inv, WholeInv, WholeOf
<1> QED
  BY <1>1, FileFacts DEF IsPrefix, IsFile, InPlace

LEMMA InvNames == ASSUME Inv PROVE OneWriterPerPart
BY Downloading DEF Inv, OneWriterPerPart, NoTwoWriters, NamesInv, Distinct, Running, Live

LEMMA InvClean == ASSUME Inv PROVE CancelledIsClean
<1> SUFFICES ASSUME spent.crashes = 0, NEW j \in Jobs, rows[j].status = "cancelled"
             PROVE  \/ part[rows[j].dest] = NoFile
                    \/ \E i \in Jobs : rows[i].dest = rows[j].dest /\ rows[i].status # "cancelled"
  BY DEF CancelledIsClean
<1>1. rows[j].dest \in Names
  BY DEF Inv, TypeInv, IsRow
<1> QED
  BY <1>1 DEF Inv, CleanInv, Begun, Live

\* However transfers are paused, cancelled, resumed and answered, and whatever
\* changes on the server: one writer for a partial file, unless a cancelled job was
\* resumed; partial files whose bytes are the first of one job's file, each in its
\* place, and finished files with all of them, unless a cancelled job was resumed or
\* cancelled again, the app was killed, or (finished files) an answer did not say how
\* long the file is; and nothing left of cancelled jobs, unless the app was killed.
THEOREM Folder == Spec => []DownloadsHold
<1>1. Inv => DownloadsHold
  BY InvTypes, InvPrefixes, InvWhole, InvNames, InvClean DEF DownloadsHold
<1> QED
  BY <1>1, InvAlways, PTL

\* As long as the app has not been killed and no cancelled job was resumed, no step
\* changes a fetched file: no two jobs have one destination.
THEOREM Fetched == Spec => FetchedIsKept
<1>1. Inv /\ [Next]_vars =>
        [spent'.revivals + spent'.crashes = 0 =>
           \A n \in Names : IsFile(disk[n]) => disk'[n] = disk[n]]_vars
  <2> SUFFICES ASSUME Inv, Next, spent'.revivals + spent'.crashes = 0
               PROVE  \A n \in Names : IsFile(disk[n]) => disk'[n] = disk[n]
    OBVIOUS
  <2>1. Good
    BY StepLemma DEF Inv
  <2> QED
    BY <2>1, KeptStep DEF Inv
<1> QED
  BY <1>1, InvAlways, PTL DEF Spec, FetchedIsKept
=============================================================================
