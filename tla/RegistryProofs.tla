---------------------------- MODULE RegistryProofs ----------------------------
(***************************************************************************)
(* Proofs about the tables of the server and those of a tab: about the     *)
(* registry, for any number of tables, codes and workers, any caps and any *)
(* width of a machine word, and about the crew of a tab, for any number of *)
(* tables, invitations, seats and requests in flight.                      *)
(***************************************************************************)
EXTENDS Registry, Crew, FiniteSetTheorems, TLAPS

Made == [kind : Kind \cup {"none"}, code : InviteCodes \cup {NoCode},
         seated : 0..Places, waiting : BOOLEAN, idle : BOOLEAN]

Job == [at : Step, kind : Kind \cup {"none"}, local : Nat, evicted : BOOLEAN,
        doomed : SUBSET Ids, id : Ids \cup {NoId}, open : SUBSET [id : Ids, seated : 0..Places]]

\* TypeOK, with the sets of tables and jobs named.
Typed ==
  /\ tables \subseteq Ids
  /\ codes \in [InviteCodes -> Ids \cup {NoId}]
  /\ table \in [Ids -> Made]
  /\ job \in [Workers -> Job]
  /\ matchmaking \in Workers \cup {NoWorker}

USE DEF Typed

-----------------------------------------------------------------------------
(* What each step makes of the jobs *)

\* The job of w becomes j, the others stay.
Becomes(w, j) ==
  /\ job' \in [Workers -> Job]
  /\ job'[w] = j
  /\ \A v \in Workers : v # w => job'[v] = job[v]

LEMMA Becoming ==
  ASSUME Typed, NEW w \in Workers, NEW j \in Job, job' = [job EXCEPT ![w] = j]
  PROVE  Becomes(w, j)
BY DEF Becomes

LEMMA RestJob ==
  ASSUME Typed, NEW w \in Workers, Rest(w)
  PROVE  Becomes(w, AtRest)
<1>1. AtRest \in Job BY DEF AtRest, Job, Step
<1> QED BY <1>1, Becoming DEF Rest

LEMMA GoJob ==
  ASSUME Typed, NEW w \in Workers, NEW step \in Step, Go(w, step)
  PROVE  Becomes(w, [job[w] EXCEPT !.at = step])
<1> DEFINE j == [job[w] EXCEPT !.at = step]
<1>1. job[w] \in Job OBVIOUS
<1>2. j \in Job BY <1>1 DEF Job
<1>3. job' = [job EXCEPT ![w] = j] BY DEF Go
<1> QED BY <1>2, <1>3, Becoming

LEMMA GivesUpJob ==
  ASSUME Typed, NEW w \in Workers, GivesUp(w)
  PROVE  Becomes(w, IF matchmaking = w THEN [job[w] EXCEPT !.at = "matching", !.id = NoId]
                                       ELSE AtRest)
<1> DEFINE j == [job[w] EXCEPT !.at = "matching", !.id = NoId]
<1>1. CASE matchmaking = w
  <2>1. job[w] \in Job OBVIOUS
  <2>2. j \in Job BY <2>1 DEF Job, Step
  <2>3. job' = [job EXCEPT ![w] = j] BY <1>1 DEF GivesUp
  <2> QED BY <1>1, <2>2, <2>3, Becoming
<1>2. CASE matchmaking # w
  BY <1>2, RestJob DEF GivesUp
<1> QED BY <1>1, <1>2

LEMMA RemovesTableJob ==
  ASSUME Typed, NEW w \in Workers, RemovesTable(w)
  PROVE  \E id \in job[w].doomed :
           /\ tables' = tables \ {id}
           /\ Becomes(w, IF id \in tables /\ table[id].code # NoCode
                         THEN [job[w] EXCEPT !.doomed = job[w].doomed \ {id},
                                             !.at = "forgetting", !.id = id]
                         ELSE [job[w] EXCEPT !.doomed = job[w].doomed \ {id}])
<1>1. PICK id \in job[w].doomed :
        /\ tables' = tables \ {id}
        /\ job' = IF id \in tables /\ table[id].code # NoCode
                  THEN [job EXCEPT ![w].doomed = @ \ {id}, ![w].at = "forgetting",
                                   ![w].id = id]
                  ELSE [job EXCEPT ![w].doomed = @ \ {id}]
  BY DEF RemovesTable
<1> DEFINE f == [job[w] EXCEPT !.doomed = job[w].doomed \ {id}, !.at = "forgetting", !.id = id]
           r == [job[w] EXCEPT !.doomed = job[w].doomed \ {id}]
<1>2. job[w] \in Job OBVIOUS
<1>3. f \in Job /\ r \in Job BY <1>2 DEF Job, Step
<1>4. CASE id \in tables /\ table[id].code # NoCode
  <2>1. job' = [job EXCEPT ![w] = f] BY <1>1, <1>4
  <2> HIDE DEF f, r
  <2>2. Becomes(w, f) BY <1>3, <2>1, Becoming
  <2> USE DEF f, r
  <2> QED BY <1>1, <1>4, <2>2
<1>5. CASE ~(id \in tables /\ table[id].code # NoCode)
  <2>1. job' = [job EXCEPT ![w] = r] BY <1>1, <1>5
  <2> HIDE DEF f, r
  <2>2. Becomes(w, r) BY <1>3, <2>1, Becoming
  <2> USE DEF f, r
  <2> QED BY <1>1, <1>5, <2>2
<1> QED BY <1>4, <1>5

LEMMA ForgetsCodeJob ==
  ASSUME Typed, NEW w \in Workers, ForgetsCode(w)
  PROVE  Becomes(w, [job[w] EXCEPT !.at = "removing", !.id = NoId])
<1> DEFINE j == [job[w] EXCEPT !.at = "removing", !.id = NoId]
<1>1. job[w] \in Job OBVIOUS
<1>2. j \in Job BY <1>1 DEF Job, Step
<1>3. job' = [job EXCEPT ![w] = j] BY DEF ForgetsCode
<1> QED BY <1>2, <1>3, Becoming

LEMMA EvictsJob ==
  ASSUME Typed, NEW w \in Workers, Evicts(w)
  PROVE  Becomes(w, [job[w] EXCEPT !.at = "removing", !.doomed = Idle])
<1> DEFINE j == [job[w] EXCEPT !.at = "removing", !.doomed = Idle]
<1>1. job[w] \in Job /\ Idle \in SUBSET Ids BY DEF Idle
<1>2. j \in Job BY <1>1 DEF Job, Step
<1>3. job' = [job EXCEPT ![w] = j] BY DEF Evicts
<1> QED BY <1>2, <1>3, Becoming

LEMMA CreatesJob ==
  ASSUME Typed, NEW w \in Workers, NEW kind \in Kind, Creates(w, kind)
  PROVE  Becomes(w, [job[w] EXCEPT !.at = "counting", !.kind = kind])
<1> DEFINE j == [job[w] EXCEPT !.at = "counting", !.kind = kind]
<1>1. job[w] \in Job OBVIOUS
<1>2. j \in Job BY <1>1 DEF Job, Step
<1>3. job' = [job EXCEPT ![w] = j] BY DEF Creates
<1> QED BY <1>2, <1>3, Becoming

LEMMA CountsJob ==
  ASSUME Typed, NEW w \in Workers, Counts(w)
  PROVE  Becomes(w, [job[w] EXCEPT !.at = "measuring",
                                   !.local = Cardinality(InRegistry("local"))])
<1> DEFINE n == Cardinality(InRegistry("local"))
           j == [job[w] EXCEPT !.at = "measuring", !.local = n]
<1>1. n \in Nat
  <2>1. InRegistry("local") \in SUBSET Ids /\ IsFiniteSet(Ids)
    BY RegistryAssumption DEF InRegistry
  <2>2. IsFiniteSet(InRegistry("local")) BY <2>1, FS_Subset
  <2> QED BY <2>2, FS_CardinalityType
<1>2. job' = [job EXCEPT ![w].at = "measuring", ![w].local = n] BY DEF Counts
<1> HIDE DEF n
<1>3. job[w] \in Job OBVIOUS
<1>4. j \in Job BY <1>1, <1>3 DEF Job, Step
<1>5. job' = [job EXCEPT ![w] = j] BY <1>2
<1>6. Becomes(w, j) BY <1>4, <1>5, Becoming
<1> QED BY <1>6 DEF n

\* A worker that has counted goes on to build, to evict, or is refused.
LEMMA MeasuresJob ==
  ASSUME Typed, NEW w \in Workers, Measures(w)
  PROVE  \/ /\ Becomes(w, [job[w] EXCEPT !.at = "building", !.local = 0])
            /\ UNCHANGED matchmaking
         \/ /\ Becomes(w, [job[w] EXCEPT !.at = "evicting", !.evicted = TRUE, !.local = 0])
            /\ UNCHANGED matchmaking
         \/ Becomes(w, AtRest) /\ Release(w)
<1> DEFINE b == [job[w] EXCEPT !.at = "building", !.local = 0]
           e == [job[w] EXCEPT !.at = "evicting", !.evicted = TRUE, !.local = 0]
<1>1. job[w] \in Job OBVIOUS
<1>2. b \in Job /\ e \in Job BY <1>1 DEF Job, Step
<1>3. \/ job' = [job EXCEPT ![w] = b] /\ UNCHANGED matchmaking
      \/ job' = [job EXCEPT ![w] = e] /\ UNCHANGED matchmaking
      \/ Rest(w) /\ Release(w)
  BY DEF Measures
<1> HIDE DEF b, e
<1>4. \/ Becomes(w, b) /\ UNCHANGED matchmaking
      \/ Becomes(w, e) /\ UNCHANGED matchmaking
      \/ Becomes(w, AtRest) /\ Release(w)
  BY <1>2, <1>3, Becoming, RestJob
<1> QED BY <1>4 DEF b, e

LEMMA BuildsJob ==
  ASSUME Typed, NEW w \in Workers, NEW id \in Ids, Builds(w, id)
  PROVE  Becomes(w, [job[w] EXCEPT !.id = id, !.at = IF job[w].kind = "private" THEN "coding"
                                                                              ELSE "inserting"])
<1> DEFINE j == [job[w] EXCEPT !.id = id, !.at = IF job[w].kind = "private" THEN "coding"
                                                                          ELSE "inserting"]
<1>1. job[w] \in Job OBVIOUS
<1>2. j \in Job BY <1>1 DEF Job, Step
<1>3. job' = [job EXCEPT ![w] = j] BY DEF Builds
<1> QED BY <1>2, <1>3, Becoming

LEMMA LooksUpJob ==
  ASSUME Typed, NEW w \in Workers, NEW c \in InviteCodes, LooksUp(w, c)
  PROVE  Becomes(w, [job[w] EXCEPT !.at = "finding", !.id = codes[c]])
<1> DEFINE j == [job[w] EXCEPT !.at = "finding", !.id = codes[c]]
<1>1. job[w] \in Job OBVIOUS
<1>2. j \in Job BY <1>1 DEF Job, Step
<1>3. job' = [job EXCEPT ![w] = j] BY DEF LooksUp
<1> QED BY <1>2, <1>3, Becoming

\* The open tables with the players at each of them.
Listed == {[id |-> id, seated |-> table[id].seated] : id \in OpenTables}

LEMMA QuickMatchesJob ==
  ASSUME Typed, NEW w \in Workers, QuickMatches(w)
  PROVE  Becomes(w, [job[w] EXCEPT !.at = "matching", !.open = Listed])
<1> DEFINE j == [job[w] EXCEPT !.at = "matching", !.open = Listed]
<1>1. \A id \in OpenTables : id \in Ids /\ table[id].seated \in 0..Places
  BY DEF OpenTables, InRegistry, Made
<1>2. job[w] \in Job /\ Listed \in SUBSET [id : Ids, seated : 0..Places]
  BY <1>1 DEF Listed
<1>3. job' = [job EXCEPT ![w].at = "matching", ![w].open = Listed]
  BY DEF QuickMatches, Listed
<1>4. j \in Job BY <1>2 DEF Job, Step
<1>5. job' = [job EXCEPT ![w] = j] BY <1>3
<1> QED BY <1>4, <1>5, Becoming

LEMMA TriesNextJob ==
  ASSUME Typed, NEW w \in Workers, TriesNext(w)
  PROVE  \/ /\ job[w].open = {}
            /\ Becomes(w, [job[w] EXCEPT !.at = "counting", !.kind = "public"])
         \/ \E o \in job[w].open :
              Becomes(w, [job[w] EXCEPT !.at = "finding", !.id = o.id,
                                        !.open = job[w].open \ {o}])
<1>1. job[w] \in Job OBVIOUS
<1>2. CASE job[w].open = {} /\ job' = [job EXCEPT ![w].at = "counting", ![w].kind = "public"]
  <2> DEFINE j == [job[w] EXCEPT !.at = "counting", !.kind = "public"]
  <2>1. j \in Job BY <1>1 DEF Job, Step, Kind
  <2>2. job' = [job EXCEPT ![w] = j] BY <1>2
  <2> QED BY <1>2, <2>1, <2>2, Becoming
<1>3. ASSUME NEW o \in job[w].open,
             job' = [job EXCEPT ![w].at = "finding", ![w].id = o.id, ![w].open = @ \ {o}]
      PROVE  Becomes(w, [job[w] EXCEPT !.at = "finding", !.id = o.id,
                                       !.open = job[w].open \ {o}])
  <2> DEFINE j == [job[w] EXCEPT !.at = "finding", !.id = o.id, !.open = job[w].open \ {o}]
  <2>1. o.id \in Ids /\ job[w].open \in SUBSET [id : Ids, seated : 0..Places]
    BY <1>1 DEF Job
  <2>2. j \in Job BY <1>1, <2>1 DEF Job, Step
  <2>3. job' = [job EXCEPT ![w] = j] BY <1>3
  <2> QED BY <2>2, <2>3, Becoming
<1> QED BY <1>2, <1>3 DEF TriesNext

\* The worker of a player who was the last goes on to remove the table.
LEMMA LeavesJob ==
  ASSUME Typed, NEW w \in Workers, NEW id \in Ids, Leaves(w, id)
  PROVE  \/ Becomes(w, [job[w] EXCEPT !.at = "removing", !.doomed = {id}])
         \/ UNCHANGED job
<1> DEFINE j == [job[w] EXCEPT !.at = "removing", !.doomed = {id}]
<1>1. job[w] \in Job OBVIOUS
<1>2. j \in Job BY <1>1 DEF Job, Step
<1>3. job' = [job EXCEPT ![w] = j] \/ UNCHANGED job BY DEF Leaves
<1> QED BY <1>2, <1>3, Becoming

-----------------------------------------------------------------------------
(* Types *)

LEMMA ReleaseTyped ==
  ASSUME Typed, NEW w \in Workers, Release(w)
  PROVE  matchmaking' \in Workers \cup {NoWorker}
BY DEF Release

LEMMA SitsTyped ==
  ASSUME Typed, NEW w \in Workers, Sits(w)
  PROVE  table' \in [Ids -> Made]
<1> DEFINE i == job[w].id
<1>1. CASE table' = table BY <1>1
<1>2. CASE table' # table
  <2>1. /\ MaySit(table[i])
        /\ table' = [table EXCEPT ![i].seated = @ + 1, ![i].idle = FALSE,
                       ![i].waiting = ~(table[i].kind = "public"
                                          /\ table[i].seated = Places - 1)]
    BY <1>2 DEF Sits
  <2> HIDE DEF i
  <2>2. i \in Ids BY <1>2, <2>1
  <2> DEFINE t == [table[i] EXCEPT !.seated = table[i].seated + 1, !.idle = FALSE,
                                   !.waiting = ~(table[i].kind = "public"
                                                   /\ table[i].seated = Places - 1)]
  <2>3. table[i] \in Made /\ table[i].seated + 1 \in 0..Places
    BY <2>1, <2>2, RegistryAssumption DEF MaySit
  <2>4. t \in Made BY <2>3 DEF Made
  <2>5. table' = [table EXCEPT ![i] = t] BY <2>1, <2>2
  <2> QED BY <2>4, <2>5
<1> QED BY <1>1, <1>2

LEMMA LeavesTyped ==
  ASSUME Typed, NEW w \in Workers, NEW id \in Ids, Leaves(w, id)
  PROVE  table' \in [Ids -> Made]
<1> DEFINE n == IF table[id].kind = "local" THEN 0 ELSE table[id].seated - 1
<1>1. table[id].seated \in 1..Places /\ table[id] \in Made
  BY DEF Leaves, Made
<1>2. n \in 0..Places BY <1>1, RegistryAssumption
<1>3. table' = [table EXCEPT ![id].seated = n, ![id].idle = FALSE]
  BY DEF Leaves
<1> HIDE DEF n
<1>4. [table[id] EXCEPT !.seated = n, !.idle = FALSE] \in Made
  BY <1>1, <1>2 DEF Made
<1> QED BY <1>3, <1>4

LEMMA BuildsTable ==
  ASSUME Typed, NEW w \in Workers, NEW id \in Ids, Builds(w, id)
  PROVE  \E code \in InviteCodes \cup {NoCode} :
           /\ code # NoCode <=> job[w].kind = "private"
           /\ code # NoCode => codes[code] = NoId
           /\ table' = [table EXCEPT ![id] =
                [kind |-> job[w].kind, code |-> code, seated |-> 1,
                 waiting |-> job[w].kind # "local", idle |-> FALSE]]
           /\ table' \in [Ids -> Made]
<1>1. PICK code \in IF job[w].kind = "private" THEN {c \in InviteCodes : codes[c] = NoId}
                                               ELSE {NoCode} :
        table' = [table EXCEPT ![id] =
          [kind |-> job[w].kind, code |-> code, seated |-> 1,
           waiting |-> job[w].kind # "local", idle |-> FALSE]]
  BY DEF Builds
<1>2. /\ code \in InviteCodes \cup {NoCode}
      /\ code # NoCode <=> job[w].kind = "private"
      /\ code # NoCode => codes[code] = NoId
  BY RegistryAssumption
<1>3. job[w].kind \in Kind \cup {"none"} /\ 1 \in 0..Places
  BY RegistryAssumption DEF Job
<1>4. table' \in [Ids -> Made] BY <1>1, <1>2, <1>3 DEF Made
<1> QED BY <1>1, <1>2, <1>4

-----------------------------------------------------------------------------
(* The invariant *)

\* A worker that holds a table between the two maps: being inserted or being removed.
Holds(w) == job[w].at \in {"coding", "inserting", "forgetting"}

\* Nobody else holds or lists the table a worker holds; it is what the worker made, and
\* only private tables have codes.
JobsInv ==
  /\ \A w \in Workers :
       Holds(w) => job[w].id \in Ids \ tables /\ table[job[w].id].kind # "none"
  /\ \A w \in Workers :
       job[w].at \in {"coding", "inserting"} => table[job[w].id].kind = job[w].kind
  /\ \A w \in Workers :
       job[w].at \in {"coding", "forgetting"} => table[job[w].id].code # NoCode
  /\ \A v, w \in Workers : v # w /\ Holds(v) /\ Holds(w) => job[v].id # job[w].id
  /\ \A id \in tables : table[id].kind # "none"
  /\ \A id \in Ids : table[id].code # NoCode <=> table[id].kind = "private"

\* The tables whose codes are in the second map.
Known == tables \cup At("inserting") \cup At("forgetting")

CodesInv ==
  /\ \A id \in Known : table[id].code # NoCode => codes[table[id].code] = id
  /\ \A c \in InviteCodes :
       codes[c] # NoId => table[codes[c]].code = c /\ codes[c] \in Known
  /\ \A w \in Workers : job[w].at = "coding" => codes[table[job[w].id].code] = NoId

\* The public tables a player may sit down at.
Openable == {id \in InRegistry("public") : MaySit(table[id])}

\* The holder of the lock has not yet tried every open table, or there is none and it
\* opens one.
Tries(w) ==
  /\ job[w].at \in {"matching", "finding", "seating"}
  /\ \A id \in Openable :
       \/ \E o \in job[w].open : o.id = id
       \/ job[w].at \in {"finding", "seating"} /\ job[w].id = id

Opens(w) ==
  /\ job[w].kind = "public"
  /\ job[w].at \in {"counting", "measuring", "evicting", "building", "inserting",
                    "removing", "forgetting"}
  /\ Openable = {}

MatchInv ==
  /\ \A a, b \in Openable : a = b
  /\ \A w \in Workers : job[w].kind = "public" \/ job[w].at = "matching" => matchmaking = w
  /\ \A w \in Workers : matchmaking = w => Tries(w) \/ Opens(w)

\* A public table whose last seat is taken starts.
FullTablesStart ==
  \A id \in Ids : table[id].kind = "public" /\ table[id].waiting => table[id].seated < Places

\* A worker that creates knows what kind of table.
KindChosen ==
  \A w \in Workers : job[w].at \in {"counting", "measuring", "building"} => job[w].kind # "none"

RegistryInv == Typed /\ KindChosen /\ JobsInv /\ CodesInv /\ MatchInv /\ FullTablesStart

-----------------------------------------------------------------------------
(* One step: the types *)

LEMMA TypedStep ==
  ASSUME Typed, JobsInv, [Next]_vars
  PROVE  Typed'
<1> USE DEF Becomes
<1>1. ASSUME NEW w \in Workers, RemovesTable(w) PROVE Typed'
  BY <1>1, RemovesTableJob DEF RemovesTable
<1>2. ASSUME NEW w \in Workers, ForgetsCode(w) PROVE Typed'
  BY <1>2, ForgetsCodeJob DEF ForgetsCode, CodeGoes
<1>3. ASSUME NEW w \in Workers, HasRemoved(w) PROVE Typed'
  BY <1>3, RestJob, GoJob DEF HasRemoved, Step
<1>4. ASSUME NEW w \in Workers, Evicts(w) PROVE Typed'
  BY <1>4, EvictsJob DEF Evicts
<1>5. ASSUME NEW w \in Workers, EvictionJob(w) PROVE Typed'
  BY <1>5, GoJob DEF EvictionJob, Step
<1>6. ASSUME NEW w \in Workers, NEW kind \in Kind, Creates(w, kind) PROVE Typed'
  BY <1>6, CreatesJob DEF Creates
<1>7. ASSUME NEW w \in Workers, Counts(w) PROVE Typed'
  BY <1>7, CountsJob DEF Counts
<1>8. ASSUME NEW w \in Workers, Measures(w) PROVE Typed'
  <2>1. job' \in [Workers -> Job] BY <1>8, MeasuresJob
  <2>2. matchmaking' \in Workers \cup {NoWorker} BY <1>8, ReleaseTyped, MeasuresJob
  <2> QED BY <1>8, <2>1, <2>2 DEF Measures
<1>9. ASSUME NEW w \in Workers, NEW id \in Ids, Builds(w, id) PROVE Typed'
  <2>1. job' \in [Workers -> Job] BY <1>9, BuildsJob
  <2>2. table' \in [Ids -> Made] BY <1>9, BuildsTable
  <2> QED BY <1>9, <2>1, <2>2 DEF Builds
<1>10. ASSUME NEW w \in Workers, InsertsCode(w) PROVE Typed'
  <2>1. job' \in [Workers -> Job] BY <1>10, GoJob DEF InsertsCode, Step
  <2>2. job[w].id \in Ids \cup {NoId} BY DEF Job
  <2> QED BY <1>10, <2>1, <2>2 DEF InsertsCode
<1>11. ASSUME NEW w \in Workers, InsertsTable(w) PROVE Typed'
  <2>0. job[w].id \in Ids BY <1>11 DEF InsertsTable, JobsInv, Holds
  <2>1. job' \in [Workers -> Job] BY <1>11, RestJob DEF InsertsTable
  <2>2. matchmaking' \in Workers \cup {NoWorker} BY <1>11, ReleaseTyped DEF InsertsTable
  <2> QED BY <1>11, <2>0, <2>1, <2>2 DEF InsertsTable
<1>12. ASSUME NEW w \in Workers, NEW c \in InviteCodes, LooksUp(w, c) PROVE Typed'
  BY <1>12, LooksUpJob DEF LooksUp
<1>13. ASSUME NEW w \in Workers, Finds(w) PROVE Typed'
  <2>1. job' \in [Workers -> Job] BY <1>13, GoJob, GivesUpJob DEF Finds, Step
  <2> QED BY <1>13, <2>1 DEF Finds
<1>14. ASSUME NEW w \in Workers, Sits(w) PROVE Typed'
  <2>1. job' \in [Workers -> Job] BY <1>14, RestJob, GivesUpJob DEF Sits
  <2>2. matchmaking' \in Workers \cup {NoWorker} BY <1>14, ReleaseTyped DEF Sits
  <2>3. table' \in [Ids -> Made] BY <1>14, SitsTyped
  <2> QED BY <1>14, <2>1, <2>2, <2>3 DEF Sits
<1>15. ASSUME NEW w \in Workers, QuickMatches(w) PROVE Typed'
  BY <1>15, QuickMatchesJob DEF QuickMatches
<1>16. ASSUME NEW w \in Workers, TriesNext(w) PROVE Typed'
  <2>1. job' \in [Workers -> Job] BY <1>16, TriesNextJob
  <2> QED BY <1>16, <2>1 DEF TriesNext
<1>17. ASSUME NEW w \in Workers, NEW id \in Ids, Leaves(w, id) PROVE Typed'
  <2>1. job' \in [Workers -> Job] BY <1>17, LeavesJob
  <2>2. table' \in [Ids -> Made] BY <1>17, LeavesTyped
  <2> QED BY <1>17, <2>1, <2>2 DEF Leaves
<1>18. ASSUME NEW id \in Ids, Starts(id) \/ IsUsed(id) \/ GoesIdle(id) PROVE Typed'
  <2>1. /\ [table[id] EXCEPT !.waiting = FALSE] \in Made
        /\ \A b \in BOOLEAN : [table[id] EXCEPT !.idle = b] \in Made
    BY DEF Made
  <2>2. \/ table' = [table EXCEPT ![id] = [table[id] EXCEPT !.waiting = FALSE]]
        \/ \E b \in BOOLEAN : table' = [table EXCEPT ![id] = [table[id] EXCEPT !.idle = b]]
    BY <1>18 DEF Starts, IsUsed, GoesIdle
  <2>3. table' \in [Ids -> Made] BY <2>1, <2>2
  <2> QED BY <1>18, <2>3 DEF Starts, IsUsed, GoesIdle
<1>19. CASE UNCHANGED vars
  BY <1>19 DEF vars
<1> QED
  BY <1>1, <1>2, <1>3, <1>4, <1>5, <1>6, <1>7, <1>8, <1>9, <1>10, <1>11, <1>12, <1>13,
     <1>14, <1>15, <1>16, <1>17, <1>18, <1>19
  DEF Next, Continues, Begins
-----------------------------------------------------------------------------
(* One step: the tables that are held, and the codes *)

KindsKept ==
  \A id \in Ids : table'[id].kind = table[id].kind /\ table'[id].code = table[id].code

\* A step in which nobody takes or lets go of a table.
LEMMA QuietStep ==
  ASSUME Typed, Typed', JobsInv, CodesInv, UNCHANGED <<tables, codes>>, KindsKept,
         \A w \in Workers : Holds(w) \/ Holds(w)' => job'[w] = job[w]
  PROVE  JobsInv' /\ CodesInv'
<1>1. \A w \in Workers : (Holds(w)' <=> Holds(w)) /\ (Holds(w) => job'[w] = job[w])
  BY DEF Holds
<1>2. At("inserting")' = At("inserting") /\ At("forgetting")' = At("forgetting")
  BY <1>1 DEF At, Holds
<1>3. Known' = Known BY <1>2 DEF Known
<1>4. JobsInv' BY <1>1 DEF JobsInv, Holds, KindsKept
<1>5. Known \subseteq Ids
  BY DEF Known, At, JobsInv, Holds
<1>6. \A id \in Known' : table'[id].code # NoCode => codes'[table'[id].code] = id
  BY <1>3, <1>5 DEF CodesInv, KindsKept
<1>7. \A c \in InviteCodes :
        codes'[c] # NoId => table'[codes'[c]].code = c /\ codes'[c] \in Known'
  BY <1>3, <1>5 DEF CodesInv, KindsKept
<1>8. \A w \in Workers : job'[w].at = "coding" => codes'[table'[job'[w].id].code] = NoId
  BY <1>1 DEF CodesInv, KindsKept, Holds, JobsInv
<1> QED BY <1>4, <1>6, <1>7, <1>8 DEF CodesInv

\* A step of one worker who holds no table before and after.
LEMMA QuietWorker ==
  ASSUME Typed, Typed', JobsInv, CodesInv, UNCHANGED <<tables, codes>>, KindsKept,
         NEW w \in Workers, ~Holds(w), NEW j, Becomes(w, j),
         j.at \notin {"coding", "inserting", "forgetting"}
  PROVE  JobsInv' /\ CodesInv'
<1>1. \A v \in Workers : Holds(v) \/ Holds(v)' => job'[v] = job[v]
  BY DEF Becomes, Holds
<1> QED BY <1>1, QuietStep

LEMMA KnownAreIds ==
  ASSUME Typed, JobsInv
  PROVE  Known \subseteq Ids /\ \A id \in Known : table[id].kind # "none"
BY DEF Known, At, JobsInv, Holds

\* A table goes from the registry, and its worker holds it if its code is to be forgotten.
LEMMA RemovesTableCodes ==
  ASSUME Typed, Typed', JobsInv, CodesInv, NEW w \in Workers, RemovesTable(w)
  PROVE  JobsInv' /\ CodesInv'
<1>1. PICK id \in job[w].doomed :
        /\ tables' = tables \ {id}
        /\ Becomes(w, IF id \in tables /\ table[id].code # NoCode
                      THEN [job[w] EXCEPT !.doomed = job[w].doomed \ {id},
                                          !.at = "forgetting", !.id = id]
                      ELSE [job[w] EXCEPT !.doomed = job[w].doomed \ {id}])
  BY RemovesTableJob
<1>2. job[w].at = "removing" /\ ~Holds(w) /\ job[w] \in Job
      /\ UNCHANGED <<codes, table, matchmaking>>
  BY DEF RemovesTable, Holds
<1>3. \A v \in Workers : v # w => job'[v] = job[v]
  BY <1>1 DEF Becomes
<1>4. CASE id \notin tables
  <2>1. tables' = tables BY <1>1, <1>4
  <2>2. Becomes(w, [job[w] EXCEPT !.doomed = job[w].doomed \ {id}]) BY <1>1, <1>4
  <2>3. [job[w] EXCEPT !.doomed = job[w].doomed \ {id}].at = "removing"
    BY <1>2 DEF Job
  <2> QED BY <1>2, <2>1, <2>2, <2>3, QuietWorker DEF KindsKept
<1>5. CASE id \in tables /\ table[id].code = NoCode
  <2>1. job'[w].at = "removing" BY <1>1, <1>2, <1>5 DEF Becomes, Job
  <2>2. \A v \in Workers : (Holds(v)' <=> Holds(v)) /\ (Holds(v) => job'[v] = job[v])
    BY <1>2, <1>3, <2>1 DEF Holds
  <2>3. At("inserting")' = At("inserting") /\ At("forgetting")' = At("forgetting")
    BY <2>2 DEF At, Holds
  <2>4. Known' \cup {id} = Known BY <1>1, <1>5, <2>3 DEF Known
  <2>5. JobsInv' BY <1>1, <1>2, <2>2 DEF JobsInv, Holds
  <2>6. \A c \in InviteCodes : codes[c] # id
    BY <1>5, RegistryAssumption DEF CodesInv
  <2>7. CodesInv' BY <1>2, <2>2, <2>4, <2>6 DEF CodesInv, Holds
  <2> QED BY <2>5, <2>7
<1>6. CASE id \in tables /\ table[id].code # NoCode
  <2>1. job'[w].at = "forgetting" /\ job'[w].id = id
    BY <1>1, <1>2, <1>6 DEF Becomes, Job
  <2>2. \A v \in Workers : v # w => (Holds(v)' <=> Holds(v))
    BY <1>3 DEF Holds
  <2>3. /\ At("inserting")' = At("inserting")
        /\ At("forgetting")' = At("forgetting") \cup {id}
    BY <1>2, <1>3, <2>1 DEF At
  <2>4. Known' = Known BY <1>1, <1>6, <2>3 DEF Known
  <2>5. JobsInv' BY <1>1, <1>2, <1>3, <1>6, <2>1, <2>2 DEF JobsInv, Holds
  <2>6. CodesInv' BY <1>2, <1>3, <2>1, <2>4 DEF CodesInv
  <2> QED BY <2>5, <2>6
<1> QED BY <1>4, <1>5, <1>6

LEMMA ForgetsCodeCodes ==
  ASSUME Typed, Typed', JobsInv, CodesInv, NEW w \in Workers, ForgetsCode(w)
  PROVE  JobsInv' /\ CodesInv'
<1> DEFINE id == job[w].id
<1>0. /\ job'[w] = [job[w] EXCEPT !.at = "removing", !.id = NoId]
      /\ \A v \in Workers : v # w => job'[v] = job[v]
  BY ForgetsCodeJob DEF Becomes
<1>1. /\ job[w].at = "forgetting" /\ Holds(w) /\ job[w] \in Job
      /\ UNCHANGED <<tables, table, matchmaking>>
      /\ codes' = [codes EXCEPT ![table[id].code] = NoId]
      /\ job'[w].at = "removing"
      /\ \A v \in Workers : v # w => job'[v] = job[v]
  <2>1. job[w] \in Job OBVIOUS
  <2>2. job'[w].at = "removing" BY <1>0, <2>1 DEF Job
  <2> QED BY <1>0, <2>1, <2>2 DEF ForgetsCode, Holds, CodeGoes
<1>2. id \in Known /\ id \in Ids \ tables /\ table[id].code \in InviteCodes
  BY <1>1 DEF Known, At, JobsInv, Made
<1>3. \A v \in Workers : v # w => (Holds(v)' <=> Holds(v))
  BY <1>1 DEF Holds
<1>4. JobsInv' BY <1>1, <1>3 DEF JobsInv, Holds
<1>5. Known' = Known \ {id}
  <2>1. At("inserting")' = At("inserting") BY <1>1 DEF At
  <2>2. At("forgetting")' = At("forgetting") \ {id} BY <1>1 DEF At, JobsInv, Holds
  <2>3. id \notin At("inserting") BY <1>1 DEF At, JobsInv, Holds
  <2> QED BY <1>1, <1>2, <2>1, <2>2, <2>3 DEF Known
<1>6. codes[table[id].code] = id BY <1>2, RegistryAssumption DEF CodesInv
<1> HIDE DEF id
<1>7. \A i \in Known' : table'[i].code # NoCode => codes'[table'[i].code] = i
  BY <1>1, <1>2, <1>5, <1>6, KnownAreIds DEF CodesInv
<1>8. \A c \in InviteCodes :
        codes'[c] # NoId => table'[codes'[c]].code = c /\ codes'[c] \in Known'
  BY <1>1, <1>2, <1>5, <1>6 DEF CodesInv
<1>9. \A v \in Workers : job'[v].at = "coding" => codes'[table'[job'[v].id].code] = NoId
  BY <1>1, <1>2 DEF CodesInv
<1> QED BY <1>4, <1>7, <1>8, <1>9 DEF CodesInv

LEMMA BuildsCodes ==
  ASSUME Typed, Typed', KindChosen, JobsInv, CodesInv,
         NEW w \in Workers, NEW id \in Ids, Builds(w, id)
  PROVE  JobsInv' /\ CodesInv'
<1>1. PICK code \in InviteCodes \cup {NoCode} :
        /\ code # NoCode <=> job[w].kind = "private"
        /\ code # NoCode => codes[code] = NoId
        /\ table' = [table EXCEPT ![id] =
             [kind |-> job[w].kind, code |-> code, seated |-> 1,
              waiting |-> job[w].kind # "local", idle |-> FALSE]]
  BY BuildsTable
<1>2. \A v \in Workers : v # w => job'[v] = job[v]
  BY BuildsJob DEF Becomes
<1>3. /\ ~Holds(w) /\ job[w].kind # "none" /\ table[id].kind = "none"
      /\ UNCHANGED <<tables, codes, matchmaking>>
  BY DEF Builds, Holds, KindChosen, NotMade
<1>4. /\ job'[w].id = id /\ job'[w].kind = job[w].kind
      /\ job'[w].at = IF job[w].kind = "private" THEN "coding" ELSE "inserting"
  <2>1. job[w] \in Job OBVIOUS
  <2>2. job'[w] = [job[w] EXCEPT !.id = id,
                                 !.at = IF job[w].kind = "private" THEN "coding"
                                                                   ELSE "inserting"]
    BY BuildsJob DEF Becomes
  <2> QED BY <2>1, <2>2 DEF Job
<1>5. /\ table'[id].kind = job[w].kind /\ table'[id].code = code
      /\ \A i \in Ids : i # id => table'[i] = table[i]
  BY <1>1
<1>6. id \notin Known /\ \A v \in Workers : Holds(v) => job[v].id # id
  BY <1>3, KnownAreIds DEF JobsInv
<1>7. \A v \in Workers : v # w => (Holds(v)' <=> Holds(v))
  BY <1>2 DEF Holds
<1>8. JobsInv'
  <2>1. \A v \in Workers :
          Holds(v)' => job'[v].id \in Ids \ tables' /\ table'[job'[v].id].kind # "none"
    <3>1. id \notin tables BY <1>6 DEF Known
    <3> QED BY <1>2, <1>3, <1>4, <1>5, <1>6, <1>7, <3>1 DEF JobsInv
  <2>2. \A v \in Workers :
          job'[v].at \in {"coding", "inserting"} => table'[job'[v].id].kind = job'[v].kind
    BY <1>2, <1>4, <1>5, <1>6 DEF JobsInv, Holds
  <2>3. \A v \in Workers :
          job'[v].at \in {"coding", "forgetting"} => table'[job'[v].id].code # NoCode
    BY <1>1, <1>2, <1>4, <1>5, <1>6 DEF JobsInv, Holds
  <2>4. \A u, v \in Workers : u # v /\ Holds(u)' /\ Holds(v)' => job'[u].id # job'[v].id
    BY <1>2, <1>4, <1>6, <1>7 DEF JobsInv
  <2>5. \A i \in tables' : table'[i].kind # "none"
    BY <1>3, <1>5 DEF JobsInv
  <2>6. \A i \in Ids : table'[i].code # NoCode <=> table'[i].kind = "private"
    BY <1>1, <1>5 DEF JobsInv
  <2> QED BY <2>1, <2>2, <2>3, <2>4, <2>5, <2>6 DEF JobsInv
<1>9. CodesInv'
  <2>1. Known' = Known \cup (IF job[w].kind = "private" THEN {} ELSE {id})
    <3>1. At("forgetting")' = At("forgetting")
      BY <1>2, <1>3, <1>4 DEF At, Holds
    <3>2. At("inserting")' = At("inserting")
                               \cup (IF job[w].kind = "private" THEN {} ELSE {id})
      BY <1>2, <1>3, <1>4 DEF At, Holds
    <3> QED BY <1>3, <3>1, <3>2 DEF Known
  <2>2. \A i \in Known : i \in Ids /\ table'[i] = table[i]
    BY <1>5, <1>6, KnownAreIds
  <2>3. \A i \in Known' : table'[i].code # NoCode => codes'[table'[i].code] = i
    BY <1>1, <1>3, <1>5, <2>1, <2>2 DEF CodesInv
  <2>4. \A c \in InviteCodes :
          codes'[c] # NoId => table'[codes'[c]].code = c /\ codes'[c] \in Known'
    BY <1>3, <2>1, <2>2 DEF CodesInv
  <2>5. \A v \in Workers : job'[v].at = "coding" => codes'[table'[job'[v].id].code] = NoId
    BY <1>1, <1>2, <1>3, <1>4, <1>5, <1>6 DEF CodesInv, JobsInv, Holds
  <2> QED BY <2>3, <2>4, <2>5 DEF CodesInv
<1> QED BY <1>8, <1>9

LEMMA InsertsCodeCodes ==
  ASSUME Typed, Typed', JobsInv, CodesInv, DrawsDiffer, NEW w \in Workers, InsertsCode(w)
  PROVE  JobsInv' /\ CodesInv'
<1> DEFINE id == job[w].id
           code == table[id].code
<1>1. \A v \in Workers : v # w => job'[v] = job[v]
  BY GoJob DEF InsertsCode, Becomes, Step
<1>2. /\ job[w].at = "coding" /\ Holds(w) /\ id \in Ids \ tables
      /\ codes' = [codes EXCEPT ![code] = id]
      /\ UNCHANGED <<tables, table, matchmaking>>
      /\ code \in InviteCodes /\ codes[code] = NoId
  BY DEF InsertsCode, JobsInv, Holds, CodesInv, Made
<1>3. /\ job'[w].id = id /\ job'[w].kind = job[w].kind /\ job'[w].at = "inserting"
  <2>1. job[w] \in Job OBVIOUS
  <2>2. job'[w] = [job[w] EXCEPT !.at = "inserting"]
    BY GoJob DEF InsertsCode, Becomes, Step
  <2> QED BY <2>1, <2>2 DEF Job
<1>4. \A v \in Workers : (Holds(v)' <=> Holds(v)) /\ job'[v].id = job[v].id
  BY <1>1, <1>2, <1>3 DEF Holds
<1>5. JobsInv' BY <1>1, <1>2, <1>3, <1>4 DEF JobsInv, Holds
<1>6. Known' = Known \cup {id}
  <2>1. At("inserting")' = At("inserting") \cup {id} BY <1>1, <1>2, <1>3 DEF At
  <2>2. At("forgetting")' = At("forgetting") BY <1>1, <1>2, <1>3 DEF At
  <2> QED BY <1>2, <2>1, <2>2 DEF Known
<1>7. \A v \in Workers : v # w /\ job[v].at = "coding" => table[job[v].id].code # code
  <2> SUFFICES ASSUME NEW v \in Workers, v # w, job[v].at = "coding",
                      table[job[v].id].code = code
               PROVE  FALSE
    OBVIOUS
  <2>1. job[v].id \in Ids /\ job[v].id # id BY <1>2 DEF JobsInv, Holds
  <2>2. job[v].id \in At("coding") /\ id \in At("coding") BY <1>2 DEF At
  <2>3. code # NoCode BY <1>2, RegistryAssumption
  <2> QED BY <1>2, <2>1, <2>2, <2>3 DEF DrawsDiffer
<1>8. NoId \notin Ids BY RegistryAssumption
<1> HIDE DEF id, code
<1>9. \A i \in Known' : table'[i].code # NoCode => codes'[table'[i].code] = i
  <2>1. \A i \in Known : i \in Ids /\ (table[i].code # NoCode => table[i].code # code)
    BY <1>2, <1>8, KnownAreIds DEF CodesInv
  <2>2. table[id].code = code BY DEF id, code
  <2>3. \A i \in Known : table[i].code # NoCode => codes'[table[i].code] = i
    <3>1. \A i \in Known : table[i].code \in InviteCodes \cup {NoCode}
      BY <2>1 DEF Made
    <3> QED BY <1>2, <2>1, <3>1 DEF CodesInv
  <2> QED BY <1>2, <1>6, <2>2, <2>3
<1>10. \A c \in InviteCodes :
         codes'[c] # NoId => table'[codes'[c]].code = c /\ codes'[c] \in Known'
  <2>1. table[id].code = code BY DEF id, code
  <2> QED BY <1>2, <1>6, <2>1 DEF CodesInv
<1>11. \A v \in Workers : job'[v].at = "coding" => codes'[table'[job'[v].id].code] = NoId
  <2> SUFFICES ASSUME NEW v \in Workers, job'[v].at = "coding"
               PROVE  codes'[table'[job'[v].id].code] = NoId
    OBVIOUS
  <2>1. v # w /\ job[v].at = "coding" /\ job'[v].id = job[v].id BY <1>1, <1>3
  <2>2. job[v].id \in Ids /\ table[job[v].id].code \in InviteCodes
    BY <2>1 DEF JobsInv, Holds, Made
  <2> QED BY <1>2, <1>7, <2>1, <2>2 DEF CodesInv
<1> QED BY <1>5, <1>9, <1>10, <1>11 DEF CodesInv

LEMMA InsertsTableCodes ==
  ASSUME Typed, Typed', JobsInv, CodesInv, NEW w \in Workers, InsertsTable(w)
  PROVE  JobsInv' /\ CodesInv'
<1> DEFINE id == job[w].id
<1>1. /\ job'[w] = AtRest /\ \A v \in Workers : v # w => job'[v] = job[v]
      /\ job[w].at = "inserting" /\ Holds(w)
      /\ tables' = tables \cup {id} /\ UNCHANGED <<codes, table>>
      /\ id \in Ids /\ table[id].kind # "none"
  BY RestJob DEF InsertsTable, Becomes, JobsInv, Holds
<1>2. /\ ~Holds(w)' /\ job'[w].at = "rest"
      /\ \A v \in Workers : v # w => (Holds(v)' <=> Holds(v)) /\ (Holds(v) => job[v].id # id)
  BY <1>1 DEF Holds, AtRest, JobsInv
<1>3. JobsInv' BY <1>1, <1>2 DEF JobsInv, Holds
<1>4. Known' = Known
  <2>1. At("forgetting")' = At("forgetting") BY <1>1, <1>2 DEF At
  <2>2. At("inserting")' \cup {id} = At("inserting") BY <1>1, <1>2 DEF At
  <2> QED BY <1>1, <2>1, <2>2 DEF Known
<1>5. CodesInv' BY <1>1, <1>2, <1>4 DEF CodesInv
<1> QED BY <1>3, <1>5

\* What happens at a table changes neither its kind nor its code.
LEMMA SeatsKeepKinds ==
  ASSUME Typed, NEW w \in Workers, NEW id \in Ids,
         Sits(w) \/ Leaves(w, id) \/ Starts(id) \/ IsUsed(id) \/ GoesIdle(id)
  PROVE  KindsKept
<1>1. CASE Sits(w)
  BY <1>1 DEF KindsKept, Sits, Made
<1>2. CASE Leaves(w, id)
  BY <1>2 DEF KindsKept, Leaves, Made
<1>3. CASE Starts(id) \/ IsUsed(id) \/ GoesIdle(id)
  BY <1>3 DEF KindsKept, Starts, IsUsed, GoesIdle, Made
<1> QED BY <1>1, <1>2, <1>3

\* The steps of a worker that holds no table before or after.
LEMMA QuietSteps ==
  ASSUME Typed, Typed', JobsInv, CodesInv, NEW w \in Workers,
         \/ HasRemoved(w) \/ Evicts(w) \/ EvictionJob(w)
         \/ \E kind \in Kind : Creates(w, kind)
         \/ Counts(w) \/ Measures(w)
         \/ \E c \in InviteCodes : LooksUp(w, c)
         \/ Finds(w) \/ Sits(w) \/ QuickMatches(w) \/ TriesNext(w)
  PROVE  JobsInv' /\ CodesInv'
<1>0. job[w] \in Job OBVIOUS
<1>1. UNCHANGED <<tables, codes>> /\ ~Holds(w)
  BY DEF HasRemoved, Evicts, EvictionJob, Creates, Counts, Measures, LooksUp, Finds, Sits,
         QuickMatches, TriesNext, Holds
<1>2. KindsKept
  <2>1. CASE table' = table BY <2>1 DEF KindsKept
  <2>2. CASE table' # table
    <3>1. Sits(w)
      BY <2>2 DEF HasRemoved, Evicts, EvictionJob, Creates, Counts, Measures, LooksUp, Finds,
                  Sits, QuickMatches, TriesNext
    <3> QED BY <3>1 DEF KindsKept, Sits, Made
  <2> QED BY <2>1, <2>2
<1>3. \E j : Becomes(w, j) /\ j.at \notin {"coding", "inserting", "forgetting"}
  <2>1. AtRest.at = "rest" BY DEF AtRest
  <2>2. \A x \in Step : [job[w] EXCEPT !.at = x].at = x BY <1>0 DEF Job
  <2>3. CASE HasRemoved(w)
    <3>1. Becomes(w, AtRest) \/ Becomes(w, [job[w] EXCEPT !.at = "counting"])
      BY <2>3, RestJob, GoJob DEF HasRemoved, Step
    <3> QED BY <2>1, <2>2, <3>1 DEF Step
  <2>4. CASE Evicts(w)
    <3>1. [job[w] EXCEPT !.at = "removing", !.doomed = Idle].at = "removing"
      BY <1>0 DEF Job
    <3> QED BY <2>4, <3>1, EvictsJob
  <2>5. CASE EvictionJob(w)
    <3>1. Becomes(w, [job[w] EXCEPT !.at = "evicting"])
      BY <2>5, GoJob DEF EvictionJob, Step
    <3> QED BY <2>2, <3>1 DEF Step
  <2>6. ASSUME NEW kind \in Kind, Creates(w, kind)
        PROVE  \E j : Becomes(w, j) /\ j.at \notin {"coding", "inserting", "forgetting"}
    <3>1. [job[w] EXCEPT !.at = "counting", !.kind = kind].at = "counting"
      BY <1>0 DEF Job
    <3> QED BY <2>6, <3>1, CreatesJob
  <2>7. CASE Counts(w)
    <3> DEFINE n == Cardinality(InRegistry("local"))
    <3> HIDE DEF n
    <3>1. [job[w] EXCEPT !.at = "measuring", !.local = n].at = "measuring"
      BY <1>0 DEF Job
    <3>2. Becomes(w, [job[w] EXCEPT !.at = "measuring", !.local = n])
      BY <2>7, CountsJob DEF n
    <3> QED BY <3>1, <3>2
  <2>8. CASE Measures(w)
    <3>1. /\ [job[w] EXCEPT !.at = "building", !.local = 0].at = "building"
          /\ [job[w] EXCEPT !.at = "evicting", !.evicted = TRUE, !.local = 0].at = "evicting"
      BY <1>0 DEF Job
    <3> QED BY <2>1, <2>8, <3>1, MeasuresJob
  <2>9. ASSUME NEW c \in InviteCodes, LooksUp(w, c)
        PROVE  \E j : Becomes(w, j) /\ j.at \notin {"coding", "inserting", "forgetting"}
    <3>1. [job[w] EXCEPT !.at = "finding", !.id = codes[c]].at = "finding"
      BY <1>0 DEF Job
    <3> QED BY <2>9, <3>1, LooksUpJob
  <2>10. [job[w] EXCEPT !.at = "matching", !.id = NoId].at = "matching"
    BY <1>0 DEF Job
  <2>11. CASE GivesUp(w)
    <3>1. CASE matchmaking = w BY <2>10, <2>11, <3>1, GivesUpJob
    <3>2. CASE matchmaking # w BY <2>1, <2>11, <3>2, GivesUpJob
    <3> QED BY <3>1, <3>2
  <2>12. CASE Finds(w)
    <3>1. Go(w, "seating") \/ GivesUp(w) BY <2>12 DEF Finds
    <3> QED BY <2>2, <2>11, <3>1, GoJob DEF Step
  <2>13. CASE Sits(w)
    <3>1. Rest(w) \/ GivesUp(w) BY <2>13 DEF Sits
    <3> QED BY <2>1, <2>11, <3>1, RestJob
  <2>14. CASE QuickMatches(w)
    <3> DEFINE S == Listed
    <3> HIDE DEF S
    <3>1. [job[w] EXCEPT !.at = "matching", !.open = S].at = "matching"
      BY <1>0 DEF Job
    <3>2. Becomes(w, [job[w] EXCEPT !.at = "matching", !.open = S])
      BY <2>14, QuickMatchesJob DEF S
    <3> QED BY <3>1, <3>2
  <2>15. CASE TriesNext(w)
    <3>1. [job[w] EXCEPT !.at = "counting", !.kind = "public"].at = "counting"
      BY <1>0 DEF Job
    <3>2. \A o : [job[w] EXCEPT !.at = "finding", !.id = o.id,
                                !.open = job[w].open \ {o}].at = "finding"
      BY <1>0 DEF Job
    <3> QED BY <2>15, <3>1, <3>2, TriesNextJob
  <2> QED BY <2>3, <2>4, <2>5, <2>6, <2>7, <2>8, <2>9, <2>12, <2>13, <2>14, <2>15
<1> QED BY <1>1, <1>2, <1>3, QuietWorker

LEMMA CodesStep ==
  ASSUME Typed, Typed', KindChosen, JobsInv, CodesInv, DrawsDiffer, [Next]_vars
  PROVE  JobsInv' /\ CodesInv'
<1>1. ASSUME NEW w \in Workers, Continues(w)
      PROVE  JobsInv' /\ CodesInv'
  BY <1>1, RemovesTableCodes, ForgetsCodeCodes, BuildsCodes, InsertsCodeCodes,
     InsertsTableCodes, QuietSteps DEF Continues
<1>2. ASSUME NEW w \in Workers, NEW id \in Ids, Leaves(w, id)
      PROVE  JobsInv' /\ CodesInv'
  <2>1. UNCHANGED <<tables, codes>> /\ ~Holds(w) /\ KindsKept
    BY <1>2, SeatsKeepKinds DEF Leaves, Holds
  <2>2. CASE UNCHANGED job BY <2>1, <2>2, QuietStep
  <2>3. CASE Becomes(w, [job[w] EXCEPT !.at = "removing", !.doomed = {id}])
    <3>1. job[w] \in Job OBVIOUS
    <3>2. [job[w] EXCEPT !.at = "removing", !.doomed = {id}].at = "removing"
      BY <3>1 DEF Job
    <3> QED BY <2>1, <2>3, <3>2, QuietWorker
  <2> QED BY <1>2, <2>2, <2>3, LeavesJob
<1>3. ASSUME NEW w \in Workers, Begins(w)
      PROVE  JobsInv' /\ CodesInv'
  BY <1>2, <1>3, QuietSteps DEF Begins
<1>4. ASSUME NEW id \in Ids, Starts(id) \/ IsUsed(id) \/ GoesIdle(id)
      PROVE  JobsInv' /\ CodesInv'
  <2>1. UNCHANGED <<tables, codes, job>>
    BY <1>4 DEF Starts, IsUsed, GoesIdle
  <2>2. KindsKept
    BY <1>4 DEF KindsKept, Starts, IsUsed, GoesIdle, Made
  <2> QED BY <2>1, <2>2, QuietStep
<1>5. CASE UNCHANGED vars
  BY <1>5, QuietStep DEF vars, KindsKept
<1> QED BY <1>1, <1>3, <1>4, <1>5 DEF Next

LEMMA KindStep ==
  ASSUME Typed, Typed', KindChosen, [Next]_vars
  PROVE  KindChosen'
<1>1. ASSUME NEW w \in Workers,
             RemovesTable(w) \/ ForgetsCode(w) \/ Evicts(w) \/ EvictionJob(w) \/ InsertsCode(w)
      PROVE  KindChosen'
  <2>1. CASE RemovesTable(w) BY <2>1 DEF KindChosen, RemovesTable, Job
  <2>2. CASE ForgetsCode(w) BY <2>2 DEF KindChosen, ForgetsCode, Job
  <2>3. CASE Evicts(w) BY <2>3 DEF KindChosen, Evicts, Job
  <2>4. CASE EvictionJob(w) BY <2>4 DEF KindChosen, EvictionJob, Go, Job
  <2>5. CASE InsertsCode(w) BY <2>5 DEF KindChosen, InsertsCode, Go, Job
  <2> QED BY <1>1, <2>1, <2>2, <2>3, <2>4, <2>5
<1>2. ASSUME NEW w \in Workers, HasRemoved(w) PROVE KindChosen'
  BY <1>2 DEF KindChosen, HasRemoved, Go, Rest, AtRest, Job
<1>3. ASSUME NEW w \in Workers, NEW kind \in Kind, Creates(w, kind) PROVE KindChosen'
  BY <1>3 DEF KindChosen, Creates, Kind, Job
<1>4. ASSUME NEW w \in Workers, Counts(w) PROVE KindChosen'
  <2>1. PICK n : job' = [job EXCEPT ![w].at = "measuring", ![w].local = n]
    BY <1>4 DEF Counts
  <2> QED BY <1>4, <2>1 DEF KindChosen, Counts, Job
<1>5. ASSUME NEW w \in Workers, Measures(w) PROVE KindChosen'
  BY <1>5 DEF KindChosen, Measures, Rest, AtRest, Job
<1>6. ASSUME NEW w \in Workers, NEW id \in Ids, Builds(w, id) PROVE KindChosen'
  BY <1>6 DEF KindChosen, Builds, Job
<1>7. ASSUME NEW w \in Workers, InsertsTable(w) PROVE KindChosen'
  BY <1>7 DEF KindChosen, InsertsTable, Rest, AtRest, Job
<1>8. ASSUME NEW w \in Workers, NEW c \in InviteCodes, LooksUp(w, c) PROVE KindChosen'
  BY <1>8 DEF KindChosen, LooksUp, Job
<1>9. ASSUME NEW w \in Workers, GivesUp(w) PROVE KindChosen'
  BY <1>9 DEF KindChosen, GivesUp, Rest, AtRest, Job
<1>10. ASSUME NEW w \in Workers, Finds(w) PROVE KindChosen'
  BY <1>9, <1>10 DEF KindChosen, Finds, Go, Job
<1>11. ASSUME NEW w \in Workers, Sits(w) PROVE KindChosen'
  <2>1. GivesUp(w) \/ Rest(w) BY <1>11 DEF Sits
  <2> QED BY <1>9, <2>1 DEF KindChosen, Rest, AtRest
<1>12. ASSUME NEW w \in Workers, QuickMatches(w) PROVE KindChosen'
  <2>1. PICK S : job' = [job EXCEPT ![w].at = "matching", ![w].open = S]
    BY <1>12 DEF QuickMatches
  <2> QED BY <2>1 DEF KindChosen, Job
<1>13. ASSUME NEW w \in Workers, TriesNext(w) PROVE KindChosen'
  <2>1. CASE job' = [job EXCEPT ![w].at = "counting", ![w].kind = "public"]
    BY <2>1 DEF KindChosen, Job
  <2>2. ASSUME NEW o,
               job' = [job EXCEPT ![w].at = "finding", ![w].id = o.id, ![w].open = @ \ {o}]
        PROVE  KindChosen'
    BY <2>2 DEF KindChosen, Job
  <2> QED BY <1>13, <2>1, <2>2 DEF TriesNext
<1>14. ASSUME NEW w \in Workers, NEW id \in Ids, Leaves(w, id) PROVE KindChosen'
  <2>1. \/ job' = [job EXCEPT ![w].at = "removing", ![w].doomed = {id}]
        \/ UNCHANGED job
    BY <1>14 DEF Leaves
  <2> QED BY <2>1 DEF KindChosen, Job
<1>15. ASSUME UNCHANGED job PROVE KindChosen'
  BY <1>15 DEF KindChosen
<1> QED
  BY <1>1, <1>2, <1>3, <1>4, <1>5, <1>6, <1>7, <1>8, <1>10, <1>11, <1>12, <1>13, <1>14, <1>15
  DEF Next, Continues, Begins, Starts, IsUsed, GoesIdle, vars

LEMMA FullTablesStep ==
  ASSUME Typed, Typed', FullTablesStart, [Next]_vars
  PROVE  FullTablesStart'
<1> USE DEF FullTablesStart
<1>1. ASSUME NEW w \in Workers, Sits(w) PROVE FullTablesStart'
  <2> DEFINE i == job[w].id
  <2>1. CASE UNCHANGED table BY <2>1
  <2>2. CASE ~UNCHANGED table
    <3>1. /\ MaySit(table[i])
          /\ table' = [table EXCEPT ![i].seated = @ + 1, ![i].idle = FALSE,
                         ![i].waiting = ~(table[i].kind = "public"
                                            /\ table[i].seated = Places - 1)]
      BY <1>1, <2>2 DEF Sits
    <3> HIDE DEF i
    <3>2. i \in Ids BY <2>2, <3>1
    <3>3. /\ table'[i].kind = table[i].kind /\ table'[i].seated = table[i].seated + 1
          /\ table'[i].waiting = ~(table[i].kind = "public" /\ table[i].seated = Places - 1)
          /\ \A id \in Ids : id # i => table'[id] = table[id]
      BY <3>1, <3>2 DEF Made
    <3>4. table[i].seated \in 1..(Places - 1) /\ Places \in Nat
      BY <3>1, RegistryAssumption DEF MaySit
    <3>5. table[i].kind = "public" /\ table'[i].waiting => table[i].seated # Places - 1
      BY <3>3
    <3>6. table[i].seated # Places - 1 => table[i].seated + 1 < Places
      BY <3>4
    <3> QED BY <3>2, <3>3, <3>5, <3>6
  <2> QED BY <2>1, <2>2
<1>2. ASSUME NEW w \in Workers, NEW id \in Ids, Leaves(w, id) PROVE FullTablesStart'
  <2>1. table[id].seated \in 1..Places /\ Places \in Nat
    BY <1>2, RegistryAssumption DEF Leaves, Made
  <2> DEFINE n == IF table[id].kind = "local" THEN 0 ELSE table[id].seated - 1
  <2>2. n < Places BY <2>1
  <2>3. table' = [table EXCEPT ![id].seated = n, ![id].idle = FALSE] BY <1>2 DEF Leaves
  <2> HIDE DEF n
  <2>4. table'[id].seated = n /\ \A i \in Ids : i # id => table'[i] = table[i]
    BY <2>3 DEF Made
  <2> QED BY <2>2, <2>4
<1>3. ASSUME NEW w \in Workers, NEW id \in Ids, Builds(w, id) PROVE FullTablesStart'
  <2>1. PICK code : table' = [table EXCEPT ![id] =
          [kind |-> job[w].kind, code |-> code, seated |-> 1,
           waiting |-> job[w].kind # "local", idle |-> FALSE]]
    BY <1>3, BuildsTable
  <2> QED BY <2>1, RegistryAssumption
<1>4. ASSUME NEW id \in Ids, Starts(id) \/ IsUsed(id) \/ GoesIdle(id) PROVE FullTablesStart'
  <2>1. CASE Starts(id) BY <2>1 DEF Starts, Made
  <2>2. CASE IsUsed(id) \/ GoesIdle(id)
    <3>1. \A i \in Ids : /\ table'[i].kind = table[i].kind
                         /\ table'[i].waiting = table[i].waiting
                         /\ table'[i].seated = table[i].seated
      BY <2>2 DEF IsUsed, GoesIdle, Made
    <3> QED BY <3>1
  <2> QED BY <1>4, <2>1, <2>2
<1>5. ASSUME UNCHANGED table PROVE FullTablesStart'
  BY <1>5
<1> QED
  BY <1>1, <1>2, <1>3, <1>4, <1>5
  DEF Next, Continues, Begins, RemovesTable, ForgetsCode, HasRemoved, Evicts, EvictionJob,
      Creates, Counts, Measures, InsertsCode, InsertsTable, LooksUp, Finds, QuickMatches,
      TriesNext, vars

-----------------------------------------------------------------------------
(* One step: the quick matches *)

\* Only an insertion opens a table: what happens at the others never reopens one.
LEMMA OpenableShrinks ==
  ASSUME Typed, Typed', JobsInv, KindChosen, FullTablesStart, [Next]_vars,
         ~ \E w \in Workers : InsertsTable(w)
  PROVE  Openable' \subseteq Openable
<1> USE DEF Openable, InRegistry, MadeOf
<1>1. ASSUME tables' \subseteq tables, UNCHANGED table PROVE Openable' \subseteq Openable
  BY <1>1
<1>2. ASSUME NEW w \in Workers, Sits(w) PROVE Openable' \subseteq Openable
  <2>1. UNCHANGED tables /\ (UNCHANGED table \/ MaySit(table[job[w].id]))
    BY <1>2 DEF Sits
  <2>2. \A i \in Ids : /\ table'[i].kind = table[i].kind
                       /\ i # job[w].id => table'[i] = table[i]
    BY <1>2 DEF Sits, Made
  <2> QED BY <1>1, <2>1, <2>2
<1>3. ASSUME NEW w \in Workers, NEW id \in Ids, Leaves(w, id)
      PROVE  Openable' \subseteq Openable
  <2> DEFINE n == IF table[id].kind = "local" THEN 0 ELSE table[id].seated - 1
  <2>1. /\ UNCHANGED tables /\ table[id].seated \in 1..Places
        /\ table[id].waiting \/ table[id].kind = "local"
        /\ table' = [table EXCEPT ![id].seated = n, ![id].idle = FALSE]
        /\ table[id].kind = "local" => n = 0
        /\ table[id].kind # "local" => n = table[id].seated - 1
    BY <1>3 DEF Leaves, Made
  <2> HIDE DEF n
  <2>2. /\ table'[id].kind = table[id].kind /\ table'[id].waiting = table[id].waiting
        /\ table'[id].seated = n
        /\ \A i \in Ids : i # id => table'[i] = table[i]
    BY <2>1 DEF Made
  <2>3. ASSUME id \in Openable' PROVE id \in Openable
    <3>1. table[id].kind = "public" /\ table[id].waiting /\ table[id].seated < Places
      BY <2>1, <2>2, <2>3 DEF FullTablesStart, MaySit
    <3>2. table[id].seated \in 1..(Places - 1)
      BY <2>1, <3>1, RegistryAssumption
    <3> QED BY <2>1, <2>3, <3>1, <3>2 DEF MaySit
  <2> QED BY <2>1, <2>2, <2>3
<1>4. ASSUME NEW w \in Workers, NEW id \in Ids, Builds(w, id)
      PROVE  Openable' \subseteq Openable
  <2>1. UNCHANGED tables /\ id \notin tables
    BY <1>4 DEF Builds, NotMade, JobsInv
  <2>2. \A i \in Ids : i # id => table'[i] = table[i]
    BY <1>4, BuildsTable
  <2> QED BY <2>1, <2>2
<1>5. ASSUME NEW id \in Ids, Starts(id) \/ IsUsed(id) \/ GoesIdle(id)
      PROVE  Openable' \subseteq Openable
  <2>1. CASE Starts(id)
    <3>1. /\ UNCHANGED tables /\ ~table'[id].waiting
          /\ \A i \in Ids : i # id => table'[i] = table[i]
      BY <2>1 DEF Starts, Made
    <3> QED BY <3>1 DEF MaySit
  <2>2. CASE IsUsed(id) \/ GoesIdle(id)
    <3>1. /\ UNCHANGED tables
          /\ \A i \in Ids : /\ table'[i].kind = table[i].kind
                            /\ table'[i].waiting = table[i].waiting
                            /\ table'[i].seated = table[i].seated
      BY <2>2 DEF IsUsed, GoesIdle, Made
    <3> QED BY <3>1 DEF MaySit
  <2> QED BY <1>5, <2>1, <2>2
<1>6. ASSUME NEW w \in Workers, RemovesTable(w) PROVE Openable' \subseteq Openable
  BY <1>1, <1>6 DEF RemovesTable
<1> QED
  BY <1>1, <1>2, <1>3, <1>4, <1>5, <1>6
  DEF Next, Continues, Begins, ForgetsCode, HasRemoved, Evicts, EvictionJob, Creates, Counts,
      Measures, InsertsCode, LooksUp, Finds, QuickMatches, TriesNext, vars

\* The lock and the jobs of the others stay: what is left to see is the worker's own job.
LEMMA OthersMatch ==
  ASSUME Typed, MatchInv, NEW w \in Workers, Openable' \subseteq Openable,
         \A v \in Workers : v # w => job'[v] = job[v],
         \A v \in Workers : v # w => (matchmaking' = v <=> matchmaking = v),
         job'[w].kind = "public" \/ job'[w].at = "matching" => matchmaking' = w,
         matchmaking' = w => Tries(w)' \/ Opens(w)'
  PROVE  MatchInv'
<1>1. \A a, b \in Openable' : a = b BY DEF MatchInv
<1>2. \A v \in Workers :
        job'[v].kind = "public" \/ job'[v].at = "matching" => matchmaking' = v
  BY DEF MatchInv
<1>3. ASSUME NEW v \in Workers, v # w, matchmaking' = v
      PROVE  Tries(v)' \/ Opens(v)'
  <2>1. Tries(v) \/ Opens(v) BY <1>3 DEF MatchInv
  <2>2. Tries(v) => Tries(v)' BY <1>3 DEF Tries
  <2>3. Opens(v) => Opens(v)' BY <1>3 DEF Opens
  <2> QED BY <2>1, <2>2, <2>3
<1> QED BY <1>1, <1>2, <1>3 DEF MatchInv

\* A worker outside the lock stays outside.
LEMMA OutsideMatch ==
  ASSUME Typed, MatchInv, NEW w \in Workers, Openable' \subseteq Openable,
         NEW j, Becomes(w, j), UNCHANGED matchmaking, matchmaking # w,
         j.kind # "public", j.at # "matching"
  PROVE  MatchInv'
BY OthersMatch DEF Becomes

\* A worker that is done lets the next quick match begin.
LEMMA RestsMatch ==
  ASSUME Typed, MatchInv, NEW w \in Workers, Openable' \subseteq Openable,
         Becomes(w, AtRest), Release(w)
  PROVE  MatchInv'
<1>1. AtRest.kind # "public" /\ AtRest.at # "matching" BY DEF AtRest
<1>2. matchmaking' # w /\ \A v \in Workers : v # w => (matchmaking' = v <=> matchmaking = v)
  BY RegistryAssumption DEF Release
<1> QED BY <1>1, <1>2, OthersMatch DEF Becomes

\* A quick match that opens a table goes on to open it.
LEMMA OpensMatch ==
  ASSUME Typed, MatchInv, NEW w \in Workers, Openable' \subseteq Openable,
         NEW j, Becomes(w, j), UNCHANGED matchmaking, job[w].kind = "public" => Opens(w),
         matchmaking = w => job[w].kind = "public", j.kind = job[w].kind,
         j.at \in {"counting", "measuring", "evicting", "building", "inserting",
                  "removing", "forgetting"} \cup {"coding"},
         j.at = "coding" => j.kind # "public"
  PROVE  MatchInv'
<1>1. job'[w] = j /\ \A v \in Workers : v # w => job'[v] = job[v]
  BY DEF Becomes
<1>2. j.kind = "public" => matchmaking = w BY DEF MatchInv
<1>3. ASSUME matchmaking = w PROVE Opens(w)'
  BY <1>1, <1>3 DEF Opens
<1> QED BY <1>1, <1>2, <1>3, OthersMatch

\* A worker past its first step, and not among the open tables: if it has the lock it is
\* opening a table.
LEMMA AtWork ==
  ASSUME Typed, MatchInv, NEW w \in Workers,
         job[w].at \notin {"matching", "finding", "seating"}
  PROVE  /\ job[w].kind = "public" => Opens(w)
         /\ matchmaking = w => job[w].kind = "public"
BY DEF MatchInv, Tries, Opens

LEMMA GivesUpMatch ==
  ASSUME Typed, MatchInv, NEW w \in Workers, Openable' \subseteq Openable,
         GivesUp(w), UNCHANGED matchmaking,
         job[w].at \in {"finding", "seating"}, job[w].id \notin Openable'
  PROVE  MatchInv'
<1>1. CASE matchmaking = w
  <2> DEFINE j == [job[w] EXCEPT !.at = "matching", !.id = NoId]
  <2>1. job[w] \in Job OBVIOUS
  <2>2. Becomes(w, j) BY <1>1, GivesUpJob
  <2>3. j.at = "matching" /\ j.open = job[w].open BY <2>1 DEF Job
  <2> HIDE DEF j
  <2>4. Tries(w) BY <1>1 DEF MatchInv, Opens
  <2>5. job'[w].at = "matching" /\ job'[w].open = job[w].open
    BY <2>2, <2>3 DEF Becomes
  <2>6. Tries(w)' BY <2>4, <2>5 DEF Tries
  <2> QED BY <1>1, <2>2, <2>6, OthersMatch DEF Becomes
<1>2. CASE matchmaking # w
  <2>1. AtRest.kind # "public" /\ AtRest.at # "matching" BY DEF AtRest
  <2>2. Becomes(w, AtRest) BY <1>2, GivesUpJob
  <2> QED BY <1>2, <2>1, <2>2, OutsideMatch
<1> QED BY <1>1, <1>2

LEMMA CreatingMatch ==
  ASSUME Typed, MatchInv, NEW w \in Workers, Openable' \subseteq Openable,
         \/ ForgetsCode(w) \/ HasRemoved(w) \/ Evicts(w) \/ Counts(w) \/ Measures(w)
         \/ InsertsCode(w) \/ RemovesTable(w) \/ \E id \in Ids : Builds(w, id)
  PROVE  MatchInv'
<1>0. /\ job[w] \in Job
      /\ job[w].at \notin {"matching", "finding", "seating"}
      /\ job[w].kind = "public" => Opens(w)
      /\ matchmaking = w => job[w].kind = "public"
  <2>1. job[w].at \notin {"matching", "finding", "seating"}
    BY DEF ForgetsCode, HasRemoved, Evicts, Counts, Measures, InsertsCode, RemovesTable, Builds
  <2> QED BY <2>1, AtWork
<1>1. CASE RemovesTable(w)
  <2>1. PICK id \in job[w].doomed :
          Becomes(w, IF id \in tables /\ table[id].code # NoCode
                     THEN [job[w] EXCEPT !.doomed = job[w].doomed \ {id},
                                         !.at = "forgetting", !.id = id]
                     ELSE [job[w] EXCEPT !.doomed = job[w].doomed \ {id}])
    BY <1>1, RemovesTableJob
  <2> DEFINE j == IF id \in tables /\ table[id].code # NoCode
                  THEN [job[w] EXCEPT !.doomed = job[w].doomed \ {id},
                                      !.at = "forgetting", !.id = id]
                  ELSE [job[w] EXCEPT !.doomed = job[w].doomed \ {id}]
  <2>2. j.kind = job[w].kind /\ j.at \in {"removing", "forgetting"}
    BY <1>0, <1>1 DEF Job, RemovesTable
  <2>3. UNCHANGED matchmaking BY <1>1 DEF RemovesTable
  <2>4. Becomes(w, j) BY <2>1
  <2> HIDE DEF j
  <2> QED BY <1>0, <2>2, <2>3, <2>4, OpensMatch
<1>2. CASE ForgetsCode(w)
  <2> DEFINE j == [job[w] EXCEPT !.at = "removing", !.id = NoId]
  <2>1. j.kind = job[w].kind /\ j.at = "removing" BY <1>0 DEF Job
  <2>2. Becomes(w, j) /\ UNCHANGED matchmaking BY <1>2, ForgetsCodeJob DEF ForgetsCode
  <2> HIDE DEF j
  <2> QED BY <1>0, <2>1, <2>2, OpensMatch
<1>3. CASE HasRemoved(w)
  <2>1. UNCHANGED matchmaking BY <1>3 DEF HasRemoved
  <2>2. CASE job[w].kind = "none"
    <3>1. Becomes(w, AtRest) BY <1>3, <2>2, RestJob DEF HasRemoved
    <3>2. matchmaking # w BY <1>0, <2>2
    <3>3. AtRest.kind # "public" /\ AtRest.at # "matching" BY DEF AtRest
    <3> QED BY <2>1, <3>1, <3>2, <3>3, OutsideMatch
  <2>3. CASE job[w].kind # "none"
    <3> DEFINE j == [job[w] EXCEPT !.at = "counting"]
    <3>1. j.kind = job[w].kind /\ j.at = "counting" BY <1>0 DEF Job
    <3>2. Becomes(w, j) BY <1>3, <2>3, GoJob DEF HasRemoved, Step
    <3> HIDE DEF j
    <3> QED BY <1>0, <2>1, <3>1, <3>2, OpensMatch
  <2> QED BY <2>2, <2>3
<1>4. CASE Evicts(w)
  <2> DEFINE j == [job[w] EXCEPT !.at = "removing", !.doomed = Idle]
  <2>1. j.kind = job[w].kind /\ j.at = "removing" BY <1>0 DEF Job
  <2>2. Becomes(w, j) /\ UNCHANGED matchmaking BY <1>4, EvictsJob DEF Evicts
  <2> HIDE DEF j
  <2> QED BY <1>0, <2>1, <2>2, OpensMatch
<1>5. CASE Counts(w)
  <2> DEFINE n == Cardinality(InRegistry("local"))
             j == [job[w] EXCEPT !.at = "measuring", !.local = n]
  <2>2. Becomes(w, j) /\ UNCHANGED matchmaking BY <1>5, CountsJob DEF Counts
  <2> HIDE DEF n
  <2>1. j.kind = job[w].kind /\ j.at = "measuring" BY <1>0 DEF Job
  <2> HIDE DEF j
  <2> QED BY <1>0, <2>1, <2>2, OpensMatch
<1>6. CASE Measures(w)
  <2> DEFINE b == [job[w] EXCEPT !.at = "building", !.local = 0]
             e == [job[w] EXCEPT !.at = "evicting", !.evicted = TRUE, !.local = 0]
  <2>1. /\ b.kind = job[w].kind /\ b.at = "building"
        /\ e.kind = job[w].kind /\ e.at = "evicting"
    BY <1>0 DEF Job
  <2>2. \/ (Becomes(w, b) \/ Becomes(w, e)) /\ UNCHANGED matchmaking
        \/ Becomes(w, AtRest) /\ Release(w)
    BY <1>6, MeasuresJob
  <2> HIDE DEF b, e
  <2>3. CASE Becomes(w, b) /\ UNCHANGED matchmaking BY <1>0, <2>1, <2>3, OpensMatch
  <2>4. CASE Becomes(w, e) /\ UNCHANGED matchmaking BY <1>0, <2>1, <2>4, OpensMatch
  <2>5. CASE Becomes(w, AtRest) /\ Release(w) BY <2>5, RestsMatch
  <2> QED BY <2>2, <2>3, <2>4, <2>5
<1>7. ASSUME NEW id \in Ids, Builds(w, id) PROVE MatchInv'
  <2> DEFINE j == [job[w] EXCEPT !.id = id,
                                 !.at = IF job[w].kind = "private" THEN "coding"
                                                                   ELSE "inserting"]
  <2>1. /\ j.kind = job[w].kind /\ j.at \in {"coding", "inserting"}
        /\ j.at = "coding" => j.kind # "public"
    BY <1>0 DEF Job
  <2>2. Becomes(w, j) /\ UNCHANGED matchmaking BY <1>7, BuildsJob DEF Builds
  <2> HIDE DEF j
  <2> QED BY <1>0, <2>1, <2>2, OpensMatch
<1>8. CASE InsertsCode(w)
  <2> DEFINE j == [job[w] EXCEPT !.at = "inserting"]
  <2>1. j.kind = job[w].kind /\ j.at = "inserting" BY <1>0 DEF Job
  <2>2. Becomes(w, j) /\ UNCHANGED matchmaking BY <1>8, GoJob DEF InsertsCode, Step
  <2> HIDE DEF j
  <2> QED BY <1>0, <2>1, <2>2, OpensMatch
<1> QED BY <1>1, <1>2, <1>3, <1>4, <1>5, <1>6, <1>7, <1>8

\* A worker at rest begins something else than a quick match.
LEMMA BeginsMatch ==
  ASSUME Typed, MatchInv, NEW w \in Workers, Openable' \subseteq Openable,
         \/ EvictionJob(w) \/ \E kind \in Kind : Creates(w, kind)
         \/ \E c \in InviteCodes : LooksUp(w, c)
         \/ \E id \in Ids : Leaves(w, id)
  PROVE  MatchInv'
<1>0. job[w] \in Job /\ job[w].at = "rest" /\ UNCHANGED matchmaking
  BY DEF EvictionJob, Creates, LooksUp, Leaves
<1>1. matchmaking # w /\ job[w].kind # "public" BY <1>0, AtWork DEF Opens
<1>2. CASE EvictionJob(w)
  <2> DEFINE j == [job[w] EXCEPT !.at = "evicting"]
  <2>1. j.kind = job[w].kind /\ j.at = "evicting" BY <1>0 DEF Job
  <2>2. Becomes(w, j) BY <1>2, GoJob DEF EvictionJob, Step
  <2> HIDE DEF j
  <2> QED BY <1>0, <1>1, <2>1, <2>2, OutsideMatch
<1>3. ASSUME NEW kind \in Kind, Creates(w, kind) PROVE MatchInv'
  <2> DEFINE j == [job[w] EXCEPT !.at = "counting", !.kind = kind]
  <2>1. j.kind = kind /\ j.at = "counting" BY <1>0 DEF Job
  <2>2. Becomes(w, j) /\ kind # "public" BY <1>3, CreatesJob DEF Creates
  <2> HIDE DEF j
  <2> QED BY <1>0, <1>1, <2>1, <2>2, OutsideMatch
<1>4. ASSUME NEW c \in InviteCodes, LooksUp(w, c) PROVE MatchInv'
  <2> DEFINE j == [job[w] EXCEPT !.at = "finding", !.id = codes[c]]
  <2>1. j.kind = job[w].kind /\ j.at = "finding" BY <1>0 DEF Job
  <2>2. Becomes(w, j) BY <1>4, LooksUpJob
  <2> HIDE DEF j
  <2> QED BY <1>0, <1>1, <2>1, <2>2, OutsideMatch
<1>5. ASSUME NEW id \in Ids, Leaves(w, id) PROVE MatchInv'
  <2> DEFINE j == [job[w] EXCEPT !.at = "removing", !.doomed = {id}]
  <2>1. j.kind = job[w].kind /\ j.at = "removing" BY <1>0 DEF Job
  <2>2. Becomes(w, j) \/ UNCHANGED job BY <1>5, LeavesJob
  <2> HIDE DEF j
  <2>3. CASE Becomes(w, j) BY <1>0, <1>1, <2>1, <2>3, OutsideMatch
  <2>4. CASE UNCHANGED job BY <1>0, <1>1, <2>4, OthersMatch
  <2> QED BY <2>2, <2>3, <2>4
<1> QED BY <1>2, <1>3, <1>4, <1>5

LEMMA QuickMatchesMatch ==
  ASSUME Typed, MatchInv, NEW w \in Workers, Openable' \subseteq Openable, QuickMatches(w)
  PROVE  MatchInv'
<1> DEFINE j == [job[w] EXCEPT !.at = "matching", !.open = Listed]
<1>1. job[w] \in Job /\ matchmaking = NoWorker /\ matchmaking' = w
  BY DEF QuickMatches, LockFree
<1>2. Becomes(w, j) BY QuickMatchesJob
<1> DEFINE S == Listed
<1> HIDE DEF S
<1>3. [job[w] EXCEPT !.at = "matching", !.open = S].at = "matching"
      /\ [job[w] EXCEPT !.at = "matching", !.open = S].open = S
  BY <1>1 DEF Job
<1>4. job'[w].at = "matching" /\ job'[w].open = Listed
  BY <1>2, <1>3 DEF Becomes, S
<1>5. \A id \in Openable : \E o \in Listed : o.id = id
  <2>1. Openable \subseteq OpenTables
    BY RegistryAssumption DEF Openable, OpenTables, MaySit
  <2>2. ASSUME NEW id \in Openable PROVE \E o \in Listed : o.id = id
    <3> DEFINE o == [id |-> id, seated |-> table[id].seated]
    <3>1. o \in Listed BY <2>1 DEF Listed
    <3>2. o.id = id OBVIOUS
    <3> QED BY <3>1, <3>2
  <2> QED BY <2>2
<1>6. Tries(w)' BY <1>4, <1>5 DEF Tries
<1> QED BY <1>1, <1>2, <1>6, RegistryAssumption, OthersMatch DEF Becomes

LEMMA TriesNextMatch ==
  ASSUME Typed, MatchInv, NEW w \in Workers, Openable' \subseteq Openable, TriesNext(w)
  PROVE  MatchInv'
<1>1. job[w] \in Job /\ job[w].at = "matching" /\ UNCHANGED matchmaking /\ matchmaking = w
  BY DEF TriesNext, MatchInv
<1>2. Tries(w) BY <1>1 DEF MatchInv, Opens
<1>3. CASE /\ job[w].open = {}
           /\ Becomes(w, [job[w] EXCEPT !.at = "counting", !.kind = "public"])
  <2> DEFINE j == [job[w] EXCEPT !.at = "counting", !.kind = "public"]
  <2>1. j.at = "counting" /\ j.kind = "public" BY <1>1 DEF Job
  <2>2. job'[w] = j BY <1>3 DEF Becomes
  <2> HIDE DEF j
  <2>3. Openable = {} BY <1>1, <1>2, <1>3 DEF Tries
  <2>4. Opens(w)' BY <2>1, <2>2, <2>3 DEF Opens
  <2> QED BY <1>1, <1>3, <2>4, OthersMatch DEF Becomes
<1>4. ASSUME NEW o \in job[w].open,
             Becomes(w, [job[w] EXCEPT !.at = "finding", !.id = o.id,
                                       !.open = job[w].open \ {o}])
      PROVE  MatchInv'
  <2> DEFINE j == [job[w] EXCEPT !.at = "finding", !.id = o.id, !.open = job[w].open \ {o}]
  <2>1. j.at = "finding" /\ j.id = o.id /\ j.open = job[w].open \ {o} BY <1>1 DEF Job
  <2>2. job'[w] = j /\ \A v \in Workers : v # w => job'[v] = job[v] BY <1>4 DEF Becomes
  <2> HIDE DEF j
  <2>3. Tries(w)' BY <1>1, <1>2, <2>1, <2>2 DEF Tries
  <2> QED BY <1>1, <2>2, <2>3, OthersMatch
<1> QED BY <1>3, <1>4, TriesNextJob

LEMMA FindsMatch ==
  ASSUME Typed, MatchInv, NEW w \in Workers, Openable' \subseteq Openable, Finds(w)
  PROVE  MatchInv'
<1>1. job[w] \in Job /\ job[w].at = "finding" /\ UNCHANGED <<matchmaking, tables>>
  BY DEF Finds
<1>2. CASE job[w].id \in tables
  <2> DEFINE j == [job[w] EXCEPT !.at = "seating"]
  <2>1. /\ j.at = "seating" /\ j.id = job[w].id /\ j.open = job[w].open
        /\ j.kind = job[w].kind
    BY <1>1 DEF Job
  <2>2. Becomes(w, j) BY <1>2, GoJob DEF Finds, Step
  <2> HIDE DEF j
  <2>3. job'[w] = j /\ \A v \in Workers : v # w => job'[v] = job[v]
    BY <2>2 DEF Becomes
  <2>4. ASSUME matchmaking = w PROVE Tries(w)'
    <3>1. Tries(w) BY <1>1, <2>4 DEF MatchInv, Opens
    <3> QED BY <1>1, <2>1, <2>3, <3>1 DEF Tries
  <2>5. j.kind = "public" => matchmaking = w BY <2>1 DEF MatchInv
  <2> QED BY <1>1, <2>1, <2>3, <2>4, <2>5, OthersMatch
<1>3. CASE job[w].id \notin tables
  <2>1. job[w].id \notin Openable' BY <1>1, <1>3 DEF Openable, InRegistry
  <2> QED BY <1>1, <1>3, <2>1, GivesUpMatch DEF Finds
<1> QED BY <1>2, <1>3

LEMMA SitsMatch ==
  ASSUME Typed, MatchInv, NEW w \in Workers, Openable' \subseteq Openable, Sits(w)
  PROVE  MatchInv'
<1>1. CASE MaySit(table[job[w].id])
  BY <1>1, RestJob, RestsMatch DEF Sits
<1>2. CASE ~MaySit(table[job[w].id])
  <2>1. job[w].id \notin Openable' BY <1>2 DEF Openable
  <2> QED BY <1>2, <2>1, GivesUpMatch DEF Sits
<1> QED BY <1>1, <1>2

\* A table is inserted: a public one by the holder of the lock, who found none to sit at.
LEMMA InsertsTableMatch ==
  ASSUME Typed, Typed', JobsInv, MatchInv, NEW w \in Workers, InsertsTable(w)
  PROVE  MatchInv'
<1> DEFINE id == job[w].id
<1>1. /\ id \in Ids /\ table[id].kind = job[w].kind
      /\ tables' = tables \cup {id} /\ UNCHANGED table
      /\ Becomes(w, AtRest) /\ Release(w)
      /\ job[w].kind = "public" => Opens(w)
      /\ matchmaking = w => job[w].kind = "public"
  BY AtWork, RestJob DEF InsertsTable, JobsInv, Holds
<1> HIDE DEF id
<1>2. CASE job[w].kind # "public"
  <2>1. Openable' \subseteq Openable
    BY <1>1, <1>2 DEF Openable, InRegistry, MadeOf
  <2> QED BY <1>1, <2>1, RestsMatch
<1>3. CASE job[w].kind = "public"
  <2>1. matchmaking = w /\ Openable = {} BY <1>1, <1>3 DEF MatchInv, Opens
  <2>2. Openable' \subseteq {id}
    BY <1>1, <2>1 DEF Openable, InRegistry, MadeOf
  <2>3. \A v \in Workers : matchmaking' # v
    BY <1>1, <2>1, RegistryAssumption DEF Release
  <2>4. AtRest.kind # "public" /\ AtRest.at # "matching" BY DEF AtRest
  <2>5. \A v \in Workers : ~(job'[v].kind = "public" \/ job'[v].at = "matching")
    BY <1>1, <2>1, <2>4 DEF Becomes, MatchInv
  <2> QED BY <2>2, <2>3, <2>5 DEF MatchInv
<1> QED BY <1>2, <1>3

LEMMA MatchStep ==
  ASSUME Typed, Typed', KindChosen, JobsInv, MatchInv, FullTablesStart, [Next]_vars
  PROVE  MatchInv'
<1>1. CASE \E w \in Workers : InsertsTable(w)
  BY <1>1, InsertsTableMatch
<1>2. CASE ~ \E w \in Workers : InsertsTable(w)
  <2>1. Openable' \subseteq Openable BY <1>2, OpenableShrinks
  <2>2. ASSUME NEW w \in Workers, Continues(w) PROVE MatchInv'
    BY <1>2, <2>1, <2>2, CreatingMatch, FindsMatch, SitsMatch, TriesNextMatch DEF Continues
  <2>3. ASSUME NEW w \in Workers, Begins(w) PROVE MatchInv'
    <3>1. \/ QuickMatches(w) \/ EvictionJob(w) \/ \E kind \in Kind : Creates(w, kind)
          \/ \E c \in InviteCodes : LooksUp(w, c)
         \/ \E id \in Ids : Leaves(w, id)
      BY <2>3, Zenon DEF Begins
    <3> QED BY <2>1, <3>1, BeginsMatch, QuickMatchesMatch
  <2>4. ASSUME UNCHANGED <<job, matchmaking>> PROVE MatchInv'
    BY <2>1, <2>4 DEF MatchInv, Tries, Opens
  <2> QED BY <2>2, <2>3, <2>4 DEF Next, Starts, IsUsed, GoesIdle, vars
<1> QED BY <1>1, <1>2

-----------------------------------------------------------------------------
(* The theorems *)

LEMMA InvInit == Init => RegistryInv
<1> SUFFICES ASSUME Init PROVE RegistryInv
  OBVIOUS
<1> USE DEF Init
<1>1. AtRest \in Job /\ NotMade \in Made
  BY RegistryAssumption DEF AtRest, NotMade, Job, Made, Step
<1>2. Typed BY <1>1
<1>3. \A w \in Workers : job[w].at = "rest" /\ job[w].kind = "none"
  BY DEF AtRest
<1>4. \A id \in Ids : table[id].kind = "none" /\ table[id].code = NoCode
  BY DEF NotMade
<1>5. KindChosen BY <1>3 DEF KindChosen
<1>6. JobsInv BY <1>3, <1>4 DEF JobsInv, Holds
<1>7. Known = {} BY <1>3 DEF Known, At
<1>8. CodesInv BY <1>3, <1>7 DEF CodesInv
<1>9. MatchInv BY <1>3, RegistryAssumption DEF MatchInv, Openable, InRegistry
<1>10. FullTablesStart BY <1>4 DEF FullTablesStart
<1> QED BY <1>2, <1>5, <1>6, <1>8, <1>9, <1>10 DEF RegistryInv

\* The inductive invariant of the registry, in every behaviour in which no two tables are
\* made with one code at the same time: every worker that stands between the two maps
\* holds a table of its own, every code leads to a table, and the lock of the quick
\* matches keeps every public table but the tried ones closed.
THEOREM RegistryInvariance == Spec /\ []DrawsDiffer => []RegistryInv
<1>1. RegistryInv /\ DrawsDiffer /\ [Next]_vars => RegistryInv'
  BY TypedStep, CodesStep, KindStep, FullTablesStep, MatchStep DEF RegistryInv
<1> QED BY <1>1, InvInit, PTL DEF Spec

\* Maps, tables and jobs keep their types: no worker carries a table that was never made
\* into the registry, and no table seats more players than it has places.
THEOREM RegistryTyping == Spec /\ []DrawsDiffer => []TypeOK
<1>1. RegistryInv => TypeOK
  BY DEF RegistryInv, TypeOK, Made, Job
<1> QED BY <1>1, RegistryInvariance, PTL

\* Every private table in the registry is joined with its code, and a code leads to a
\* table that has it, whatever creations and removals stand between the two maps.
THEOREM RegistryCodes == Spec /\ []DrawsDiffer => []CodesLeadToTables
<1>1. ASSUME RegistryInv PROVE CodesLeadToTables
  <2> USE <1>1 DEF RegistryInv
  <2>1. \A id \in InRegistry("private") : codes[table[id].code] = id
    BY DEF InRegistry, MadeOf, JobsInv, CodesInv, Known
  <2> QED BY <2>1 DEF CodesLeadToTables, CodesInv, Known
<1> QED BY <1>1, RegistryInvariance, PTL

\* However many players ask for a quick match at the same time, and whatever happens at
\* the tables meanwhile, no second public table opens while one has a free seat.
THEOREM RegistryOneOpenTable == Spec /\ []DrawsDiffer => []OneOpenTable
<1>1. ASSUME RegistryInv PROVE OneOpenTable
  <2> DEFINE S == {id \in OpenTables : table[id].seated > 0}
  <2>1. S \subseteq Openable
    <3>1. \A id \in S : /\ id \in InRegistry("public") /\ table[id].waiting
                        /\ table[id].seated \in 0..Places /\ Places \in Nat
                        /\ table[id].seated < Places /\ table[id].seated > 0
      BY <1>1, RegistryAssumption DEF RegistryInv, Made, OpenTables, InRegistry
    <3>2. \A id \in S : table[id].seated \in 1..(Places - 1) BY <3>1
    <3> QED BY <3>1, <3>2 DEF Openable, MaySit
  <2>2. \A a, b \in S : a = b BY <1>1, <2>1 DEF RegistryInv, MatchInv
  <2> HIDE DEF S
  <2>3. Cardinality(S) <= 1
    <3>1. CASE S = {} BY <3>1, FS_EmptySet
    <3>2. CASE S # {}
      <4>1. PICK a : S = {a} BY <2>2, <3>2
      <4> QED BY <4>1, FS_Singleton
    <3> QED BY <3>1, <3>2
  <2> QED BY <2>3 DEF OneOpenTable, S
<1> QED BY <1>1, RegistryInvariance, PTL

HIDE DEF Typed

-----------------------------------------------------------------------------
(* The invariant of a tab's seats and invitations *)

Whats ==
  {"none", "account", "friends", "friendAction", "dismiss", "ceremony", "delete", "enter", "leave"}
Whys == {"page", "delete", "link", "quick", "lobby", "privateTable"}
About ==
  [why : Whys, table : Tables \cup {None}, invite : Invites \cup {None}, seat : Seats \cup {NoSeat}]
Answers ==
  [member : BOOLEAN, list : Lists \cup {NoList}, invites : SUBSET Invites,
   seat : Seats \cup {NoSeat}]
Request ==
  [what : Whats, about : About, state : {"sent", "ok", "refused", "reauthenticate"},
   answer : Answers]

\* The account's side: an invitation that was shown was seen.
AccountInv ==
  /\ server \in [member : BOOLEAN, list : Lists, invites : SUBSET Invites,
                 invited : SUBSET Invites]
  /\ page \in [account : {"unknown", "guest", "member"}, timer : BOOLEAN,
               list : Lists \cup {NoList}, seen : SUBSET Invites, told : SUBSET Invites,
               banner : Invites \cup {None}, confirm : {"closed", "shown", "sent"},
               ceremony : BOOLEAN]
  /\ calls \in [Requests -> Request]
  /\ page.told \subseteq page.seen

TabTypes ==
  /\ seats \in [Seats -> [table : Tables \cup {Away},
                          state : {"none", "waiting", "playing", "left"}]]
  /\ tab \in [tokens : [Tables -> Seats \cup {NoSeat}], session : Seats \cup {NoSeat},
              address : Tables \cup {Away}, quick : BOOLEAN]
  /\ stranded \subseteq Seats

\* A seat was taken, and the answer that says so is on its way.
Brings(k, n) == k.what = "enter" /\ k.state = "ok" /\ k.answer.seat = n
Pending(n) == \E c \in Requests : Brings(calls[c], n)

\* The tab went to the seat, whatever it remembers of it now.
Held(n) == n \in Seats /\ seats[n].table \in Tables /\ ~Pending(n)
HeldAt(n, t) == Held(n) /\ seats[n].table = t

\* A request to leave names the seat it is about, if the tab had its token.  Once it was
\* answered, the seat waits no more unless the request was lost.
LeaveOK(k) ==
  /\ k.about.table \in Tables
  /\ k.about.seat # NoSeat => HeldAt(k.about.seat, k.about.table)
  /\ k.about.seat = NoSeat /\ k.about.why = "quick" =>
       \E m \in Seats : HeldAt(m, k.about.table) /\ m # tab.tokens[k.about.table]
  /\ k.state = "ok" => k.about.seat # NoSeat /\ seats[k.about.seat].state = "left"
  /\ k.state # "sent" /\ k.about.seat # NoSeat =>
       k.about.seat \in stranded \/ seats[k.about.seat].state # "waiting"

\* Each seat is brought by one answer.
EnterOK(c) ==
  \A n \in Seats \cup {NoSeat} : Brings(calls[c], n) =>
    /\ n \in Seats /\ seats[n].table \in Tables
    /\ \A d \in Requests : Brings(calls[d], n) => d = c

SeatsInv ==
  /\ \A n \in Seats : seats[n] = NotTaken \/ (seats[n].table \in Tables /\ seats[n].state # "none")
  /\ \A t \in Tables : tab.tokens[t] # NoSeat => HeldAt(tab.tokens[t], t)
  /\ tab.session # NoSeat => Held(tab.session)
  /\ \A c \in Requests : (calls[c].what = "leave" => LeaveOK(calls[c])) /\ EnterOK(c)

CrewInv == AccountInv /\ TabTypes /\ SeatsInv

-----------------------------------------------------------------------------
(* Requests *)

\* What a request becomes when it is sent, answered or done with.
LEMMA RequestsAre ==
  /\ Nothing \in About /\ NoAnswer \in Answers /\ NoRequest \in Request
  /\ NoRequest.what = "none" /\ NoRequest.state = "sent"
  /\ \A why \in Whys : For(why) \in About
  /\ \A what \in Whats, about \in About :
       /\ Asked(what, about) \in Request /\ Asked(what, about).what = what
       /\ Asked(what, about).about = about /\ Asked(what, about).state = "sent"
<1>1. Nothing \in About /\ NoAnswer \in Answers
  BY DEF Nothing, NoAnswer, About, Answers, Whys
<1>2. \A why \in Whys : For(why) \in About BY <1>1 DEF For, About, Whys
<1>3. \A what \in Whats, about \in About :
        /\ Asked(what, about) \in Request /\ Asked(what, about).what = what
        /\ Asked(what, about).about = about /\ Asked(what, about).state = "sent"
  BY <1>1 DEF Asked, Request
<1>4. "none" \in Whats BY DEF Whats
<1> QED BY <1>1, <1>2, <1>3, <1>4 DEF NoRequest

\* The request c becomes k.
Turns(c, k) == c \in Requests /\ k \in Request /\ calls' = [calls EXCEPT ![c] = k]

LEMMA TurnsIs ==
  ASSUME calls \in [Requests -> Request], NEW c, NEW k, Turns(c, k)
  PROVE  /\ calls' \in [Requests -> Request] /\ calls'[c] = k
         /\ \A d \in Requests : d # c => calls'[d] = calls[d]
BY DEF Turns

\* A request is sent, or follows another.
LEMMA SentIs ==
  ASSUME calls \in [Requests -> Request], NEW c \in Requests, NEW what \in Whats,
         NEW about \in About, Send(c, what, about) \/ GoOn(c, what, about)
  PROVE  Turns(c, Asked(what, about))
BY RequestsAre DEF Turns, Send, GoOn

LEMMA DoneIs ==
  ASSUME calls \in [Requests -> Request], NEW c \in Requests, Done(c)
  PROVE  Turns(c, NoRequest)
BY RequestsAre DEF Turns, Done

\* An answer says nothing new of the question.
LEMMA AnswerIs ==
  ASSUME calls \in [Requests -> Request], NEW c \in Requests,
         NEW state \in {"ok", "refused", "reauthenticate"}, NEW answer \in Answers,
         Answer(c, state, answer)
  PROVE  \E k \in Request : /\ Turns(c, k) /\ k.state = state /\ k.answer = answer
                            /\ k.what = calls[c].what /\ k.about = calls[c].about
<1> DEFINE k == [calls[c] EXCEPT !.state = state, !.answer = answer]
<1>1. calls[c] \in Request OBVIOUS
<1>2. k \in Request /\ k.state = state /\ k.answer = answer
      /\ k.what = calls[c].what /\ k.about = calls[c].about
  BY <1>1 DEF Request
<1>3. calls' = [calls EXCEPT ![c] = k] BY <1>1 DEF Answer, Request
<1> QED BY <1>2, <1>3 DEF Turns

\* Nothing is told of any seat by a request of the account's.
Quiet(k) == k \in Request /\ k.what # "leave" /\ \A n \in Seats \cup {NoSeat} : ~Brings(k, n)
QuietCalls == calls' = calls \/ \E c \in Requests, k \in Request : Turns(c, k) /\ Quiet(k)

BannerStep == page'.banner \notin {page.banner, None} => page'.banner \notin page.told

\* A question is quiet before it is answered, and so is an answer to anything but a seat.
LEMMA QuietIs ==
  ASSUME NEW k \in Request, k.what # "leave", k.what # "enter" \/ k.state # "ok"
  PROVE  Quiet(k)
BY DEF Quiet, Brings

\* The three ways in which a request of the account's changes.
LEMMA AsksQuietly ==
  ASSUME calls \in [Requests -> Request], NEW c \in Requests, NEW what \in Whats \ {"leave"},
         NEW about \in About, Send(c, what, about) \/ GoOn(c, what, about)
  PROVE  calls' \in [Requests -> Request] /\ QuietCalls
<1> DEFINE k == Asked(what, about)
<1>1. Turns(c, k) /\ k \in Request /\ k.what = what /\ k.state = "sent" BY SentIs, RequestsAre
<1> HIDE DEF k
<1>2. Quiet(k) BY <1>1, QuietIs
<1> QED BY <1>1, <1>2, TurnsIs DEF QuietCalls

LEMMA EndsQuietly ==
  ASSUME calls \in [Requests -> Request], NEW c \in Requests, Done(c)
  PROVE  calls' \in [Requests -> Request] /\ QuietCalls
<1>1. Turns(c, NoRequest) BY DoneIs
<1>2. Quiet(NoRequest) BY RequestsAre, QuietIs
<1> QED BY <1>1, <1>2, TurnsIs, RequestsAre DEF QuietCalls

LEMMA AnswersQuietly ==
  ASSUME calls \in [Requests -> Request], NEW c \in Requests, calls[c].what \notin {"leave", "enter"},
         NEW state \in {"ok", "refused", "reauthenticate"}, NEW answer \in Answers,
         Answer(c, state, answer)
  PROVE  calls' \in [Requests -> Request] /\ QuietCalls
<1>1. PICK k \in Request : Turns(c, k) /\ k.what = calls[c].what BY AnswerIs
<1>2. Quiet(k) BY <1>1, QuietIs
<1> QED BY <1>1, <1>2, TurnsIs DEF QuietCalls

-----------------------------------------------------------------------------
(* The account's side *)

\* The server answers what the account asked.
LEMMA ServeAccountSideKeeps ==
  ASSUME AccountInv, NEW c \in Requests, ServeAccountSide(c)
  PROVE  AccountInv' /\ QuietCalls /\ page' = page
<1> DEFINE kind == [member : BOOLEAN, list : Lists, invites : SUBSET Invites,
                    invited : SUBSET Invites]
<1>1. calls \in [Requests -> Request] /\ server \in kind BY DEF AccountInv
<1>2. NoAnswer \in Answers BY RequestsAre
<1> SUFFICES calls' \in [Requests -> Request] /\ QuietCalls /\ page' = page /\ server' \in kind
  BY DEF AccountInv
<1>3. CASE ServeAccount(c)
  <2> DEFINE a == [NoAnswer EXCEPT !.member = server.member]
  <2>1. a \in Answers BY <1>1, <1>2 DEF Answers
  <2> HIDE DEF a
  <2>2. Answer(c, "ok", a) /\ calls[c].what = "account" /\ UNCHANGED <<server, page>>
    BY <1>3 DEF ServeAccount, Sent, a
  <2> QED BY <1>1, <2>1, <2>2, AnswersQuietly
<1>4. CASE ServeFriends(c)
  <2> DEFINE a == [NoAnswer EXCEPT !.list = server.list, !.invites = server.invites]
  <2>1. a \in Answers BY <1>1, <1>2 DEF Answers
  <2> HIDE DEF a
  <2>2. /\ Answer(c, "ok", a) \/ Answer(c, "refused", NoAnswer)
        /\ calls[c].what = "friends" /\ UNCHANGED <<server, page>>
    BY <1>4 DEF ServeFriends, Sent, a
  <2> QED BY <1>1, <1>2, <2>1, <2>2, AnswersQuietly
<1>5. CASE ServeFriendAction(c)
  <2>1. /\ Answer(c, "ok", NoAnswer) \/ Answer(c, "refused", NoAnswer)
        /\ calls[c].what = "friendAction" /\ page' = page
    BY <1>5 DEF ServeFriendAction, Sent
  <2>2. server' \in kind BY <1>1, <1>5 DEF ServeFriendAction
  <2> QED BY <1>1, <1>2, <2>1, <2>2, AnswersQuietly
<1>6. CASE ServeDismiss(c)
  <2>1. Answer(c, "ok", NoAnswer) /\ calls[c].what = "dismiss" /\ page' = page
    BY <1>6 DEF ServeDismiss, Sent
  <2>2. server' \in kind BY <1>1, <1>6 DEF ServeDismiss
  <2> QED BY <1>1, <1>2, <2>1, <2>2, AnswersQuietly
<1>7. CASE ServeCeremony(c)
  <2>1. /\ Answer(c, "ok", NoAnswer) \/ Answer(c, "refused", NoAnswer)
        /\ calls[c].what = "ceremony" /\ page' = page
    BY <1>7 DEF ServeCeremony, Sent
  <2>2. server' \in kind BY <1>1, <1>7 DEF ServeCeremony
  <2> QED BY <1>1, <1>2, <2>1, <2>2, AnswersQuietly
<1>8. CASE ServeDelete(c)
  <2>1. /\ \/ Answer(c, "ok", NoAnswer) \/ Answer(c, "refused", NoAnswer)
           \/ Answer(c, "reauthenticate", NoAnswer)
        /\ calls[c].what = "delete" /\ page' = page
    BY <1>8 DEF ServeDelete, Sent
  <2>2. server' \in kind BY <1>1, <1>8 DEF ServeDelete
  <2> QED BY <1>1, <1>2, <2>1, <2>2, AnswersQuietly
<1> QED BY <1>3, <1>4, <1>5, <1>6, <1>7, <1>8 DEF ServeAccountSide

\* The friends and the session change of themselves.
LEMMA FriendsChangeKeeps ==
  ASSUME AccountInv, FriendsChange \/ SessionEnds
  PROVE  AccountInv' /\ calls' = calls /\ page' = page
<1>1. calls' = calls /\ page' = page BY DEF FriendsChange, SessionEnds
<1>2. \/ server.list + 1 \in Lists /\ server' = [server EXCEPT !.list = server.list + 1]
      \/ \E i \in Invites :
           server' = [server EXCEPT !.invites = server.invites \cup {i},
                                    !.invited = server.invited \cup {i}]
      \/ server' = [server EXCEPT !.member = FALSE]
  BY DEF FriendsChange, SessionEnds, AccountInv
<1> DEFINE kind == [member : BOOLEAN, list : Lists, invites : SUBSET Invites,
                    invited : SUBSET Invites]
<1>3. server \in kind BY DEF AccountInv
<1>4. server' \in kind
  <2>1. CASE server.list + 1 \in Lists /\ server' = [server EXCEPT !.list = server.list + 1]
    <3> DEFINE l == server.list + 1
    <3>1. l \in Lists /\ server' = [server EXCEPT !.list = l] BY <2>1
    <3> HIDE DEF l
    <3> QED BY <1>3, <3>1
  <2>2. ASSUME NEW i \in Invites,
               server' = [server EXCEPT !.invites = server.invites \cup {i},
                                        !.invited = server.invited \cup {i}]
        PROVE  server' \in kind
    <3> DEFINE open == server.invites \cup {i}
               ever == server.invited \cup {i}
    <3>1. open \subseteq Invites /\ ever \subseteq Invites BY <1>3
    <3>2. server' = [server EXCEPT !.invites = open, !.invited = ever] BY <2>2
    <3> HIDE DEF open, ever
    <3> QED BY <1>3, <3>1, <3>2
  <2>3. CASE server' = [server EXCEPT !.member = FALSE] BY <1>3, <2>3
  <2> QED BY <1>2, <2>1, <2>2, <2>3
<1> QED BY <1>1, <1>4 DEF AccountInv

\* The page, but for the answer with the friends, shows no invitation and forgets none.
LEMMA PageIs ==
  ASSUME AccountInv, calls' \in [Requests -> Request], server' = server,
         page' \in [account : {"unknown", "guest", "member"}, timer : BOOLEAN,
                    list : Lists \cup {NoList}, seen : SUBSET Invites, told : SUBSET Invites,
                    banner : Invites \cup {None}, confirm : {"closed", "shown", "sent"},
                    ceremony : BOOLEAN],
         page'.seen = page.seen, page'.told = page.told, page'.banner \in {page.banner, None}
  PROVE  AccountInv' /\ BannerStep
BY DEF AccountInv, BannerStep

LEMMA AccountLoadedKeeps ==
  ASSUME AccountInv, NEW c \in Requests, AccountLoaded(c)
  PROVE  AccountInv' /\ QuietCalls /\ BannerStep
<1>1. calls \in [Requests -> Request] BY DEF AccountInv
<1>2. calls' \in [Requests -> Request] /\ QuietCalls
  <2>1. GoOn(c, "friends", Nothing) \/ Done(c) BY DEF AccountLoaded
  <2> QED BY <1>1, <2>1, RequestsAre, AsksQuietly, EndsQuietly DEF Whats
<1> DEFINE confirm == IF calls[c].about = For("delete") THEN "shown" ELSE page.confirm
<1>3. confirm \in {"closed", "shown", "sent"} BY DEF AccountInv
<1> HIDE DEF confirm
<1>4. \/ page' = [page EXCEPT !.account = "member", !.timer = TRUE, !.confirm = confirm]
      \/ page' = [page EXCEPT !.account = "guest", !.timer = FALSE, !.list = NoList,
                              !.confirm = confirm]
      \/ page' = [page EXCEPT !.confirm = confirm]
  BY DEF AccountLoaded, confirm
<1>5. server' = server BY DEF AccountLoaded
<1> QED BY <1>2, <1>3, <1>4, <1>5, PageIs DEF AccountInv

\* Of the new invitations one is shown, and all are seen.
LEMMA FriendsLoadedKeeps ==
  ASSUME AccountInv, NEW c \in Requests, FriendsLoaded(c)
  PROVE  AccountInv' /\ QuietCalls /\ BannerStep
<1>1. calls \in [Requests -> Request] BY DEF AccountInv
<1>2. calls' \in [Requests -> Request] /\ QuietCalls
  BY <1>1, EndsQuietly DEF FriendsLoaded
<1>3. server' = server BY DEF FriendsLoaded
<1>4. CASE ~Ok(c)
  <2>1. page' = [page EXCEPT !.list = NoList] BY <1>4 DEF FriendsLoaded
  <2> QED BY <1>2, <1>3, <2>1, PageIs DEF AccountInv
<1>5. CASE Ok(c)
  <2> DEFINE answer == calls[c].answer
             fresh == Fresh(answer.invites)
  <2>1. PICK i \in (IF fresh = {} THEN {page.banner} ELSE fresh) :
          page' = [page EXCEPT !.list = answer.list, !.seen = @ \cup fresh,
                               !.banner = i, !.told = @ \cup (fresh \cap {i})]
    BY <1>5 DEF FriendsLoaded
  <2>2. answer \in Answers BY <1>1 DEF Request
  <2>3. answer.list \in Lists \cup {NoList} /\ fresh \subseteq Invites /\ fresh \cap page.seen = {}
    BY <2>2 DEF Answers, Fresh
  <2>4. i \in Invites \cup {None} BY <2>1, <2>3 DEF AccountInv
  <2> HIDE DEF fresh, answer
  <2> DEFINE seen == page.seen \cup fresh
             told == page.told \cup (fresh \cap {i})
  <2>5. seen \subseteq Invites /\ told \subseteq Invites /\ told \subseteq seen
    BY <2>3 DEF AccountInv
  <2>6. page' = [page EXCEPT !.list = answer.list, !.seen = seen, !.banner = i, !.told = told]
    BY <2>1 DEF AccountInv
  <2> HIDE DEF seen, told
  <2>7. page' \in [account : {"unknown", "guest", "member"}, timer : BOOLEAN,
                   list : Lists \cup {NoList}, seen : SUBSET Invites, told : SUBSET Invites,
                   banner : Invites \cup {None}, confirm : {"closed", "shown", "sent"},
                   ceremony : BOOLEAN]
        /\ page'.seen = seen /\ page'.told = told /\ page'.banner = i
    BY <2>3, <2>4, <2>5, <2>6 DEF AccountInv
  <2>8. AccountInv' BY <1>2, <1>3, <2>5, <2>7 DEF AccountInv
  <2>9. BannerStep
    <3>1. fresh # {} => i \notin page.told BY <2>1, <2>3 DEF AccountInv
    <3>2. fresh = {} => i = page.banner BY <2>1
    <3> QED BY <2>7, <3>1, <3>2 DEF BannerStep
  <2> QED BY <1>2, <2>8, <2>9
<1> QED BY <1>4, <1>5

LEMMA ReturnKeeps ==
  ASSUME AccountInv, NEW c \in Requests, Return(c)
  PROVE  AccountInv' /\ QuietCalls /\ BannerStep
<1>1. calls \in [Requests -> Request] BY DEF AccountInv
<1>2. {Nothing, For("delete")} \subseteq About BY RequestsAre DEF Whys
<1>3. {"account", "friends", "ceremony"} \subseteq Whats \ {"leave"} BY DEF Whats
<1>4. CASE FriendActionBack(c)
  <2>1. GoOn(c, "friends", Nothing) \/ Done(c) BY <1>4 DEF FriendActionBack
  <2>2. calls' \in [Requests -> Request] /\ QuietCalls
    BY <1>1, <1>2, <1>3, <2>1, AsksQuietly, EndsQuietly
  <2> QED BY <1>4, <2>2, PageIs DEF FriendActionBack, AccountInv
<1>5. CASE Dismissed(c)
  <2>1. calls' \in [Requests -> Request] /\ QuietCalls BY <1>1, <1>5, EndsQuietly DEF Dismissed
  <2> QED BY <1>5, <2>1, PageIs DEF Dismissed, AccountInv
<1>6. CASE CeremonyBack(c)
  <2>1. GoOn(c, "account", For("delete")) \/ GoOn(c, "account", Nothing) \/ Done(c)
    BY <1>6 DEF CeremonyBack
  <2>2. calls' \in [Requests -> Request] /\ QuietCalls
    BY <1>1, <1>2, <1>3, <2>1, AsksQuietly, EndsQuietly
  <2> DEFINE confirm == IF page.confirm = "sent" THEN "shown" ELSE page.confirm
  <2>3. confirm \in {"closed", "shown", "sent"} BY DEF AccountInv
  <2>4. \/ page' = [page EXCEPT !.ceremony = FALSE] \/ page' = page
        \/ page' = [page EXCEPT !.confirm = confirm]
    BY <1>6 DEF CeremonyBack, AccountInv
  <2> HIDE DEF confirm
  <2>5. server' = server BY <1>6 DEF CeremonyBack
  <2> QED BY <2>2, <2>3, <2>4, <2>5, PageIs DEF AccountInv
<1>7. CASE DeleteBack(c)
  <2>1. GoOn(c, "account", Nothing) \/ GoOn(c, "ceremony", For("delete")) \/ Done(c)
    BY <1>7 DEF DeleteBack
  <2>2. calls' \in [Requests -> Request] /\ QuietCalls
    BY <1>1, <1>2, <1>3, <2>1, AsksQuietly, EndsQuietly
  <2> DEFINE confirm == IF page.confirm = "sent" THEN "shown" ELSE page.confirm
  <2>3. confirm \in {"closed", "shown", "sent"} BY DEF AccountInv
  <2>4. \/ page' = [page EXCEPT !.confirm = "closed"] \/ page' = page
        \/ page' = [page EXCEPT !.confirm = confirm]
    BY <1>7 DEF DeleteBack, AccountInv
  <2> HIDE DEF confirm
  <2>5. server' = server BY <1>7 DEF DeleteBack
  <2> QED BY <2>2, <2>3, <2>4, <2>5, PageIs DEF AccountInv
<1> QED BY <1>4, <1>5, <1>6, <1>7, AccountLoadedKeeps, FriendsLoadedKeeps DEF Return

\* What the player presses, and the timer.
LEMMA PressKeeps ==
  ASSUME AccountInv, NEW c \in Requests, Press(c) \/ Poll(c)
  PROVE  AccountInv' /\ QuietCalls /\ BannerStep
<1>1. calls \in [Requests -> Request] BY DEF AccountInv
<1> DEFINE dismissal == [Nothing EXCEPT !.invite = page.banner]
<1>2. {Nothing, For("link"), dismissal} \subseteq About
  BY RequestsAre DEF Whys, About, AccountInv
<1> HIDE DEF dismissal
<1>3. {"friendAction", "dismiss", "ceremony", "delete", "friends"} \subseteq Whats \ {"leave"}
  BY DEF Whats
<1>4. \/ Send(c, "friendAction", Nothing) \/ Send(c, "friendAction", For("link"))
      \/ Send(c, "dismiss", dismissal) \/ Send(c, "ceremony", Nothing)
      \/ Send(c, "delete", Nothing) \/ Send(c, "friends", Nothing)
  BY DEF Press, PressFriend, OpenFriendLink, DismissInvite, SignIn, PressDelete, Poll, dismissal
<1>5. calls' \in [Requests -> Request] /\ QuietCalls BY <1>1, <1>2, <1>3, <1>4, AsksQuietly
<1>6. /\ server' = server
      /\ \/ page' = page \/ page' = [page EXCEPT !.banner = None]
         \/ page' = [page EXCEPT !.ceremony = TRUE] \/ page' = [page EXCEPT !.confirm = "sent"]
  BY DEF Press, PressFriend, OpenFriendLink, DismissInvite, SignIn, PressDelete, Poll
<1> QED BY <1>5, <1>6, PageIs DEF AccountInv

LEMMA ConfirmKeeps ==
  ASSUME AccountInv, AskDelete \/ CancelDelete
  PROVE  AccountInv' /\ calls' = calls /\ BannerStep
<1>1. /\ server' = server /\ calls' = calls
      /\ page' = [page EXCEPT !.confirm = "shown"] \/ page' = [page EXCEPT !.confirm = "closed"]
  BY DEF AskDelete, CancelDelete
<1> QED BY <1>1, PageIs DEF AccountInv

-----------------------------------------------------------------------------
(* The seats *)

\* What may happen to the seats: one that was free is taken, one that waits plays or is left,
\* an answer brings a seat that was free until then, a request to leave is right about its
\* seat, and the tab remembers what it did, forgets it, or goes to a seat it was brought.
SeatsMove ==
  /\ \A n \in Seats : seats[n] = NotTaken =>
       seats'[n] = NotTaken \/ (seats'[n].table \in Tables /\ seats'[n].state # "none")
  /\ \A n \in Seats : seats[n] # NotTaken =>
       /\ seats'[n].table = seats[n].table /\ seats'[n].state # "none"
       /\ seats[n].state = "waiting" \/ seats'[n].state = seats[n].state

AnswersMove ==
  \A d \in Requests, n \in Seats \cup {NoSeat} : Brings(calls'[d], n) =>
    \/ Brings(calls[d], n)
    \/ /\ n \in Seats /\ seats[n] = NotTaken /\ seats'[n].table \in Tables
       /\ \A e \in Requests : Brings(calls'[e], n) => e = d

LeavingMoves ==
  \A d \in Requests : calls'[d].what = "leave" => calls'[d] = calls[d] \/ LeaveOK(calls[d])'

TabMoves ==
  /\ \A t \in Tables : \/ tab'.tokens[t] \in {tab.tokens[t], NoSeat}
                       \/ HeldAt(tab.tokens[t], t)' /\ ~Held(tab'.tokens[t])
  /\ tab'.session \in {tab.session, NoSeat} \/ Held(tab.session)'
  /\ stranded \subseteq stranded'

\* A seat the tab went to stays one, at its table.
LEMMA HeldStays ==
  ASSUME CrewInv, SeatsMove, AnswersMove, NEW n \in Seats, NEW t \in Tables
  PROVE  /\ Held(n) => Held(n)'
         /\ HeldAt(n, t) => HeldAt(n, t)'
         /\ Held(n) => seats[n] # NotTaken /\ seats'[n].table = seats[n].table
<1> SUFFICES ASSUME Held(n)
             PROVE  Held(n)' /\ seats[n] # NotTaken /\ seats'[n].table = seats[n].table
  BY DEF HeldAt
<1>1. seats[n] # NotTaken /\ seats[n].table \in Tables
  BY CrewAssumption DEF Held, NotTaken, Away
<1>2. seats'[n].table = seats[n].table BY <1>1 DEF SeatsMove
<1>3. ~Pending(n)' BY <1>1 DEF Held, Pending, AnswersMove
<1> QED BY <1>1, <1>2, <1>3 DEF Held

LEMMA SeatsKept ==
  ASSUME CrewInv, TabTypes', SeatsMove, AnswersMove, LeavingMoves, TabMoves
  PROVE  SeatsInv'
<1> USE DEF CrewInv
<1>1. NoSeat \notin Seats BY DEF NoSeat, Seats
<1>2. ASSUME NEW n \in Seats
      PROVE  seats'[n] = NotTaken \/ (seats'[n].table \in Tables /\ seats'[n].state # "none")
  <2>1. CASE seats[n] = NotTaken BY <2>1 DEF SeatsMove
  <2>2. CASE seats[n] # NotTaken BY <2>2 DEF SeatsMove, SeatsInv
  <2> QED BY <2>1, <2>2
<1>3. ASSUME NEW t \in Tables, tab'.tokens[t] # NoSeat
      PROVE  HeldAt(tab.tokens[t], t)'
  <2>1. CASE tab'.tokens[t] = tab.tokens[t]
    <3>1. tab.tokens[t] \in Seats /\ HeldAt(tab.tokens[t], t)
      BY <1>3, <2>1 DEF SeatsInv, HeldAt, Held
    <3> DEFINE n == tab.tokens[t]
    <3>2. n \in Seats /\ HeldAt(n, t) BY <3>1
    <3>3. seats'[n].table = t /\ ~(\E c \in Requests : Brings(calls'[c], n))
      <4>1. seats[n].table = t /\ seats[n] # NotTaken /\ ~Pending(n)
        BY <3>2, HeldStays DEF HeldAt, Held
      <4> HIDE DEF n
      <4>2. seats'[n].table = t BY <3>2, <4>1 DEF SeatsMove
      <4>3. ~(\E c \in Requests : Brings(calls'[c], n)) BY <3>2, <4>1 DEF Pending, AnswersMove
      <4> QED BY <4>2, <4>3
    <3> QED BY <2>1, <3>2, <3>3 DEF HeldAt, Held, Pending
  <2>2. CASE tab'.tokens[t] # tab.tokens[t] BY <1>3, <2>2 DEF TabMoves
  <2> QED BY <2>1, <2>2
<1>4. ASSUME tab'.session # NoSeat PROVE Held(tab.session)'
  <2>1. CASE tab'.session = tab.session
    <3> DEFINE n == tab.session
    <3>1. n \in Seats /\ Held(n) BY <1>4, <2>1 DEF SeatsInv, Held
    <3>2. seats'[n].table \in Tables /\ ~(\E c \in Requests : Brings(calls'[c], n))
      <4>1. seats[n].table \in Tables /\ seats[n] # NotTaken /\ ~Pending(n)
        BY <3>1, CrewAssumption DEF Held, NotTaken, Away
      <4> HIDE DEF n
      <4>2. seats'[n].table \in Tables BY <3>1, <4>1 DEF SeatsMove
      <4>3. ~(\E c \in Requests : Brings(calls'[c], n)) BY <3>1, <4>1 DEF Pending, AnswersMove
      <4> QED BY <4>2, <4>3
    <3> QED BY <2>1, <3>1, <3>2 DEF Held, Pending
  <2>2. CASE tab'.session # tab.session BY <1>4, <2>2 DEF TabMoves
  <2> QED BY <2>1, <2>2
<1>5. ASSUME NEW c \in Requests, calls'[c].what = "leave" PROVE LeaveOK(calls[c])'
  <2> SUFFICES ASSUME calls'[c] = calls[c] PROVE LeaveOK(calls[c])' BY <1>5 DEF LeavingMoves
  <2>1. PICK k : k = calls[c] OBVIOUS
  <2>2. calls'[c] = k /\ LeaveOK(k) BY <1>5, <2>1 DEF SeatsInv
  <2>3. PICK t : t = k.about.table OBVIOUS
  <2>4. PICK n : n = k.about.seat OBVIOUS
  <2>5. t \in Tables /\ (n # NoSeat => n \in Seats) BY <2>2, <2>3, <2>4 DEF LeaveOK, HeldAt, Held
  <2>6. n # NoSeat => HeldAt(n, t)' BY <2>2, <2>3, <2>4, <2>5, HeldStays DEF LeaveOK
  <2>7. ASSUME n = NoSeat, k.about.why = "quick"
        PROVE  \E m \in Seats : HeldAt(m, t)' /\ m # tab'.tokens[t]
    <3>1. PICK m \in Seats : HeldAt(m, t) /\ m # tab.tokens[t]
      BY <2>2, <2>3, <2>4, <2>7 DEF LeaveOK
    <3>2. HeldAt(m, t)' BY <2>5, <3>1, HeldStays
    <3>3. m # tab'.tokens[t] BY <1>1, <2>5, <3>1 DEF TabMoves, HeldAt
    <3> QED BY <3>2, <3>3
  <2>8. ASSUME n # NoSeat, seats[n].state # "waiting" PROVE seats'[n].state = seats[n].state
    <3>1. Held(n) BY <2>2, <2>4, <2>8 DEF LeaveOK, HeldAt
    <3> QED BY <2>5, <2>8, <3>1, HeldStays DEF SeatsMove
  <2>9. k.state = "ok" => n # NoSeat /\ seats'[n].state = "left"
    BY <2>2, <2>4, <2>8 DEF LeaveOK
  <2>10. k.state # "sent" /\ n # NoSeat => n \in stranded' \/ seats'[n].state # "waiting"
    BY <2>2, <2>4, <2>8 DEF LeaveOK, TabMoves
  <2>11. calls'[c].about.table = t /\ calls'[c].about.seat = n /\ calls'[c].state = k.state
         /\ calls'[c].about.why = k.about.why
    BY <2>2, <2>3, <2>4
  <2> QED BY <2>5, <2>6, <2>7, <2>9, <2>10, <2>11 DEF LeaveOK
<1>6. ASSUME NEW c \in Requests PROVE EnterOK(c)'
  <2> SUFFICES ASSUME NEW n \in Seats \cup {NoSeat}, Brings(calls'[c], n)
               PROVE  /\ n \in Seats /\ seats'[n].table \in Tables
                      /\ \A d \in Requests : Brings(calls'[d], n) => d = c
    BY DEF EnterOK
  <2>1. CASE Brings(calls[c], n)
    <3>1. /\ n \in Seats /\ seats[n].table \in Tables
          /\ \A d \in Requests : Brings(calls[d], n) => d = c
      BY <2>1 DEF SeatsInv, EnterOK
    <3>2. seats[n] # NotTaken BY <3>1, CrewAssumption DEF NotTaken, Away
    <3>3. seats'[n].table \in Tables BY <3>1, <3>2 DEF SeatsMove
    <3> QED BY <3>1, <3>2, <3>3 DEF AnswersMove
  <2>2. CASE ~Brings(calls[c], n) BY <2>2 DEF AnswersMove
  <2> QED BY <2>1, <2>2
<1> QED BY <1>2, <1>3, <1>4, <1>5, <1>6 DEF SeatsInv

\* No token of a seat that waits is forgotten, but for those of SeatIsGivenUpFirst.
SeatStep ==
  \A t \in Tables :
    (tab.tokens[t] # NoSeat /\ tab'.tokens[t] = NoSeat /\ OnlySeatAt(t)) =>
      tab.tokens[t] \in stranded' \/ seats[tab.tokens[t]].state # "waiting"

\* A step keeps the invariant, and both promises.
Right == CrewInv' /\ BannerStep /\ SeatStep

LEMMA TokensKept ==
  ASSUME tab'.tokens = tab.tokens
  PROVE  SeatStep
BY DEF SeatStep

LEMMA PageKept ==
  ASSUME AccountInv, calls' \in [Requests -> Request], server' = server, page' = page
  PROVE  AccountInv' /\ BannerStep
BY DEF AccountInv, BannerStep

\* Seats that stay as they are.
LEMMA SeatsStay ==
  ASSUME CrewInv, seats' = seats
  PROVE  SeatsMove
<1>1. \A n \in Seats : seats[n] # NotTaken => seats[n].state # "none" BY DEF CrewInv, SeatsInv
<1> QED BY <1>1 DEF SeatsMove

\* A request of the account's moves neither answers nor leavings.
LEMMA QuietMoves ==
  ASSUME CrewInv, QuietCalls
  PROVE  AnswersMove /\ LeavingMoves
<1>1. calls \in [Requests -> Request] BY DEF CrewInv, AccountInv
<1>2. CASE calls' = calls BY <1>2 DEF AnswersMove, LeavingMoves
<1>3. ASSUME NEW c \in Requests, NEW k \in Request, Turns(c, k), Quiet(k)
      PROVE  AnswersMove /\ LeavingMoves
  <2>1. calls'[c] = k /\ \A d \in Requests : d # c => calls'[d] = calls[d]
    BY <1>1, <1>3, TurnsIs
  <2>2. AnswersMove BY <1>3, <2>1 DEF AnswersMove, Quiet
  <2>3. LeavingMoves BY <1>3, <2>1 DEF LeavingMoves, Quiet
  <2> QED BY <2>2, <2>3
<1> QED BY <1>2, <1>3 DEF QuietCalls

\* The tab stays where its seats are.
LEMMA TabStays ==
  ASSUME tab'.tokens = tab.tokens, tab'.session = tab.session, stranded \subseteq stranded'
  PROVE  TabMoves
BY DEF TabMoves

\* The steps of the account's side, which know nothing of seats.
LEMMA QuietIsRight ==
  ASSUME CrewInv, AccountInv', QuietCalls, BannerStep, seats' = seats, TabTypes',
         tab'.tokens = tab.tokens, tab'.session = tab.session, stranded \subseteq stranded'
  PROVE  Right
<1>1. SeatsInv' BY SeatsStay, QuietMoves, TabStays, SeatsKept
<1> QED BY <1>1, TokensKept DEF Right, CrewInv

LEMMA AccountIsRight ==
  ASSUME CrewInv, AccountInv', QuietCalls, BannerStep, NoMove
  PROVE  Right
<1>1. seats' = seats /\ tab' = tab /\ stranded' = stranded BY DEF NoMove
<1>2. TabTypes' BY <1>1 DEF CrewInv, TabTypes
<1> QED BY <1>1, <1>2, QuietIsRight

-----------------------------------------------------------------------------
(* What the player does *)

LEMMA JoinIsRight ==
  ASSUME CrewInv, NEW c \in Requests, NEW t \in Tables, JoinByCode(c, t) \/ JoinInvited(c, t)
  PROVE  Right
<1> DEFINE about == ToTable(t)
           invited == [ToTable(t) EXCEPT !.invite = page.banner]
<1>1. calls \in [Requests -> Request] /\ AccountInv BY DEF CrewInv, AccountInv
<1>2. about \in About /\ invited \in About
  BY <1>1, RequestsAre DEF ToTable, About, AccountInv
<1> HIDE DEF about, invited
<1>3. Send(c, "enter", about) \/ Send(c, "enter", invited)
  BY DEF JoinByCode, JoinInvited, about, invited
<1>4. "enter" \in Whats \ {"leave"} BY DEF Whats
<1>5. calls' \in [Requests -> Request] /\ QuietCalls BY <1>1, <1>2, <1>3, <1>4, AsksQuietly
<1>6. /\ server' = server
      /\ page' = page \/ page' = [page EXCEPT !.banner = None]
      /\ UNCHANGED <<seats, tab, stranded>>
  BY DEF JoinByCode, JoinInvited
<1>7. AccountInv' /\ BannerStep BY <1>1, <1>5, <1>6, PageIs DEF AccountInv
<1> QED BY <1>5, <1>6, <1>7, AccountIsRight DEF NoMove

\* A request to leave that is right about its seat is sent.
LEMMA LeaveIsSent ==
  ASSUME CrewInv, NEW c \in Requests, NEW t \in Tables, NEW n \in Seats \cup {NoSeat},
         NEW why \in Whys, Send(c, "leave", LeaveFrom(t, n, why)),
         n # NoSeat => HeldAt(n, t),
         n = NoSeat /\ why = "quick" => \E m \in Seats : HeldAt(m, t) /\ m # tab.tokens[t],
         seats' = seats, tab'.tokens = tab.tokens
  PROVE  calls' \in [Requests -> Request] /\ AnswersMove /\ LeavingMoves
<1>1. PICK a : a = LeaveFrom(t, n, why) OBVIOUS
<1>2. a \in About /\ a.table = t /\ a.seat = n /\ a.why = why
  BY <1>1, RequestsAre DEF LeaveFrom, About
<1>3. PICK k : k = Asked("leave", a) OBVIOUS
<1>4. "leave" \in Whats BY DEF Whats
<1>5. k \in Request /\ k.what = "leave" /\ k.about = a /\ k.state = "sent" /\ Turns(c, k)
      /\ calls \in [Requests -> Request]
  BY <1>1, <1>2, <1>3, <1>4, RequestsAre, SentIs DEF CrewInv, AccountInv
<1>6. /\ calls' \in [Requests -> Request] /\ calls'[c] = k
      /\ \A d \in Requests : d # c => calls'[d] = calls[d]
  BY <1>5, TurnsIs
<1>7. AnswersMove BY <1>5, <1>6 DEF AnswersMove, Brings
<1>8. SeatsMove BY SeatsStay
<1>9. n # NoSeat => HeldAt(n, t)' BY <1>7, <1>8, HeldStays
<1>10. ASSUME n = NoSeat, why = "quick"
       PROVE  \E m \in Seats : HeldAt(m, t)' /\ m # tab'.tokens[t]
  BY <1>7, <1>8, <1>10, HeldStays
<1>11. LeaveOK(calls[c])'
  <2>1. calls'[c].about.table = t /\ calls'[c].about.seat = n /\ calls'[c].state = "sent"
        /\ calls'[c].about.why = why
    BY <1>2, <1>5, <1>6
  <2> QED BY <1>9, <1>10, <2>1 DEF LeaveOK
<1>12. LeavingMoves BY <1>6, <1>11 DEF LeavingMoves
<1> QED BY <1>6, <1>7, <1>12

LEMMA QuickMatchIsRight ==
  ASSUME CrewInv, NEW c \in Requests, QuickMatch(c)
  PROVE  Right
<1>1. calls \in [Requests -> Request] /\ AccountInv /\ TabTypes BY DEF CrewInv, AccountInv
<1>2. /\ tab' = [tab EXCEPT !.quick = TRUE] /\ server' = server /\ page' = page
      /\ seats' = seats /\ stranded' = stranded
  BY DEF QuickMatch
<1>3. tab'.tokens = tab.tokens /\ tab'.session = tab.session /\ TabTypes'
  BY <1>1, <1>2 DEF TabTypes
<1>4. CASE tab.session = NoSeat
  <2>1. Send(c, "enter", For("quick")) BY <1>4 DEF QuickMatch
  <2>2. For("quick") \in About /\ "enter" \in Whats \ {"leave"} BY RequestsAre DEF Whys, Whats
  <2>3. calls' \in [Requests -> Request] /\ QuietCalls BY <1>1, <2>1, <2>2, AsksQuietly
  <2>4. AccountInv' /\ BannerStep BY <1>1, <1>2, <2>3, PageKept
  <2> QED BY <1>2, <1>3, <2>3, <2>4, QuietIsRight
<1>5. CASE tab.session # NoSeat
  <2>1. PICK m : m = tab.session OBVIOUS
  <2>2. Held(m) /\ m \in Seats BY <1>5, <2>1 DEF CrewInv, SeatsInv, Held
  <2>3. PICK t : t = seats[m].table OBVIOUS
  <2>4. t \in Tables /\ HeldAt(m, t) BY <2>2, <2>3 DEF Held, HeldAt
  <2>5. PICK n : n = tab.tokens[t] OBVIOUS
  <2>6. n \in Seats \cup {NoSeat} /\ (n # NoSeat => HeldAt(n, t))
    BY <1>1, <2>4, <2>5 DEF TabTypes, CrewInv, SeatsInv
  <2>7. Send(c, "leave", LeaveFrom(t, n, "quick"))
    BY <1>5, <2>1, <2>3, <2>5 DEF QuickMatch, SessionSeat
  <2>8. n = NoSeat => m # tab.tokens[t] BY <2>2, <2>5 DEF NoSeat, Seats
  <2>9. "quick" \in Whys BY DEF Whys
  <2>10. calls' \in [Requests -> Request] /\ AnswersMove /\ LeavingMoves
    BY <1>2, <1>3, <2>2, <2>4, <2>6, <2>7, <2>8, <2>9, LeaveIsSent
  <2>11. AccountInv' /\ BannerStep BY <1>1, <1>2, <2>10, PageKept
  <2>12. SeatsInv' BY <1>2, <1>3, <2>10, SeatsStay, TabStays, SeatsKept
  <2> QED BY <1>3, <2>11, <2>12, TokensKept DEF Right, CrewInv
<1> QED BY <1>4, <1>5

LEMMA PressLeaveIsRight ==
  ASSUME CrewInv, NEW c \in Requests, PressLeave(c)
  PROVE  Right
<1>1. calls \in [Requests -> Request] /\ AccountInv /\ TabTypes BY DEF CrewInv, AccountInv
<1>2. UNCHANGED <<server, page, seats, tab, stranded>> BY DEF PressLeave
<1>3. PICK t : t = tab.address OBVIOUS
<1>4. PICK n : n = tab.tokens[t] OBVIOUS
<1>5. t \in Tables BY <1>3 DEF PressLeave
<1>6. PICK why \in {"lobby", "privateTable"} : Send(c, "leave", LeaveFrom(t, n, why))
  BY <1>3, <1>4 DEF PressLeave
<1>7. n \in Seats \cup {NoSeat} /\ (n # NoSeat => HeldAt(n, t))
  BY <1>1, <1>4, <1>5 DEF TabTypes, CrewInv, SeatsInv
<1>8. why \in Whys /\ why # "quick" BY DEF Whys
<1>9. calls' \in [Requests -> Request] /\ AnswersMove /\ LeavingMoves
  BY <1>2, <1>5, <1>6, <1>7, <1>8, LeaveIsSent
<1>10. AccountInv' /\ BannerStep BY <1>1, <1>2, <1>9, PageKept
<1>11. TabTypes' BY <1>1, <1>2 DEF TabTypes
<1>12. SeatsInv' BY <1>2, <1>9, <1>11, SeatsStay, TabStays, SeatsKept
<1> QED BY <1>2, <1>10, <1>11, <1>12, TokensKept DEF Right, CrewInv

LEMMA FollowLinkIsRight ==
  ASSUME CrewInv, NEW address \in Tables \cup {Away}, FollowLink(address)
  PROVE  Right
<1>1. /\ AccountInv /\ TabTypes /\ tab' = [tab EXCEPT !.address = address]
      /\ UNCHANGED <<server, page, calls, seats, stranded>>
  BY DEF CrewInv, FollowLink
<1>2. AccountInv' /\ BannerStep /\ QuietCalls BY <1>1 DEF AccountInv, BannerStep, QuietCalls
<1>3. tab'.tokens = tab.tokens /\ tab'.session = tab.session /\ TabTypes' BY <1>1 DEF TabTypes
<1> QED BY <1>1, <1>2, <1>3, QuietIsRight

\* A page that is loaded again has nothing under way, and the seats it was to hear of are lost
\* from sight.
LEMMA LoadIsRight ==
  ASSUME CrewInv, Reload \/ SignOut
  PROVE  Right
<1>1. calls \in [Requests -> Request] /\ AccountInv /\ TabTypes BY DEF CrewInv, AccountInv
<1>2. PICK address \in Tables \cup {Away} : Load(address)
  BY <1>1 DEF Reload, SignOut, TabTypes
<1>3. /\ page' = NewPage /\ calls' = NewCalls /\ seats' = seats
      /\ tab' = [tab EXCEPT !.address = address, !.quick = FALSE]
  BY <1>2 DEF Load
<1>4. \A c \in Requests : StrandedBy(c) \subseteq Seats BY DEF StrandedBy
<1>5. stranded' \subseteq Seats /\ stranded \subseteq stranded'
  BY <1>1, <1>2, <1>4 DEF Load, TabTypes
<1>6. tab'.tokens = tab.tokens /\ tab'.session = tab.session /\ TabTypes'
  BY <1>1, <1>3, <1>5 DEF TabTypes
<1>7. calls' \in [Requests -> Request] /\ \A c \in Requests : calls'[c].what \in {"none", "account"}
  <2>1. "account" \in Whats BY DEF Whats
  <2> QED BY <1>3, <2>1, RequestsAre DEF NewCalls
<1>8. server' \in [member : BOOLEAN, list : Lists, invites : SUBSET Invites,
                   invited : SUBSET Invites]
  BY <1>1 DEF Reload, SignOut, AccountInv
<1>9. AccountInv' /\ BannerStep
  BY <1>3, <1>7, <1>8 DEF AccountInv, NewPage, BannerStep
<1>10. AnswersMove /\ LeavingMoves BY <1>7 DEF AnswersMove, LeavingMoves, Brings
<1>11. SeatsInv' BY <1>3, <1>5, <1>6, <1>10, SeatsStay, TabStays, SeatsKept
<1> QED BY <1>6, <1>9, <1>11, TokensKept DEF Right, CrewInv

-----------------------------------------------------------------------------
(* What the server does *)

\* An answer to a request to leave, or its loss, leaves it right about its seat.
LEMMA LeaveIsAnswered ==
  ASSUME CrewInv, NEW c \in Requests, NEW k \in Request, Turns(c, k),
         k.what = "leave", calls[c].what = "leave", k.about = calls[c].about, k.state # "sent",
         SeatsMove, tab' = tab, stranded \subseteq stranded',
         k.state = "ok" => k.about.seat # NoSeat /\ seats'[k.about.seat].state = "left",
         k.about.seat # NoSeat =>
           k.about.seat \in stranded' \/ seats'[k.about.seat].state # "waiting"
  PROVE  AnswersMove /\ LeavingMoves
<1>1. /\ calls \in [Requests -> Request] /\ calls'[c] = k
      /\ \A d \in Requests : d # c => calls'[d] = calls[d]
  BY TurnsIs DEF CrewInv, AccountInv
<1>2. AnswersMove BY <1>1 DEF AnswersMove, Brings
<1>3. PICK t : t = k.about.table OBVIOUS
<1>4. PICK n : n = k.about.seat OBVIOUS
<1>5. /\ t \in Tables /\ (n # NoSeat => HeldAt(n, t) /\ n \in Seats)
      /\ n = NoSeat /\ k.about.why = "quick" =>
           \E m \in Seats : HeldAt(m, t) /\ m # tab.tokens[t]
  BY <1>3, <1>4 DEF CrewInv, SeatsInv, LeaveOK, HeldAt, Held
<1>6. n # NoSeat => HeldAt(n, t)' BY <1>2, <1>5, HeldStays
<1>7. ASSUME n = NoSeat, k.about.why = "quick"
      PROVE  \E m \in Seats : HeldAt(m, t)' /\ m # tab'.tokens[t]
  BY <1>2, <1>5, <1>7, HeldStays
<1>8. LeaveOK(calls[c])'
  <2>1. calls'[c].about.table = t /\ calls'[c].about.seat = n /\ calls'[c].state = k.state
        /\ calls'[c].about.why = k.about.why
    BY <1>1, <1>3, <1>4
  <2>2. k.state = "ok" => n # NoSeat /\ seats'[n].state = "left" BY <1>4
  <2>3. n # NoSeat => n \in stranded' \/ seats'[n].state # "waiting" BY <1>4
  <2> QED BY <1>5, <1>6, <1>7, <2>1, <2>2, <2>3 DEF LeaveOK
<1>9. LeavingMoves BY <1>1, <1>8 DEF LeavingMoves
<1> QED BY <1>2, <1>9

\* The server refuses: nothing is brought.
LEMMA RefusedQuietly ==
  ASSUME calls \in [Requests -> Request], NEW c \in Requests, calls[c].what # "leave",
         Answer(c, "refused", NoAnswer)
  PROVE  calls' \in [Requests -> Request] /\ QuietCalls
<1>1. PICK k \in Request : Turns(c, k) /\ k.what = calls[c].what /\ k.state = "refused"
  BY AnswerIs, RequestsAre
<1>2. Quiet(k) BY <1>1, QuietIs
<1> QED BY <1>1, <1>2, TurnsIs DEF QuietCalls

LEMMA ServeEnterIsRight ==
  ASSUME CrewInv, NEW c \in Requests, ServeEnter(c)
  PROVE  Right
<1>1. /\ calls \in [Requests -> Request] /\ AccountInv /\ TabTypes /\ calls[c].what = "enter"
      /\ UNCHANGED <<server, page, tab, stranded>>
  BY DEF CrewInv, AccountInv, ServeEnter, Sent
<1>2. CASE Answer(c, "refused", NoAnswer) /\ UNCHANGED seats
  <2>1. calls' \in [Requests -> Request] /\ QuietCalls BY <1>1, <1>2, RefusedQuietly
  <2>2. AccountInv' /\ BannerStep BY <1>1, <2>1, PageKept
  <2> QED BY <1>1, <1>2, <2>1, <2>2, AccountIsRight DEF NoMove
<1>3. ASSUME NEW t \in Tables, NEW n \in Seats, NextToTake(n),
             seats' = [seats EXCEPT ![n] = [table |-> t, state |-> "waiting"]],
             Answer(c, "ok", [NoAnswer EXCEPT !.seat = n])
      PROVE  Right
  <2>1. seats[n] = NotTaken
    <3>1. n \in Nat BY CrewAssumption DEF Seats
    <3> QED BY <1>3, <3>1 DEF NextToTake
  <2>2. PICK a : a = [NoAnswer EXCEPT !.seat = n] OBVIOUS
  <2>3. a \in Answers /\ a.seat = n BY <2>2, RequestsAre DEF Answers
  <2>4. PICK k \in Request : Turns(c, k) /\ k.what = "enter" /\ k.state = "ok" /\ k.answer = a
    BY <1>1, <1>3, <2>2, <2>3, AnswerIs
  <2>5. /\ calls' \in [Requests -> Request] /\ calls'[c] = k
        /\ \A d \in Requests : d # c => calls'[d] = calls[d]
    BY <1>1, <2>4, TurnsIs
  <2>6. seats'[n] = [table |-> t, state |-> "waiting"] /\ \A m \in Seats : m # n => seats'[m] = seats[m]
    BY <1>1, <1>3 DEF TabTypes
  <2>7. SeatsMove
    <3>1. \A m \in Seats : seats[m] # NotTaken => seats[m].state # "none" BY DEF CrewInv, SeatsInv
    <3> QED BY <2>1, <2>6, <3>1 DEF SeatsMove
  <2>8. \A d \in Requests : ~Brings(calls[d], n)
    <3>1. seats[n].table \notin Tables BY <2>1, CrewAssumption DEF NotTaken, Away
    <3> QED BY <3>1 DEF CrewInv, SeatsInv, EnterOK
  <2>9. AnswersMove
    <3> SUFFICES ASSUME NEW d \in Requests, NEW m \in Seats \cup {NoSeat}, Brings(calls'[d], m)
                 PROVE  \/ Brings(calls[d], m)
                        \/ /\ m \in Seats /\ seats[m] = NotTaken /\ seats'[m].table \in Tables
                           /\ \A e \in Requests : Brings(calls'[e], m) => e = d
      BY DEF AnswersMove
    <3>1. CASE d # c BY <2>5, <3>1
    <3>2. CASE d = c
      <4>1. m = n BY <2>3, <2>4, <2>5, <3>2 DEF Brings
      <4>2. \A e \in Requests : Brings(calls'[e], n) => e = c BY <2>5, <2>8
      <4> QED BY <2>1, <2>6, <3>2, <4>1, <4>2
    <3> QED BY <3>1, <3>2
  <2>10. LeavingMoves BY <2>4, <2>5 DEF LeavingMoves
  <2>11. TabTypes' BY <1>1, <1>3 DEF TabTypes
  <2>12. SeatsInv' BY <1>1, <2>7, <2>9, <2>10, <2>11, TabStays, SeatsKept
  <2>13. AccountInv' /\ BannerStep BY <1>1, <2>5, PageKept
  <2> QED BY <1>1, <2>11, <2>12, <2>13, TokensKept DEF Right, CrewInv
<1> QED BY <1>2, <1>3 DEF ServeEnter

LEMMA ServeLeaveIsRight ==
  ASSUME CrewInv, NEW c \in Requests, ServeLeave(c)
  PROVE  Right
<1>1. /\ calls \in [Requests -> Request] /\ AccountInv /\ TabTypes /\ calls[c].what = "leave"
      /\ UNCHANGED <<server, page, tab, stranded>>
  BY DEF CrewInv, AccountInv, ServeLeave, Sent
<1>2. PICK n : n = calls[c].about.seat OBVIOUS
<1>3. n # NoSeat => n \in Seats BY <1>1, <1>2 DEF CrewInv, SeatsInv, LeaveOK, HeldAt, Held
<1>4. NoAnswer \in Answers /\ NoSeat \notin Seats BY RequestsAre DEF NoSeat, Seats
<1>5. CASE n \in Seats /\ seats[n].state = "waiting"
  <2>1. Answer(c, "ok", NoAnswer) /\ seats' = [seats EXCEPT ![n].state = "left"]
    BY <1>2, <1>5 DEF ServeLeave
  <2>2. PICK k \in Request : /\ Turns(c, k) /\ k.what = "leave" /\ k.about = calls[c].about
                             /\ k.state = "ok"
    BY <1>1, <1>4, <2>1, AnswerIs
  <2>3. /\ seats'[n].table = seats[n].table /\ seats'[n].state = "left"
        /\ \A m \in Seats : m # n => seats'[m] = seats[m]
    BY <1>1, <1>5, <2>1 DEF TabTypes
  <2>4. SeatsMove
    <3>1. \A m \in Seats : seats[m] # NotTaken => seats[m].state # "none" BY DEF CrewInv, SeatsInv
    <3>2. seats[n] # NotTaken BY <1>5 DEF NotTaken
    <3> QED BY <1>5, <2>3, <3>1, <3>2 DEF SeatsMove
  <2>5. AnswersMove /\ LeavingMoves
    BY <1>1, <1>2, <1>4, <1>5, <2>2, <2>3, <2>4, LeaveIsAnswered
  <2>6. TabTypes' BY <1>1, <2>1 DEF TabTypes
  <2>7. SeatsInv' BY <1>1, <2>4, <2>5, <2>6, TabStays, SeatsKept
  <2>8. calls' \in [Requests -> Request] BY <1>1, <2>2, TurnsIs
  <2>9. AccountInv' /\ BannerStep BY <1>1, <2>8, PageKept
  <2> QED BY <1>1, <2>6, <2>7, <2>9, TokensKept DEF Right, CrewInv
<1>6. CASE ~(n \in Seats /\ seats[n].state = "waiting")
  <2>1. Answer(c, "refused", NoAnswer) /\ seats' = seats BY <1>2, <1>6 DEF ServeLeave
  <2>2. PICK k \in Request : /\ Turns(c, k) /\ k.what = "leave" /\ k.about = calls[c].about
                             /\ k.state = "refused"
    BY <1>1, <1>4, <2>1, AnswerIs
  <2>3. SeatsMove BY <2>1, SeatsStay
  <2>4. AnswersMove /\ LeavingMoves
    BY <1>1, <1>2, <1>3, <1>6, <2>1, <2>2, <2>3, LeaveIsAnswered
  <2>5. TabTypes' BY <1>1, <2>1 DEF TabTypes
  <2>6. SeatsInv' BY <1>1, <2>3, <2>4, <2>5, TabStays, SeatsKept
  <2>7. calls' \in [Requests -> Request] BY <1>1, <2>2, TurnsIs
  <2>8. AccountInv' /\ BannerStep BY <1>1, <2>7, PageKept
  <2> QED BY <1>1, <2>5, <2>6, <2>8, TokensKept DEF Right, CrewInv
<1> QED BY <1>5, <1>6

LEMMA DropIsRight ==
  ASSUME CrewInv, NEW c \in Requests, Drop(c)
  PROVE  Right
<1>1. /\ calls \in [Requests -> Request] /\ AccountInv /\ TabTypes
      /\ UNCHANGED <<server, page, seats, tab>> /\ stranded' = stranded \cup StrandedBy(c)
      /\ Answer(c, "refused", NoAnswer)
  BY DEF CrewInv, AccountInv, Drop, Lose
<1>2. stranded' \subseteq Seats /\ stranded \subseteq stranded' BY <1>1 DEF StrandedBy, TabTypes
<1>3. TabTypes' BY <1>1, <1>2 DEF TabTypes
<1>4. CASE calls[c].what = "leave"
  <2>1. NoAnswer \in Answers BY RequestsAre
  <2>2. PICK k \in Request : /\ Turns(c, k) /\ k.what = "leave" /\ k.about = calls[c].about
                             /\ k.state = "refused"
    BY <1>1, <1>4, <2>1, AnswerIs
  <2>3. PICK n : n = calls[c].about.seat OBVIOUS
  <2>4. n # NoSeat => n \in Seats BY <1>4, <2>3 DEF CrewInv, SeatsInv, LeaveOK, HeldAt, Held
  <2>5. n # NoSeat => n \in stranded' \/ seats'[n].state # "waiting"
    BY <1>1, <1>4, <2>3, <2>4 DEF StrandedBy
  <2>6. SeatsMove BY <1>1, SeatsStay
  <2>7. AnswersMove /\ LeavingMoves
    BY <1>1, <1>2, <1>4, <2>2, <2>3, <2>5, <2>6, LeaveIsAnswered
  <2>8. SeatsInv' BY <1>1, <1>2, <1>3, <2>6, <2>7, TabStays, SeatsKept
  <2>9. calls' \in [Requests -> Request] BY <1>1, <2>2, TurnsIs
  <2>10. AccountInv' /\ BannerStep BY <1>1, <2>9, PageKept
  <2> QED BY <1>1, <1>3, <2>8, <2>10, TokensKept DEF Right, CrewInv
<1>5. CASE calls[c].what # "leave"
  <2>1. calls' \in [Requests -> Request] /\ QuietCalls BY <1>1, <1>5, RefusedQuietly
  <2>2. AccountInv' /\ BannerStep BY <1>1, <2>1, PageKept
  <2> QED BY <1>1, <1>2, <1>3, <2>1, <2>2, QuietIsRight
<1> QED BY <1>4, <1>5

LEMMA TableStartsIsRight ==
  ASSUME CrewInv, NEW t \in Tables, TableStarts(t)
  PROVE  Right
<1>1. AccountInv /\ TabTypes /\ UNCHANGED <<server, page, calls, tab, stranded>>
  BY DEF CrewInv, TableStarts
<1>2. seats' = [n \in Seats |-> IF seats[n] = [table |-> t, state |-> "waiting"]
                                THEN [seats[n] EXCEPT !.state = "playing"] ELSE seats[n]]
  BY DEF TableStarts
<1>3. \A n \in Seats : \/ seats'[n] = seats[n]
                       \/ /\ seats[n].state = "waiting" /\ seats'[n].state = "playing"
                          /\ seats'[n].table = seats[n].table
                          /\ seats'[n] = [seats[n] EXCEPT !.state = "playing"]
  BY <1>1, <1>2 DEF TabTypes
<1>4. SeatsMove
  <2>1. \A n \in Seats : seats[n] # NotTaken => seats[n].state # "none" BY DEF CrewInv, SeatsInv
  <2>2. ASSUME NEW n \in Seats, seats[n] = NotTaken PROVE seats'[n] = NotTaken
    <3>1. seats[n].state # "waiting" BY <2>2 DEF NotTaken
    <3> QED BY <1>3, <2>2, <3>1
  <2>3. ASSUME NEW n \in Seats, seats[n] # NotTaken
        PROVE  /\ seats'[n].table = seats[n].table /\ seats'[n].state # "none"
               /\ seats[n].state = "waiting" \/ seats'[n].state = seats[n].state
    <3>1. CASE seats'[n] = seats[n] BY <2>1, <2>3, <3>1
    <3>2. CASE seats'[n] # seats[n] BY <1>3, <3>2
    <3> QED BY <3>1, <3>2
  <2> QED BY <2>2, <2>3 DEF SeatsMove
<1>5. TabTypes' BY <1>1, <1>2 DEF TabTypes
<1>6. AccountInv' /\ BannerStep BY <1>1 DEF AccountInv, BannerStep
<1>7. AnswersMove /\ LeavingMoves BY <1>1 DEF AnswersMove, LeavingMoves
<1>8. SeatsInv' BY <1>1, <1>4, <1>5, <1>7, TabStays, SeatsKept
<1> QED BY <1>1, <1>5, <1>6, <1>8, TokensKept DEF Right, CrewInv

-----------------------------------------------------------------------------
(* What the tab does with an answer *)

LEMMA ForgottenIs ==
  ASSUME TabTypes, NEW t \in Tables
  PROVE  /\ Forgotten(t) \in [Tables -> Seats \cup {NoSeat}] /\ Forgotten(t)[t] = NoSeat
         /\ \A u \in Tables : u # t => Forgotten(t)[u] = tab.tokens[u]
BY DEF TabTypes, Forgotten

\* After an answer to a request to leave, the seat that is forgotten waits no more.
LEMMA ForgottenIsRight ==
  ASSUME CrewInv, NEW c \in Requests, calls[c].what = "leave", calls[c].state # "sent",
         calls[c].about.why = "quick" \/ calls[c].state = "ok",
         tab'.tokens = Forgotten(calls[c].about.table), stranded' = stranded
  PROVE  SeatStep
<1>1. PICK t : t = calls[c].about.table OBVIOUS
<1>2. PICK n : n = calls[c].about.seat OBVIOUS
<1>3. LeaveOK(calls[c]) /\ TabTypes BY DEF CrewInv, SeatsInv
<1>4. /\ t \in Tables /\ (n # NoSeat => HeldAt(n, t))
      /\ n = NoSeat => \E m \in Seats : HeldAt(m, t) /\ m # tab.tokens[t]
      /\ n # NoSeat => n \in stranded' \/ seats[n].state # "waiting"
  BY <1>1, <1>2, <1>3 DEF LeaveOK
<1> SUFFICES ASSUME NEW u \in Tables, tab.tokens[u] # NoSeat, tab'.tokens[u] = NoSeat, OnlySeatAt(u)
             PROVE  tab.tokens[u] \in stranded' \/ seats[tab.tokens[u]].state # "waiting"
  BY DEF SeatStep
<1>5. u = t BY <1>1, <1>3, <1>4, ForgottenIs
<1>6. \A m \in Seats : HeldAt(m, t) => m = tab.tokens[t] BY <1>5 DEF OnlySeatAt, HeldAt
<1>7. n # NoSeat BY <1>4, <1>6
<1>8. n = tab.tokens[t] BY <1>4, <1>6, <1>7 DEF HeldAt, Held
<1> QED BY <1>4, <1>5, <1>7, <1>8

LEMMA GivenUpIsRight ==
  ASSUME CrewInv, NEW c \in Requests, GivenUp(c)
  PROVE  Right
<1>1. /\ calls \in [Requests -> Request] /\ AccountInv /\ TabTypes
      /\ calls[c].what = "leave" /\ calls[c].state # "sent" /\ calls[c].about.why = "quick"
      /\ UNCHANGED <<server, page, seats, stranded>> /\ GoOn(c, "enter", For("quick"))
  BY DEF CrewInv, AccountInv, GivenUp, Back
<1>2. PICK t : t = calls[c].about.table OBVIOUS
<1>3. t \in Tables BY <1>1, <1>2 DEF CrewInv, SeatsInv, LeaveOK
<1>4. PICK tokens : tokens = Forgotten(t) OBVIOUS
<1>5. /\ tokens \in [Tables -> Seats \cup {NoSeat}]
      /\ \A u \in Tables : tokens[u] \in {tab.tokens[u], NoSeat}
  BY <1>1, <1>3, <1>4, ForgottenIs
<1>6. tab' = [tab EXCEPT !.tokens = tokens, !.session = NoSeat]
  BY <1>2, <1>4 DEF GivenUp
<1>7. tab'.tokens = tokens /\ tab'.session = NoSeat /\ TabTypes' BY <1>1, <1>5, <1>6 DEF TabTypes
<1>8. SeatStep BY <1>1, <1>2, <1>4, <1>7, ForgottenIsRight
<1>9. For("quick") \in About /\ "enter" \in Whats \ {"leave"} BY RequestsAre DEF Whys, Whats
<1>10. calls' \in [Requests -> Request] /\ QuietCalls BY <1>1, <1>9, AsksQuietly
<1>11. AccountInv' /\ BannerStep BY <1>1, <1>10, PageKept
<1>12. TabMoves BY <1>1, <1>5, <1>7 DEF TabMoves
<1>13. SeatsInv' BY <1>1, <1>7, <1>10, <1>12, SeatsStay, QuietMoves, SeatsKept
<1> QED BY <1>7, <1>8, <1>11, <1>13 DEF Right, CrewInv

LEMMA LeftIsRight ==
  ASSUME CrewInv, NEW c \in Requests, Left(c)
  PROVE  Right
<1>1. /\ calls \in [Requests -> Request] /\ AccountInv /\ TabTypes
      /\ calls[c].what = "leave" /\ calls[c].state # "sent"
      /\ UNCHANGED <<server, page, seats, stranded>> /\ Done(c)
  BY DEF CrewInv, AccountInv, Left, Back
<1>2. calls' \in [Requests -> Request] /\ QuietCalls BY <1>1, EndsQuietly
<1>3. AccountInv' /\ BannerStep BY <1>1, <1>2, PageKept
<1>4. CASE ~Ok(c)
  <2>1. tab' = tab BY <1>4 DEF Left
  <2> QED BY <1>1, <1>2, <1>3, <2>1, AccountIsRight DEF NoMove
<1>5. CASE Ok(c)
  <2>1. PICK t : t = calls[c].about.table OBVIOUS
  <2>2. t \in Tables BY <1>1, <2>1 DEF CrewInv, SeatsInv, LeaveOK
  <2>3. PICK tokens : tokens = Forgotten(t) OBVIOUS
  <2>4. /\ tokens \in [Tables -> Seats \cup {NoSeat}]
        /\ \A u \in Tables : tokens[u] \in {tab.tokens[u], NoSeat}
    BY <1>1, <2>2, <2>3, ForgottenIs
  <2>5. PICK session \in {tab.session, NoSeat} :
          tab' = [tab EXCEPT !.tokens = tokens, !.address = Away, !.session = session]
    BY <1>1, <1>5, <2>1, <2>3 DEF Left, TabTypes
  <2>6. tab'.tokens = tokens /\ tab'.session = session /\ TabTypes'
    BY <1>1, <2>4, <2>5 DEF TabTypes
  <2>7. SeatStep BY <1>1, <1>5, <2>1, <2>3, <2>6, ForgottenIsRight DEF Ok
  <2>8. TabMoves BY <1>1, <2>4, <2>6 DEF TabMoves
  <2>9. SeatsInv' BY <1>1, <1>2, <2>6, <2>8, SeatsStay, QuietMoves, SeatsKept
  <2> QED BY <1>3, <2>6, <2>7, <2>9 DEF Right, CrewInv
<1> QED BY <1>4, <1>5

\* The tab goes to the seat that the answer brings.
LEMMA EnterIsRight ==
  ASSUME CrewInv, NEW c \in Requests, calls[c].what = "enter", calls[c].state = "ok",
         UNCHANGED <<server, page, seats, stranded>>, QuietCalls,
         calls' \in [Requests -> Request], calls'[c].what # "enter",
         NEW quick \in BOOLEAN, tab' = [Enter(calls[c].answer.seat) EXCEPT !.quick = quick]
  PROVE  Right
<1>1. calls \in [Requests -> Request] /\ AccountInv /\ TabTypes BY DEF CrewInv, AccountInv
<1>2. PICK n : n = calls[c].answer.seat OBVIOUS
<1>3. Brings(calls[c], n) BY <1>2 DEF Brings
<1>4. n \in Seats \cup {NoSeat} BY <1>1, <1>2 DEF Request, Answers
<1>5. /\ n \in Seats /\ seats[n].table \in Tables
      /\ \A d \in Requests : Brings(calls[d], n) => d = c
  BY <1>3, <1>4 DEF CrewInv, SeatsInv, EnterOK
<1>6. PICK t : t = seats[n].table OBVIOUS
<1>7. PICK tokens : tokens = [tab.tokens EXCEPT ![t] = n] OBVIOUS
<1>8. /\ t \in Tables /\ n # NoSeat /\ tokens \in [Tables -> Seats \cup {NoSeat}]
      /\ tokens[t] = n /\ \A u \in Tables : u # t => tokens[u] = tab.tokens[u]
  BY <1>1, <1>5, <1>6, <1>7 DEF TabTypes, NoSeat, Seats
<1>9. tab' = [tab EXCEPT !.tokens = tokens, !.session = n, !.address = t, !.quick = quick]
  BY <1>1, <1>2, <1>6, <1>7 DEF Enter, TabTypes
<1>10. tab'.tokens = tokens /\ tab'.session = n /\ TabTypes'
  BY <1>1, <1>5, <1>8, <1>9 DEF TabTypes
<1>11. SeatStep BY <1>8, <1>10 DEF SeatStep
<1>12. SeatsMove /\ AnswersMove /\ LeavingMoves BY SeatsStay, QuietMoves
<1>13. ~Held(n) BY <1>3 DEF Held, Pending
<1>14. HeldAt(n, t)'
  <2>1. ~Brings(calls'[c], n) BY DEF Brings
  <2>2. ~Pending(n)'
    <3> SUFFICES ASSUME NEW d \in Requests, Brings(calls'[d], n) PROVE FALSE BY DEF Pending
    <3>1. CASE Brings(calls[d], n) BY <1>5, <2>1, <3>1
    <3>2. CASE ~Brings(calls[d], n)
      <4>1. seats[n] = NotTaken BY <1>4, <1>12, <3>2 DEF AnswersMove
      <4> QED BY <1>5, <4>1, CrewAssumption DEF NotTaken, Away
    <3> QED BY <3>1, <3>2
  <2> QED BY <1>5, <1>6, <2>2 DEF HeldAt, Held
<1>15. TabMoves
  <2>1. tab'.tokens[t] = n /\ \A u \in Tables : u # t => tab'.tokens[u] = tab.tokens[u]
    BY <1>8, <1>10
  <2>2. HeldAt(tab.tokens[t], t)' BY <1>14, <2>1 DEF HeldAt, Held, Pending
  <2>3. Held(tab.session)' BY <1>10, <1>14 DEF HeldAt, Held, Pending
  <2>4. \A u \in Tables : \/ tab'.tokens[u] \in {tab.tokens[u], NoSeat}
                          \/ HeldAt(tab.tokens[u], u)' /\ ~Held(tab'.tokens[u])
    BY <1>13, <2>1, <2>2
  <2> QED BY <2>3, <2>4 DEF TabMoves
<1>16. SeatsInv' BY <1>10, <1>12, <1>15, SeatsKept
<1>17. AccountInv' /\ BannerStep BY <1>1, PageKept
<1> QED BY <1>10, <1>11, <1>16, <1>17 DEF Right, CrewInv

LEMMA EnteredIsRight ==
  ASSUME CrewInv, NEW c \in Requests, Entered(c)
  PROVE  Right
<1>1. /\ calls \in [Requests -> Request] /\ AccountInv /\ TabTypes
      /\ calls[c].what = "enter" /\ UNCHANGED <<server, page, seats, stranded>>
  BY DEF CrewInv, AccountInv, Entered, Back
<1>2. PICK a : a = [Nothing EXCEPT !.invite = calls[c].about.invite] OBVIOUS
<1>3. a \in About /\ "dismiss" \in Whats \ {"leave"}
  BY <1>1, <1>2, RequestsAre DEF Request, About, Whats
<1>4. GoOn(c, "dismiss", a) \/ Done(c) BY <1>2 DEF Entered
<1>5. calls' \in [Requests -> Request] /\ QuietCalls BY <1>1, <1>3, <1>4, AsksQuietly, EndsQuietly
<1>6. calls'[c].what # "enter"
  <2>1. CASE GoOn(c, "dismiss", a)
    <3>1. calls'[c] = Asked("dismiss", a) BY <1>1, <2>1 DEF GoOn
    <3> QED BY <3>1 DEF Asked
  <2>2. CASE Done(c)
    <3>1. calls'[c] = NoRequest BY <1>1, <2>2 DEF Done
    <3> QED BY <3>1 DEF NoRequest, Asked
  <2> QED BY <1>4, <2>1, <2>2
<1>7. CASE Ok(c)
  <2>1. PICK there : there = Enter(calls[c].answer.seat) OBVIOUS
  <2>2. there = [there EXCEPT !.quick = tab.quick] /\ tab.quick \in BOOLEAN
    BY <1>1, <2>1 DEF Enter, TabTypes
  <2>3. PICK quick \in BOOLEAN : tab' = [there EXCEPT !.quick = quick]
    BY <1>7, <2>1, <2>2 DEF Entered
  <2> QED BY <1>1, <1>5, <1>6, <1>7, <2>1, <2>3, EnterIsRight DEF Ok
<1>8. CASE ~Ok(c)
  <2>1. tab' = tab \/ tab' = [tab EXCEPT !.quick = FALSE] BY <1>8 DEF Entered
  <2>2. tab'.tokens = tab.tokens /\ tab'.session = tab.session /\ TabTypes'
    BY <1>1, <2>1 DEF TabTypes
  <2>3. AccountInv' /\ BannerStep BY <1>1, <1>5, PageKept
  <2> QED BY <1>1, <1>5, <2>2, <2>3, QuietIsRight
<1> QED BY <1>7, <1>8

LEMMA ReturnsIsRight ==
  ASSUME CrewInv, NEW c \in Requests, Returns(c)
  PROVE  Right
<1>1. AccountInv /\ TabTypes /\ Return(c) /\ UNCHANGED <<seats, stranded>>
  BY DEF CrewInv, Returns
<1>2. AccountInv' /\ QuietCalls /\ BannerStep BY <1>1, ReturnKeeps
<1>3. tab' = tab \/ tab' = [tab EXCEPT !.address = Away] BY DEF Returns
<1>4. tab'.tokens = tab.tokens /\ tab'.session = tab.session /\ TabTypes'
  BY <1>1, <1>3 DEF TabTypes
<1> QED BY <1>1, <1>2, <1>4, QuietIsRight

-----------------------------------------------------------------------------
(* The specification of the tab *)

LEMMA CrewStart == CrewInit => CrewInv
<1> SUFFICES ASSUME CrewInit PROVE CrewInv OBVIOUS
<1>1. page = NewPage /\ calls = NewCalls /\ server.member \in BOOLEAN
  BY DEF CrewInit, AccountInit
<1>2. calls \in [Requests -> Request] /\ \A c \in Requests : calls[c].what \in {"none", "account"}
  <2>1. "account" \in Whats BY DEF Whats
  <2> QED BY <1>1, <2>1, RequestsAre DEF NewCalls
<1>3. server \in [member : BOOLEAN, list : Lists, invites : SUBSET Invites, invited : SUBSET Invites]
  BY AccountAssumption DEF CrewInit, AccountInit
<1>4. AccountInv BY <1>1, <1>2, <1>3 DEF AccountInv, NewPage
<1>5. /\ \A n \in Seats : seats[n] = NotTaken
      /\ \A t \in Tables : tab.tokens[t] = NoSeat
      /\ tab.session = NoSeat
  BY DEF CrewInit, NoTokens
<1>6. TabTypes BY DEF TabTypes, CrewInit, NoTokens, NotTaken
<1>7. SeatsInv BY <1>2, <1>5 DEF SeatsInv, EnterOK, Brings
<1> QED BY <1>4, <1>6, <1>7 DEF CrewInv

LEMMA PlayerStepIsRight ==
  ASSUME CrewInv, PlayerStep
  PROVE  Right
<1>1. AccountInv BY DEF CrewInv
<1>2. ASSUME NEW c \in Requests, Press(c), NoMove PROVE Right
  BY <1>1, <1>2, PressKeeps, AccountIsRight
<1>3. ASSUME AskDelete \/ CancelDelete, NoMove PROVE Right
  <2>1. AccountInv' /\ BannerStep /\ QuietCalls BY <1>1, <1>3, ConfirmKeeps DEF QuietCalls
  <2> QED BY <1>3, <2>1, AccountIsRight
<1> QED
  BY <1>2, <1>3, JoinIsRight, QuickMatchIsRight, PressLeaveIsRight, FollowLinkIsRight, LoadIsRight
     DEF PlayerStep

LEMMA ServerStepIsRight ==
  ASSUME CrewInv, ServerStep
  PROVE  Right
<1>1. AccountInv BY DEF CrewInv
<1>2. ASSUME NEW c \in Requests, ServeAccountSide(c), NoMove PROVE Right
  <2>1. AccountInv' /\ QuietCalls /\ page' = page BY <1>1, <1>2, ServeAccountSideKeeps
  <2> QED BY <1>2, <2>1, AccountIsRight DEF BannerStep
<1>3. ASSUME FriendsChange \/ SessionEnds, NoMove PROVE Right
  <2>1. AccountInv' /\ calls' = calls /\ page' = page BY <1>1, <1>3, FriendsChangeKeeps
  <2> QED BY <1>3, <2>1, AccountIsRight DEF BannerStep, QuietCalls
<1> QED
  BY <1>2, <1>3, ServeEnterIsRight, ServeLeaveIsRight, DropIsRight, TableStartsIsRight
     DEF ServerStep

LEMMA TabStepIsRight ==
  ASSUME CrewInv, TabStep
  PROVE  Right
<1>1. AccountInv BY DEF CrewInv
<1>2. ASSUME NEW c \in Requests, Poll(c), NoMove PROVE Right
  BY <1>1, <1>2, PressKeeps, AccountIsRight
<1> QED BY <1>2, ReturnsIsRight, GivenUpIsRight, EnteredIsRight, LeftIsRight DEF TabStep

LEMMA CrewSteps ==
  ASSUME CrewInv, [CrewNext]_crewVars
  PROVE  Right
<1>1. CASE UNCHANGED crewVars
  <2>1. /\ UNCHANGED <<server, page, calls>> /\ NoMove BY <1>1 DEF crewVars, NoMove
  <2>2. AccountInv' /\ BannerStep /\ QuietCalls
    BY <2>1 DEF CrewInv, AccountInv, BannerStep, QuietCalls
  <2> QED BY <2>1, <2>2, AccountIsRight
<1> QED BY <1>1, PlayerStepIsRight, ServerStepIsRight, TabStepIsRight DEF CrewNext

\* What the page shows and the tab remembers agrees with the seats the server holds: an
\* invitation that was shown was seen, every token is of a seat at its table, each seat is
\* brought by one answer, and a request to leave names the seat whose token the tab had.
THEOREM CrewInvariance == CrewSpec => []CrewInv
<1>1. CrewInv /\ [CrewNext]_crewVars => CrewInv' BY CrewSteps DEF Right
<1> QED BY <1>1, CrewStart, PTL DEF CrewSpec

\* No invitation is put before the player twice: loadFriends shows one of those the page has
\* not seen, and with it has seen them all.
THEOREM InvitationsAreShownOnce == CrewSpec => InviteIsShownOnce
<1>1. ASSUME CrewInv, [CrewNext]_crewVars
      PROVE  [page'.banner \notin {page.banner, None} => page'.banner \notin page.told]_crewVars
  BY <1>1, CrewSteps DEF Right, BannerStep
<1> QED BY <1>1, CrewInvariance, PTL DEF CrewSpec, InviteIsShownOnce

\* The token of a seat that still waits is not forgotten, unless the request to leave it was
\* lost or the tab has two seats at that table: quickMatch gives up the seat it held, and the
\* leave buttons forget a table once the server let go of its seat.
THEOREM SeatsAreGivenUpFirst == CrewSpec => SeatIsGivenUpFirst
<1>1. ASSUME CrewInv, [CrewNext]_crewVars
      PROVE  [SeatStep]_crewVars
  BY <1>1, CrewSteps DEF Right
<1> QED BY <1>1, CrewInvariance, PTL DEF CrewSpec, SeatIsGivenUpFirst, SeatStep

=============================================================================
