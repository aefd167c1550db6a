------------------------------ MODULE Registry ------------------------------
(***************************************************************************)
(* The registry of tables (beelot-server, tables/registry.rs, codes.rs and *)
(* matchmaking.rs): two concurrent maps, tables by id and tables by        *)
(* invitation code, that no lock holds together.  Creating, joining,       *)
(* evicting and removing read and write them one after the other, so each  *)
(* worker here goes through those reads and writes one step at a time;     *)
(* quick matches run one at a time, under a lock of their own.             *)
(*                                                                         *)
(* Of a table only what the registry reads is kept: its kind, its code,    *)
(* how many sit at it, whether it is still waiting for players, and        *)
(* whether it has been idle for the whole expiry.  A `usize` is counted    *)
(* modulo Width.  One variant is modelled: tables of another never meet a  *)
(* quick match of this one.                                                *)
(***************************************************************************)
EXTENDS Integers, FiniteSets

CONSTANTS
  Ids,        \* the tables that may be made: the bound on a behaviour
  InviteCodes, NoCode,
  Workers,    \* the threads at work at once
  NoWorker,
  NoId,
  Places,     \* the seats of a table: 4 in the program
  MaxLocal, MaxOnline,
  Width       \* the values of a machine word

ASSUME RegistryAssumption ==
  /\ NoId \notin Ids /\ NoWorker \notin Workers /\ NoCode \notin InviteCodes
  /\ IsFiniteSet(Ids)
  /\ Places \in Nat /\ Places >= 2
  /\ MaxLocal \in Nat /\ MaxOnline \in Nat
  /\ Width \in Nat /\ Width > Cardinality(Ids)

VARIABLES
  tables,      \* the tables in the registry
  codes,       \* the table each code leads to
  table,       \* the tables made, those in the registry and those removed
  job,         \* what each worker is doing
  matchmaking  \* the worker that holds the lock of the quick matches

vars == <<tables, codes, table, job, matchmaking>>

Kind == {"local", "private", "public"}
NotMade == [kind |-> "none", code |-> NoCode, seated |-> 0,
            waiting |-> FALSE, idle |-> FALSE]

\* What a worker does next, and what it holds from the steps before: the kind of the
\* table it is creating, the local tables it has counted, whether it has evicted, the
\* tables it is to remove, the one it looked up, the open tables it may still try.
Step == {"rest", "counting", "measuring", "evicting", "building", "coding", "inserting",
         "removing", "forgetting", "finding", "seating", "matching"}
AtRest == [at |-> "rest", kind |-> "none", local |-> 0, evicted |-> FALSE,
           doomed |-> {}, id |-> NoId, open |-> {}]

MadeOf(kind) == {id \in Ids : table[id].kind = kind}
InRegistry(kind) == tables \cap MadeOf(kind)

Go(w, step) == job' = [job EXCEPT ![w].at = step]
Rest(w) == job' = [job EXCEPT ![w] = AtRest]

Release(w) == matchmaking' = IF matchmaking = w THEN NoWorker ELSE matchmaking

-----------------------------------------------------------------------------
(* Removing tables *)

\* remove, first map: only one worker gets the table, and goes on to its code.
RemovesTable(w) ==
  /\ job[w].at = "removing"
  /\ \E id \in job[w].doomed :
       /\ tables' = tables \ {id}
       /\ job' = IF id \in tables /\ table[id].code # NoCode
                 THEN [job EXCEPT ![w].doomed = @ \ {id}, ![w].at = "forgetting", ![w].id = id]
                 ELSE [job EXCEPT ![w].doomed = @ \ {id}]
  /\ UNCHANGED <<codes, table, matchmaking>>

CodeStays(id) == UNCHANGED codes
CodeGoes(id) == codes' = [codes EXCEPT ![table[id].code] = NoId]

\* remove, second map.
ForgetsCode(w) ==
  /\ job[w].at = "forgetting"
  /\ CodeGoes(job[w].id)
  /\ job' = [job EXCEPT ![w].at = "removing", ![w].id = NoId]
  /\ UNCHANGED <<tables, table, matchmaking>>

\* All are removed: a creation that made room counts again.
HasRemoved(w) ==
  /\ job[w].at = "removing" /\ job[w].doomed = {}
  /\ IF job[w].kind = "none" THEN Rest(w) ELSE Go(w, "counting")
  /\ UNCHANGED <<tables, codes, table, matchmaking>>

Idle == {id \in tables : table[id].idle}

\* evict_idle collects the idle tables, and removes them without looking again.
Evicts(w) ==
  /\ job[w].at = "evicting"
  /\ job' = [job EXCEPT ![w].at = "removing", ![w].doomed = Idle]
  /\ UNCHANGED <<tables, codes, table, matchmaking>>

\* The eviction job, every minute.
EvictionJob(w) ==
  /\ job[w].at = "rest"
  /\ Go(w, "evicting")
  /\ UNCHANGED <<tables, codes, table, matchmaking>>

-----------------------------------------------------------------------------
(* Creating a table *)

Creates(w, kind) ==
  /\ job[w].at = "rest" /\ kind # "public"
  /\ job' = [job EXCEPT ![w].at = "counting", ![w].kind = kind]
  /\ UNCHANGED <<tables, codes, table, matchmaking>>

\* counts, first read: the local tables.
Counts(w) ==
  /\ job[w].at = "counting"
  /\ job' = [job EXCEPT ![w].at = "measuring",
                        ![w].local = Cardinality(InRegistry("local"))]
  /\ UNCHANGED <<tables, codes, table, matchmaking>>

\* counts, second read: the online tables are all the tables but those local ones.
OnlineCounted(w) == (Cardinality(tables) - job[w].local) % Width

Full(w) == IF job[w].kind = "local" THEN job[w].local >= MaxLocal
                                    ELSE OnlineCounted(w) >= MaxOnline

\* ensure_capacity evicts idle tables once before it refuses.
Measures(w) ==
  /\ job[w].at = "measuring"
  /\ \/ /\ ~Full(w)
        /\ job' = [job EXCEPT ![w].at = "building", ![w].local = 0]
        /\ UNCHANGED matchmaking
     \/ /\ Full(w) /\ ~job[w].evicted
        /\ job' = [job EXCEPT ![w].at = "evicting", ![w].evicted = TRUE, ![w].local = 0]
        /\ UNCHANGED matchmaking
     \/ Full(w) /\ job[w].evicted /\ Rest(w) /\ Release(w)
  /\ UNCHANGED <<tables, codes, table>>

\* The table is made, with its first player; a private one with a code no table has.
Builds(w, id) ==
  LET kind == job[w].kind IN
  /\ job[w].at = "building" /\ table[id] = NotMade
  /\ \E code \in IF kind = "private" THEN {c \in InviteCodes : codes[c] = NoId} ELSE {NoCode} :
       table' = [table EXCEPT ![id] = [kind |-> kind, code |-> code, seated |-> 1,
                                       waiting |-> kind # "local", idle |-> FALSE]]
  /\ job' = [job EXCEPT ![w].id = id,
                        ![w].at = IF kind = "private" THEN "coding" ELSE "inserting"]
  /\ UNCHANGED <<tables, codes, matchmaking>>

\* insert, first map.
InsertsCode(w) ==
  /\ job[w].at = "coding"
  /\ codes' = [codes EXCEPT ![table[job[w].id].code] = job[w].id]
  /\ Go(w, "inserting")
  /\ UNCHANGED <<tables, table, matchmaking>>

\* insert, second map.  A quick match ends here.
InsertsTable(w) ==
  /\ job[w].at = "inserting"
  /\ tables' = tables \cup {job[w].id}
  /\ Rest(w) /\ Release(w)
  /\ UNCHANGED <<codes, table>>

-----------------------------------------------------------------------------
(* Sitting down *)

\* join, first map.
LooksUp(w, code) ==
  /\ job[w].at = "rest" /\ codes[code] # NoId
  /\ job' = [job EXCEPT ![w].at = "finding", ![w].id = codes[code]]
  /\ UNCHANGED <<tables, codes, table, matchmaking>>

\* After a refusal a quick match tries the next table, a join is over.
GivesUp(w) == IF matchmaking = w THEN job' = [job EXCEPT ![w].at = "matching", ![w].id = NoId]
                               ELSE Rest(w)

\* join and join_public, second map.
Finds(w) ==
  /\ job[w].at = "finding"
  /\ IF job[w].id \in tables THEN Go(w, "seating") ELSE GivesUp(w)
  /\ UNCHANGED <<tables, codes, table, matchmaking>>

MaySitAlone(t) == t.waiting /\ t.seated < Places
MaySit(t) == t.waiting /\ t.seated \in 1..(Places - 1)

\* seat, under the lock of a table that may have been removed meanwhile.
Sits(w) ==
  LET id == job[w].id
      t == table[id]
  IN
  /\ job[w].at = "seating"
  /\ IF MaySit(t)
     THEN /\ table' = [table EXCEPT ![id].seated = @ + 1, ![id].idle = FALSE,
                         ![id].waiting = ~(t.kind = "public" /\ t.seated = Places - 1)]
          /\ Rest(w) /\ Release(w)
     ELSE GivesUp(w) /\ UNCHANGED <<table, matchmaking>>
  /\ UNCHANGED <<tables, codes>>

LockIgnored(w) == TRUE
LockFree(w) == matchmaking = NoWorker

OpenTables == {id \in InRegistry("public") : table[id].waiting /\ table[id].seated < Places}

\* quick_match takes its lock and lists the open tables.
QuickMatches(w) ==
  /\ job[w].at = "rest" /\ LockFree(w)
  /\ matchmaking' = w
  /\ job' = [job EXCEPT ![w].at = "matching",
                        ![w].open = {[id |-> id, seated |-> table[id].seated] :
                                     id \in OpenTables}]
  /\ UNCHANGED <<tables, codes, table>>

\* The fullest comes first; when none will do, a table is opened.
TriesNext(w) ==
  /\ job[w].at = "matching"
  /\ \/ /\ job[w].open = {}
        /\ job' = [job EXCEPT ![w].at = "counting", ![w].kind = "public"]
     \/ \E o \in job[w].open :
          /\ \A other \in job[w].open : other.seated <= o.seated
          /\ job' = [job EXCEPT ![w].at = "finding", ![w].id = o.id, ![w].open = @ \ {o}]
  /\ UNCHANGED <<tables, codes, table, matchmaking>>

-----------------------------------------------------------------------------
(* What happens at the tables *)

\* A player leaves; the worker goes on to remove a table left empty.  The device of a
\* local table leaves it whole.
Leaves(w, id) ==
  LET left == IF table[id].kind = "local" THEN 0 ELSE table[id].seated - 1 IN
  /\ job[w].at = "rest"
  /\ id \in tables /\ table[id].seated > 0
  /\ table[id].waiting \/ table[id].kind = "local"
  /\ table' = [table EXCEPT ![id].seated = left, ![id].idle = FALSE]
  /\ IF left = 0
     THEN job' = [job EXCEPT ![w].at = "removing", ![w].doomed = {id}]
     ELSE UNCHANGED job
  /\ UNCHANGED <<tables, codes, matchmaking>>

\* The owner starts, or bots fill the table.
Starts(id) ==
  /\ id \in tables /\ table[id].waiting /\ table[id].seated > 0
  /\ table' = [table EXCEPT ![id].waiting = FALSE]
  /\ UNCHANGED <<tables, codes, job, matchmaking>>

\* touch: a player uses the table again.
IsUsed(id) ==
  /\ id \in tables /\ table[id].idle
  /\ table' = [table EXCEPT ![id].idle = FALSE]
  /\ UNCHANGED <<tables, codes, job, matchmaking>>

\* Nobody has used the table for the idle expiry.
GoesIdle(id) ==
  /\ id \in tables /\ ~table[id].idle
  /\ table' = [table EXCEPT ![id].idle = TRUE]
  /\ UNCHANGED <<tables, codes, job, matchmaking>>

-----------------------------------------------------------------------------
(* The specification *)

Init ==
  /\ tables = {}
  /\ codes = [c \in InviteCodes |-> NoId]
  /\ table = [id \in Ids |-> NotMade]
  /\ job = [w \in Workers |-> AtRest]
  /\ matchmaking = NoWorker

\* The steps a worker at work goes on with.
Continues(w) ==
  \/ RemovesTable(w) \/ ForgetsCode(w) \/ HasRemoved(w) \/ Evicts(w)
  \/ Counts(w) \/ Measures(w) \/ \E id \in Ids : Builds(w, id)
  \/ InsertsCode(w) \/ InsertsTable(w)
  \/ Finds(w) \/ Sits(w) \/ TriesNext(w)

Begins(w) ==
  \/ \E kind \in Kind : Creates(w, kind)
  \/ EvictionJob(w)
  \/ \E code \in InviteCodes : LooksUp(w, code)
  \/ QuickMatches(w)
  \/ \E id \in Ids : Leaves(w, id)

Next ==
  \/ \E w \in Workers : Continues(w) \/ Begins(w)
  \/ \E id \in Ids : Starts(id) \/ IsUsed(id) \/ GoesIdle(id)

Spec == Init /\ [][Next]_vars

\* A worker that has begun goes on: nothing in the registry waits for anything but a lock.
FairSpec == Spec /\ \A w \in Workers : WF_vars(Continues(w))

-----------------------------------------------------------------------------
(* What the registry promises *)

TypeOK ==
  /\ tables \subseteq Ids
  /\ codes \in [InviteCodes -> Ids \cup {NoId}]
  /\ table \in [Ids -> [kind : Kind \cup {"none"}, code : InviteCodes \cup {NoCode},
                        seated : 0..Places, waiting : BOOLEAN, idle : BOOLEAN]]
  /\ job \in [Workers -> [at : Step, kind : Kind \cup {"none"}, local : Nat,
                          evicted : BOOLEAN, doomed : SUBSET Ids, id : Ids \cup {NoId},
                          open : SUBSET [id : Ids, seated : 0..Places]]]
  /\ matchmaking \in Workers \cup {NoWorker}

At(step) == {job[w].id : w \in {v \in Workers : job[v].at = step}}

\* No two tables made at the same time draw the same of the 32^6 codes.
DrawsDiffer ==
  \A a, b \in Ids :
    a # b /\ table[a].code = table[b].code /\ table[a].code # NoCode =>
      \E t \in {a, b} : t \notin tables \cup At("coding") \cup At("inserting")

\* While no code is drawn twice at once, a private table is joined with its code, and
\* the codes that lead nowhere are those of a table that is just being inserted or
\* removed: a code is never lost nor left behind, whoever else creates and removes.
CodesLeadToTables ==
  /\ \A id \in InRegistry("private") : codes[table[id].code] = id
  /\ \A c \in InviteCodes :
       codes[c] # NoId =>
         /\ table[codes[c]].code = c
         /\ codes[c] \in tables \cup At("inserting") \cup At("forgetting")

\* Quick matches fill one table before they open the next: players who come at the same
\* time meet, however many of them the server is serving.
OneOpenTable ==
  Cardinality({id \in OpenTables : table[id].seated > 0}) <= 1

\* A table everyone has left goes from both maps in the end, frees its room and stays away:
\* nobody sits down at it, though they looked it up before it was left.
EmptyTablesGo ==
  \A id \in Ids :
    (id \in tables /\ table[id].seated = 0)
      ~> [](id \notin tables /\ table[id].seated = 0 /\ \A c \in InviteCodes : codes[c] # id)

=============================================================================
