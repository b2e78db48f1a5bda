----------------------------- MODULE MenuBuilds -----------------------------
(* The cache of compiled menus.  A request reads its view, then the version  *)
(* of the menu, and is served from memory, else from the build kept in the   *)
(* database, else it compiles: the version again, the tables of the bank one *)
(* query at a time, the entries, and it keeps the build in both places.      *)
(* Edits commit between any two of these reads.                              *)
(*                                                                           *)
(* A table is a stamp that every edit of it raises; a build is what the      *)
(* requests read: the version, the stamps, and the stamp of the view's rules.*)
EXTENDS Integers, FiniteSets, Sequences

CONSTANTS
    Requests,       \* requests for the view
    Tables,         \* the tables a build reads, in the order it reads them
    MaxCommits,     \* bound: edits of the tables and of the view
    MaxRestarts,    \* bound: restarts of main
    Absent          \* no build

ASSUME BoundsAssumption == MaxCommits \in Nat /\ MaxRestarts \in Nat

ASSUME TablesAssumption == Tables \in Seq(STRING)

VARIABLES
    stamp,      \* the state of every table, and of the view's "rules"
    version,    \* the location's menu version
    commits,    \* edits committed so far
    restarts,   \* restarts so far
    mem,        \* the build in memory
    stored,     \* the build in the database
    pc,         \* where every request is
    read,       \* what it has read: the rules, the version, the tables
    since,      \* the tables as they were when it began
    served      \* the build it was served

buildVars == <<stamp, version, commits, restarts, mem, stored, pc, read, since, served>>

TableSet == {Tables[n] : n \in DOMAIN Tables}

CurrentFormat == 2

BuildsInit ==
    /\ stamp = [t \in TableSet \cup {"rules"} |-> 0]
    /\ version = 1 /\ commits = 0 /\ restarts = 0
    /\ mem = Absent
    /\ stored \in {Absent, [version |-> 1, format |-> 1, tables |-> [t \in TableSet |-> 0], rules |-> 0]}
    /\ pc = [r \in Requests |-> "start"]
    /\ read = [r \in Requests |-> [version |-> 0, tables |-> <<>>, rules |-> 0]]
    /\ since = [r \in Requests |-> Absent]
    /\ served = [r \in Requests |-> Absent]

(* An edit of a table or of the view: its row and the version, in one        *)
(* transaction (the trigger).                                                *)
Change(t) ==
    /\ commits < MaxCommits /\ commits' = commits + 1
    /\ stamp' = [stamp EXCEPT ![t] = @ + 1]
    /\ version' = version + 1
    /\ UNCHANGED <<restarts, mem, stored, pc, read, since, served>>

Goto(r, at) == pc' = [pc EXCEPT ![r] = at]

Serve(r, b) == served' = [served EXCEPT ![r] = b] /\ Goto(r, "done")

(* The handler looks up the view before it asks for its build.               *)
ReadView(r) ==
    /\ pc[r] = "start" /\ Goto(r, "version")
    /\ read' = [read EXCEPT ![r].rules = stamp["rules"]]
    /\ since' = [since EXCEPT ![r] = stamp]
    /\ UNCHANGED <<stamp, version, commits, restarts, mem, stored, served>>

ReadVersion(r) ==
    /\ pc[r] = "version" /\ Goto(r, "mem")
    /\ read' = [read EXCEPT ![r].version = version]
    /\ UNCHANGED <<stamp, version, commits, restarts, mem, stored, since, served>>

Fresh(b, v) == b # Absent /\ b.version = v

CheckMem(r) ==
    /\ pc[r] = "mem"
    /\ IF Fresh(mem, read[r].version) THEN Serve(r, mem) ELSE Goto(r, "stored") /\ UNCHANGED served
    /\ UNCHANGED <<stamp, version, commits, restarts, mem, stored, read, since>>

(* A stored build of the current version and format is remembered and served.*)
CheckStored(r) ==
    /\ pc[r] = "stored"
    /\ IF Fresh(stored, read[r].version) /\ stored.format = CurrentFormat
       THEN mem' = stored /\ Serve(r, stored)
       ELSE Goto(r, "load") /\ UNCHANGED <<mem, served>>
    /\ UNCHANGED <<stamp, version, commits, restarts, stored, read, since>>

(* LoadBank reads the version first, then the tables in order; ListEntries   *)
(* is the last of them.                                                      *)
LoadVersion(r) ==
    /\ pc[r] = "load" /\ Goto(r, "tables")
    /\ read' = [read EXCEPT ![r].version = version, ![r].tables = <<>>]
    /\ UNCHANGED <<stamp, version, commits, restarts, mem, stored, since, served>>

(* Mutant: the version is read after the tables.                             *)
ReadAs_Late(r) == version

ReadAs(r) == read[r].version

LoadTable(r) ==
    /\ pc[r] = "tables" /\ Len(read[r].tables) < Len(Tables)
    /\ read' = [read EXCEPT ![r].tables = Append(@, stamp[Tables[Len(@) + 1]])]
    /\ UNCHANGED <<stamp, version, commits, restarts, mem, stored, pc, since, served>>

Compiled(r) ==
    [version |-> ReadAs(r), format |-> CurrentFormat, rules |-> read[r].rules,
     tables |-> [t \in TableSet |-> read[r].tables[CHOOSE n \in DOMAIN Tables : Tables[n] = t]]]

(* The compiled build is saved; saving may fail, which is only logged.       *)
SaveBuild(r) ==
    /\ pc[r] = "tables" /\ Len(read[r].tables) = Len(Tables) /\ Goto(r, "remember")
    /\ stored' \in {stored, Compiled(r)}
    /\ served' = [served EXCEPT ![r] = Compiled(r)]
    /\ UNCHANGED <<stamp, version, commits, restarts, mem, read, since>>

Remember(r) ==
    /\ pc[r] = "remember" /\ Goto(r, "done")
    /\ mem' = served[r]
    /\ UNCHANGED <<stamp, version, commits, restarts, stored, read, since, served>>

(* A request may also fail at any read, which leaves nothing behind.         *)
Finish(r) ==
    /\ pc[r] # "start" /\ Goto(r, "start")
    /\ served' = [served EXCEPT ![r] = Absent] /\ since' = [since EXCEPT ![r] = Absent]
    /\ read' = [read EXCEPT ![r] = [version |-> 0, tables |-> <<>>, rules |-> 0]]
    /\ UNCHANGED <<stamp, version, commits, restarts, mem, stored>>

BuildStep(r) ==
    \/ ReadView(r) \/ ReadVersion(r) \/ CheckMem(r) \/ CheckStored(r) \/ LoadVersion(r)
    \/ LoadTable(r) \/ SaveBuild(r) \/ Remember(r) \/ Finish(r)

(* Main restarts: memory is empty and its requests are gone.                 *)
MainRestarts ==
    /\ restarts < MaxRestarts /\ restarts' = restarts + 1
    /\ mem' = Absent
    /\ pc' = [r \in Requests |-> "start"]
    /\ read' = [r \in Requests |-> [version |-> 0, tables |-> <<>>, rules |-> 0]]
    /\ since' = [r \in Requests |-> Absent] /\ served' = [r \in Requests |-> Absent]
    /\ UNCHANGED <<stamp, version, commits, stored>>

BuildsNext ==
    \/ \E t \in DOMAIN stamp : Change(t)
    \/ \E r \in Requests : BuildStep(r)
    \/ MainRestarts

BuildsSpec == BuildsInit /\ [][BuildsNext]_buildVars

----------------------------------------------------------------------------
(* Properties.                                                               *)

(* Whoever asks after an edit sees it: a build is never served with a table  *)
(* older than the table was when the request began.                          *)
SeesEarlierEdits == \A r \in Requests : pc[r] = "done" => \A t \in TableSet : served[r].tables[t] >= since[r][t]

=============================================================================
