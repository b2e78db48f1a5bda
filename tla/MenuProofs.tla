------------------------------ MODULE MenuProofs ------------------------------
(* The menu.  Whoever asks for it after an edit sees the edit, for any       *)
(* number of requests, tables, edits and restarts (MenuBuilds).  Any number  *)
(* of edits and imports, failed and run again, keep the rows of the menu     *)
(* fitting together; so a kitchen prints on its own printers, and nothing a  *)
(* store can sell is missing from a view that does not hide it (MenuBank).   *)
EXTENDS MenuBuilds, MenuBank, FiniteSetTheorems, NaturalsInduction, SequenceTheorems, WellFoundedInduction, TLAPS

----------------------------------------------------------------------------
(* MenuBuilds.                                                               *)

Stamped == TableSet \cup {"rules"}
Builds == [version : Nat, format : Nat, tables : [TableSet -> Nat], rules : Nat]
Places == {"start", "version", "mem", "stored", "load", "tables", "remember", "done"}

(* The requests that have read a version to look for a build of.             *)
Looking(r) == pc[r] \in {"mem", "stored"}

BuildsTypes ==
    /\ stamp \in [Stamped -> Nat]
    /\ version \in Nat
    /\ mem \in Builds \cup {Absent}
    /\ stored \in Builds \cup {Absent}
    /\ pc \in [Requests -> Places]
    /\ read \in [Requests -> [version : Nat, tables : Seq(Nat), rules : Nat]]
    /\ since \in [Requests -> [Stamped -> Nat] \cup {Absent}]
    /\ served \in [Requests -> Builds \cup {Absent}]
    /\ \A r \in Requests : pc[r] # "start" => since[r] \in [Stamped -> Nat]
    /\ \A r \in Requests : pc[r] = "remember" => served[r] \in Builds

(* Tables only move on.                                                      *)
BeganEarlier ==
    \A r \in Requests : pc[r] # "start" => \A t \in Stamped : since[r][t] <= stamp[t]

(* Table t was at x, or is, when it was read into a build of version v: it   *)
(* is as new as the table was at version v, so a request that finds v still  *)
(* to be the version, or found it so, misses nothing by taking x.            *)
NewEnough(v, t, x) ==
    /\ v = version => x >= stamp[t]
    /\ \A r \in Requests : Looking(r) /\ v >= read[r].version => x >= since[r][t]

GoodBuild(b) ==
    /\ b.version <= version
    /\ \A t \in TableSet : NewEnough(b.version, t, b.tables[t])

(* The builds a request may be served or may keep.                           *)
KeptBuildsAreGood ==
    /\ mem # Absent => GoodBuild(mem)
    /\ stored # Absent => GoodBuild(stored)
    /\ \A r \in Requests : pc[r] = "remember" => GoodBuild(served[r])

(* A build in the making: the version was read before the tables.            *)
GoodLoad(r) ==
    /\ read[r].version <= version
    /\ Len(read[r].tables) <= Len(Tables)
    /\ \A n \in 1..Len(read[r].tables) :
         /\ NewEnough(read[r].version, Tables[n], read[r].tables[n])
         /\ read[r].tables[n] >= since[r][Tables[n]]

LoadsAreGood == \A r \in Requests : pc[r] = "tables" => GoodLoad(r)

ServedIsNew ==
    \A r \in Requests : pc[r] \in {"remember", "done"} =>
        /\ served[r] \in Builds
        /\ \A t \in TableSet : served[r].tables[t] >= since[r][t]

(* The inductive invariant.  SeesEarlierEdits alone says nothing of the      *)
(* builds that are kept, and a kept build says nothing of a request unless   *)
(* its version does.                                                         *)
BuildsInv ==
    /\ BuildsTypes
    /\ BeganEarlier
    /\ KeptBuildsAreGood
    /\ LoadsAreGood
    /\ ServedIsNew

-----------------------------------------------------------------------------
(* How a step may change what a build is measured by: the tables change only *)
(* with the version, and a request that is looking was looking for the same  *)
(* version, or has just read the current one.                                *)
Measure ==
    /\ version <= version'
    /\ version' = version => stamp' = stamp
    /\ \A r \in Requests : Looking(r)' =>
         /\ pc[r] # "start" /\ since'[r] = since[r]
         /\ \/ Looking(r) /\ read'[r].version = read[r].version
            \/ read'[r].version = version /\ version' = version

(* Every step is such a change.                                            *)
LEMMA MeasureStep ==
    ASSUME BuildsInv, [BuildsNext]_buildVars
    PROVE  Measure
<1>0. BuildsTypes BY DEF BuildsInv
<1>1. CASE UNCHANGED buildVars
  BY <1>0, <1>1 DEF buildVars, Measure, Looking, BuildsTypes
<1>2. ASSUME NEW t \in DOMAIN stamp, Change(t) PROVE Measure
  BY <1>0, <1>2 DEF Change, Measure, Looking, BuildsTypes
<1>3. ASSUME NEW r \in Requests, ReadView(r) PROVE Measure
  <2>1. \A q \in Requests : Looking(q)' => q # r BY <1>0, <1>3 DEF ReadView, Goto, Looking, BuildsTypes
  <2> QED BY <1>0, <1>3, <2>1 DEF ReadView, Goto, Measure, Looking, BuildsTypes
<1>4. ASSUME NEW r \in Requests, ReadVersion(r) PROVE Measure
  BY <1>0, <1>4 DEF ReadVersion, Goto, Measure, Looking, BuildsTypes
<1>5. ASSUME NEW r \in Requests, CheckMem(r) \/ CheckStored(r) PROVE Measure
  BY <1>0, <1>5 DEF CheckMem, CheckStored, Serve, Goto, Measure, Looking, BuildsTypes
<1>6. ASSUME NEW r \in Requests, LoadVersion(r) PROVE Measure
  <2>1. \A q \in Requests : Looking(q)' => q # r BY <1>0, <1>6 DEF LoadVersion, Goto, Looking, BuildsTypes
  <2> QED BY <1>0, <1>6, <2>1 DEF LoadVersion, Goto, Measure, Looking, BuildsTypes
<1>7. ASSUME NEW r \in Requests, LoadTable(r) PROVE Measure
  <2>1. \A q \in Requests : Looking(q)' => q # r BY <1>0, <1>7 DEF LoadTable, Looking, BuildsTypes
  <2> QED BY <1>0, <1>7, <2>1 DEF LoadTable, Measure, Looking, BuildsTypes
<1>8. ASSUME NEW r \in Requests, SaveBuild(r) \/ Remember(r) PROVE Measure
  BY <1>0, <1>8 DEF SaveBuild, Remember, Goto, Measure, Looking, BuildsTypes
<1>9. ASSUME NEW r \in Requests, Finish(r) PROVE Measure
  <2>1. \A q \in Requests : Looking(q)' => q # r BY <1>0, <1>9 DEF Finish, Goto, Looking, BuildsTypes
  <2> QED BY <1>0, <1>9, <2>1 DEF Finish, Goto, Measure, Looking, BuildsTypes
<1>10. ASSUME MainRestarts PROVE Measure
  BY <1>0, <1>10 DEF MainRestarts, Measure, Looking, BuildsTypes
<1> QED BY <1>1, <1>2, <1>3, <1>4, <1>5, <1>6, <1>7, <1>8, <1>9, <1>10 DEF BuildsNext, BuildStep

(* NewEnough and GoodBuild of a given build in the next state.               *)
NewEnoughNext(v, t, x) ==
    /\ v = version' => x >= stamp'[t]
    /\ \A r \in Requests : Looking(r)' /\ v >= read'[r].version => x >= since'[r][t]

GoodBuildNext(b) ==
    /\ b.version <= version'
    /\ \A t \in TableSet : NewEnoughNext(b.version, t, b.tables[t])

(* What was new enough for its version stays so.                             *)
LEMMA NewEnoughStays ==
    ASSUME BuildsInv, Measure, version' \in Nat,
           NEW v \in Nat, v <= version, NEW t \in TableSet, NEW x \in Nat, NewEnough(v, t, x)
    PROVE  NewEnoughNext(v, t, x)
<1>0. BuildsTypes /\ BeganEarlier BY DEF BuildsInv
<1>1. t \in Stamped BY DEF Stamped
<1>2. v = version' => x >= stamp'[t]
  BY <1>0 DEF Measure, NewEnough, BuildsTypes
<1>3. ASSUME NEW r \in Requests, Looking(r)', v >= read'[r].version PROVE x >= since'[r][t]
  <2>1. CASE Looking(r) /\ read'[r].version = read[r].version
    BY <1>3, <2>1 DEF Measure, NewEnough
  <2>2. CASE read'[r].version = version /\ version' = version
    <3>1. v = version BY <1>0, <1>3, <2>2 DEF BuildsTypes
    <3>2. x >= stamp[t] BY <3>1 DEF NewEnough
    <3>3. since'[r] = since[r] /\ since[r] \in [Stamped -> Nat] /\ since[r][t] <= stamp[t]
      BY <1>0, <1>1, <1>3 DEF Measure, BuildsTypes, BeganEarlier
    <3> QED BY <1>0, <1>1, <3>2, <3>3 DEF BuildsTypes
  <2> QED BY <1>3, <2>1, <2>2 DEF Measure
<1> QED BY <1>2, <1>3 DEF NewEnoughNext

(* A good build stays good under such a change.                            *)
LEMMA GoodBuildStays ==
    ASSUME BuildsInv, Measure, version' \in Nat, NEW b \in Builds, GoodBuild(b)
    PROVE  GoodBuildNext(b)
<1>1. b.version \in Nat /\ b.version <= version BY DEF Builds, GoodBuild
<1>2. \A t \in TableSet : b.tables[t] \in Nat /\ NewEnough(b.version, t, b.tables[t])
  BY DEF Builds, GoodBuild
<1>3. \A t \in TableSet : NewEnoughNext(b.version, t, b.tables[t]) BY <1>1, <1>2, NewEnoughStays
<1>4. b.version <= version' BY <1>1 DEF Measure, BuildsInv, BuildsTypes
<1> QED BY <1>3, <1>4 DEF GoodBuildNext

(* A load goes on being good while its request reads nothing.                *)
LEMMA GoodLoadStays ==
    ASSUME BuildsInv, Measure, version' \in Nat, NEW r \in Requests, pc[r] = "tables",
           read'[r] = read[r], since'[r] = since[r]
    PROVE  GoodLoad(r)'
<1>0. BuildsTypes /\ GoodLoad(r) BY DEF BuildsInv, LoadsAreGood
<1>1. read[r] \in [version : Nat, tables : Seq(Nat), rules : Nat] BY <1>0 DEF BuildsTypes
<1>2. \A n \in 1..Len(read[r].tables) : Tables[n] \in TableSet /\ read[r].tables[n] \in Nat
  <2>1. Len(read[r].tables) <= Len(Tables) BY <1>0 DEF GoodLoad
  <2>2. \A n \in 1..Len(Tables) : Tables[n] \in TableSet BY TablesAssumption DEF TableSet
  <2> QED BY <1>1, <2>1, <2>2, TablesAssumption
<1>3. \A n \in 1..Len(read[r].tables) :
        NewEnoughNext(read[r].version, Tables[n], read[r].tables[n])
  BY <1>0, <1>1, <1>2, NewEnoughStays DEF GoodLoad
<1>4. read[r].version <= version' BY <1>0, <1>1 DEF GoodLoad, Measure, BuildsTypes
<1> QED BY <1>0, <1>3, <1>4 DEF GoodLoad, NewEnough, NewEnoughNext

(* A compiled build is what its load has read.                               *)
LEMMA CompiledIsGood ==
    ASSUME BuildsInv, NEW r \in Requests, pc[r] = "tables", Len(read[r].tables) = Len(Tables)
    PROVE  /\ Compiled(r) \in Builds
           /\ GoodBuild(Compiled(r))
           /\ \A t \in TableSet : Compiled(r).tables[t] >= since[r][t]
<1> DEFINE place(t) == CHOOSE n \in DOMAIN Tables : Tables[n] = t
<1>0. BuildsTypes /\ GoodLoad(r) BY DEF BuildsInv, LoadsAreGood
<1>1. read[r] \in [version : Nat, tables : Seq(Nat), rules : Nat] BY <1>0 DEF BuildsTypes
<1>2. ASSUME NEW t \in TableSet
      PROVE  place(t) \in 1..Len(read[r].tables) /\ Tables[place(t)] = t
  <2>1. place(t) \in DOMAIN Tables /\ Tables[place(t)] = t BY DEF TableSet
  <2>2. DOMAIN Tables = 1..Len(Tables) BY TablesAssumption
  <2> QED BY <2>1, <2>2
<1>3. ASSUME NEW t \in TableSet
      PROVE  /\ read[r].tables[place(t)] \in Nat
             /\ NewEnough(read[r].version, t, read[r].tables[place(t)])
             /\ read[r].tables[place(t)] >= since[r][t]
  <2> HIDE DEF place
  <2>1. PICK n \in 1..Len(read[r].tables) : n = place(t) /\ Tables[n] = t BY <1>2
  <2>2. NewEnough(read[r].version, Tables[n], read[r].tables[n]) /\ read[r].tables[n] >= since[r][Tables[n]]
    BY <1>0 DEF GoodLoad
  <2>3. read[r].tables[n] \in Nat BY <1>1
  <2> QED BY <2>1, <2>2, <2>3
<1>4. /\ Compiled(r).version = read[r].version
      /\ Compiled(r).format = 2
      /\ Compiled(r).rules = read[r].rules
      /\ Compiled(r).tables = [t \in TableSet |-> read[r].tables[place(t)]]
      /\ Compiled(r) = [version |-> read[r].version, format |-> 2, rules |-> read[r].rules,
                        tables |-> [t \in TableSet |-> read[r].tables[place(t)]]]
  BY DEF Compiled, ReadAs, CurrentFormat
<1> HIDE DEF place
<1>5. Compiled(r) \in Builds BY <1>1, <1>3, <1>4 DEF Builds
<1>6. GoodBuild(Compiled(r)) BY <1>0, <1>3, <1>4 DEF GoodBuild, GoodLoad
<1>7. \A t \in TableSet : Compiled(r).tables[t] >= since[r][t] BY <1>3, <1>4
<1> QED BY <1>5, <1>6, <1>7

(* One table more, read now.                                                 *)
LEMMA LoadTableReads ==
    ASSUME BuildsInv, NEW r \in Requests, LoadTable(r)
    PROVE  /\ read'[r] \in [version : Nat, tables : Seq(Nat), rules : Nat]
           /\ read'[r].version = read[r].version
           /\ Len(read'[r].tables) = Len(read[r].tables) + 1
           /\ Len(read'[r].tables) <= Len(Tables)
           /\ \A n \in 1..Len(read[r].tables) : read'[r].tables[n] = read[r].tables[n]
           /\ Tables[Len(read'[r].tables)] \in TableSet
           /\ read'[r].tables[Len(read'[r].tables)] = stamp[Tables[Len(read'[r].tables)]]
<1> DEFINE old == read[r].tables
           k == Len(old) + 1
           x == stamp[Tables[k]]
<1>0. BuildsTypes BY DEF BuildsInv
<1>1. read[r] \in [version : Nat, tables : Seq(Nat), rules : Nat] BY <1>0 DEF BuildsTypes
<1>2. old \in Seq(Nat) /\ Len(old) \in Nat BY <1>1
<1>3. k \in 1..Len(Tables) BY <1>2, TablesAssumption DEF LoadTable
<1>4. Tables[k] \in TableSet BY <1>3, TablesAssumption DEF TableSet
<1>5. x \in Nat BY <1>0, <1>4 DEF BuildsTypes, Stamped
<1>6. read'[r] = [version |-> read[r].version, tables |-> Append(old, x), rules |-> read[r].rules]
  BY <1>0, <1>1 DEF LoadTable, BuildsTypes
<1> HIDE DEF old, x
<1>7. /\ Append(old, x) \in Seq(Nat)
      /\ Len(Append(old, x)) = k
      /\ Append(old, x)[k] = x
      /\ \A n \in 1..Len(old) : Append(old, x)[n] = old[n]
  BY <1>2, <1>5
<1> DEFINE new == read'[r]
<1>8. new.version = read[r].version /\ new.tables = Append(old, x) /\ new.rules = read[r].rules BY <1>6
<1>9. new \in [version : Nat, tables : Seq(Nat), rules : Nat] BY <1>1, <1>6, <1>7
<1> HIDE DEF new
<1>10. Len(new.tables) = k /\ new.tables[k] = x /\ \A n \in 1..Len(old) : new.tables[n] = old[n] BY <1>7, <1>8
<1>11. k <= Len(Tables) BY <1>3
<1> QED BY <1>4, <1>8, <1>9, <1>10, <1>11 DEF new, old, x

-----------------------------------------------------------------------------
(* The builds main starts from are of the first version.                   *)
LEMMA BuildsInitInv == BuildsInit => BuildsInv
<1> SUFFICES ASSUME BuildsInit PROVE BuildsInv OBVIOUS
<1>1. BuildsTypes
  <2>1. stored \in Builds \cup {Absent} BY DEF BuildsInit, Builds
  <2>2. <<>> \in Seq(Nat) OBVIOUS
  <2>3. read \in [Requests -> [version : Nat, tables : Seq(Nat), rules : Nat]] BY <2>2 DEF BuildsInit
  <2> QED BY <2>1, <2>3 DEF BuildsInit, BuildsTypes, Stamped, Places
<1>2. \A r \in Requests : pc[r] = "start" BY DEF BuildsInit
<1>3. BeganEarlier /\ LoadsAreGood /\ ServedIsNew
  BY <1>2 DEF BeganEarlier, LoadsAreGood, ServedIsNew
<1>4. KeptBuildsAreGood
  <2>1. ASSUME stored # Absent PROVE GoodBuild(stored)
    <3>1. stored = [version |-> 1, format |-> 1, tables |-> [t \in TableSet |-> 0], rules |-> 0]
      BY <2>1 DEF BuildsInit
    <3>2. \A t \in TableSet : stamp[t] = 0 BY DEF BuildsInit
    <3> QED BY <1>2, <3>1, <3>2 DEF BuildsInit, GoodBuild, NewEnough, Looking
  <2> QED BY <1>2, <2>1 DEF BuildsInit, KeptBuildsAreGood
<1> QED BY <1>1, <1>3, <1>4 DEF BuildsInv

(* Every step keeps the types.                                             *)
LEMMA BuildsTypesStep ==
    ASSUME BuildsInv, [BuildsNext]_buildVars
    PROVE  BuildsTypes'
<1>0. BuildsTypes BY DEF BuildsInv
<1>1. CASE UNCHANGED buildVars BY <1>0, <1>1 DEF buildVars, BuildsTypes
<1>2. ASSUME NEW t \in DOMAIN stamp, Change(t) PROVE BuildsTypes'
  BY <1>0, <1>2 DEF Change, BuildsTypes
<1>3. ASSUME NEW r \in Requests, ReadView(r) PROVE BuildsTypes'
  <2>1. stamp["rules"] \in Nat BY <1>0 DEF BuildsTypes, Stamped
  <2>2. read'[r] = [version |-> read[r].version, tables |-> read[r].tables, rules |-> stamp["rules"]]
    BY <1>0, <1>3 DEF ReadView, BuildsTypes
  <2>3. read' \in [Requests -> [version : Nat, tables : Seq(Nat), rules : Nat]]
    <3>1. read'[r] \in [version : Nat, tables : Seq(Nat), rules : Nat] BY <1>0, <2>1, <2>2 DEF BuildsTypes
    <3> QED BY <1>0, <1>3, <3>1 DEF ReadView, BuildsTypes
  <2> QED BY <1>0, <1>3, <2>3 DEF ReadView, Goto, BuildsTypes, Places
<1>4. ASSUME NEW r \in Requests, ReadVersion(r) PROVE BuildsTypes'
  <2>1. read'[r] = [version |-> version, tables |-> read[r].tables, rules |-> read[r].rules]
    BY <1>0, <1>4 DEF ReadVersion, BuildsTypes
  <2>2. read' \in [Requests -> [version : Nat, tables : Seq(Nat), rules : Nat]]
    <3>1. read'[r] \in [version : Nat, tables : Seq(Nat), rules : Nat] BY <1>0, <2>1 DEF BuildsTypes
    <3> QED BY <1>0, <1>4, <3>1 DEF ReadVersion, BuildsTypes
  <2> QED BY <1>0, <1>4, <2>2 DEF ReadVersion, Goto, BuildsTypes, Places
<1>5. ASSUME NEW r \in Requests, CheckMem(r) PROVE BuildsTypes'
  BY <1>0, <1>5 DEF CheckMem, Serve, Goto, BuildsTypes, Places
<1>6. ASSUME NEW r \in Requests, CheckStored(r) PROVE BuildsTypes'
  BY <1>0, <1>6 DEF CheckStored, Serve, Goto, BuildsTypes, Places
<1>7. ASSUME NEW r \in Requests, LoadVersion(r) PROVE BuildsTypes'
  <2>1. read'[r] = [version |-> version, tables |-> <<>>, rules |-> read[r].rules]
    BY <1>0, <1>7 DEF LoadVersion, BuildsTypes
  <2>2. <<>> \in Seq(Nat) OBVIOUS
  <2>3. read' \in [Requests -> [version : Nat, tables : Seq(Nat), rules : Nat]]
    <3>1. read'[r] \in [version : Nat, tables : Seq(Nat), rules : Nat] BY <1>0, <2>1, <2>2 DEF BuildsTypes
    <3> QED BY <1>0, <1>7, <3>1 DEF LoadVersion, BuildsTypes
  <2> QED BY <1>0, <1>7, <2>3 DEF LoadVersion, Goto, BuildsTypes, Places
<1>8. ASSUME NEW r \in Requests, LoadTable(r) PROVE BuildsTypes'
  <2>1. read'[r] \in [version : Nat, tables : Seq(Nat), rules : Nat] BY <1>8, LoadTableReads
  <2>2. read' \in [Requests -> [version : Nat, tables : Seq(Nat), rules : Nat]]
    BY <1>0, <1>8, <2>1 DEF LoadTable, BuildsTypes
  <2> QED BY <1>0, <1>8, <2>2 DEF LoadTable, BuildsTypes
<1>9. ASSUME NEW r \in Requests, SaveBuild(r) PROVE BuildsTypes'
  <2>1. Compiled(r) \in Builds BY <1>9, CompiledIsGood DEF SaveBuild
  <2> QED BY <1>0, <1>9, <2>1 DEF SaveBuild, Goto, BuildsTypes, Places
<1>10. ASSUME NEW r \in Requests, Remember(r) PROVE BuildsTypes'
  BY <1>0, <1>10 DEF Remember, Goto, BuildsTypes, Places
<1>11. ASSUME NEW r \in Requests, Finish(r) PROVE BuildsTypes'
  <2>1. [version |-> 0, tables |-> <<>>, rules |-> 0] \in [version : Nat, tables : Seq(Nat), rules : Nat] OBVIOUS
  <2> QED BY <1>0, <1>11, <2>1 DEF Finish, Goto, BuildsTypes, Places
<1>12. ASSUME MainRestarts PROVE BuildsTypes'
  <2>1. [version |-> 0, tables |-> <<>>, rules |-> 0] \in [version : Nat, tables : Seq(Nat), rules : Nat] OBVIOUS
  <2> QED BY <1>0, <1>12, <2>1 DEF MainRestarts, BuildsTypes, Places
<1> QED BY <1>1, <1>2, <1>3, <1>4, <1>5, <1>6, <1>7, <1>8, <1>9, <1>10, <1>11, <1>12
        DEF BuildsNext, BuildStep

(* What each step does to one request's place, beginning and reading.        *)
LEMMA RequestMoves ==
    ASSUME BuildsInv, [BuildsNext]_buildVars, NEW r \in Requests
    PROVE  \/ pc'[r] = "start"
           \/ pc[r] = "start" /\ since'[r] = stamp /\ UNCHANGED stamp /\ pc'[r] = "version"
           \/ pc[r] # "start" /\ since'[r] = since[r]
<1>0. BuildsTypes BY DEF BuildsInv
<1>1. CASE UNCHANGED buildVars BY <1>1 DEF buildVars
<1>2. ASSUME NEW t \in DOMAIN stamp, Change(t) PROVE pc' = pc /\ since' = since BY <1>2 DEF Change
<1>3. ASSUME NEW q \in Requests, ReadView(q)
      PROVE  \/ pc'[r] = pc[r] /\ since'[r] = since[r]
             \/ pc[r] = "start" /\ since'[r] = stamp /\ UNCHANGED stamp /\ pc'[r] = "version"
  BY <1>0, <1>3 DEF ReadView, Goto, BuildsTypes
<1>4. ASSUME NEW q \in Requests,
             ReadVersion(q) \/ CheckMem(q) \/ CheckStored(q) \/ LoadVersion(q) \/ LoadTable(q) \/ SaveBuild(q) \/ Remember(q)
      PROVE  since' = since /\ (pc'[r] = pc[r] \/ pc[r] # "start")
  BY <1>0, <1>4 DEF ReadVersion, CheckMem, CheckStored, LoadVersion, LoadTable, SaveBuild, Remember,
                    Serve, Goto, BuildsTypes
<1>5. ASSUME NEW q \in Requests, Finish(q) PROVE pc'[r] = "start" \/ (pc'[r] = pc[r] /\ since'[r] = since[r])
  BY <1>0, <1>5 DEF Finish, Goto, BuildsTypes
<1>6. ASSUME MainRestarts PROVE pc'[r] = "start" BY <1>6 DEF MainRestarts
<1> QED BY <1>1, <1>2, <1>3, <1>4, <1>5, <1>6 DEF BuildsNext, BuildStep

(* Stamps only grow.                                                         *)
LEMMA StampsGrow ==
    ASSUME BuildsInv, [BuildsNext]_buildVars
    PROVE  \A t \in Stamped : stamp[t] \in Nat /\ stamp[t] <= stamp'[t]
<1>0. BuildsTypes BY DEF BuildsInv
<1>1. ASSUME NEW t \in DOMAIN stamp, Change(t) PROVE \A u \in Stamped : stamp[u] <= stamp'[u]
  BY <1>0, <1>1 DEF Change, BuildsTypes
<1>2. ASSUME NEW r \in Requests, BuildStep(r) PROVE UNCHANGED stamp
  BY <1>2 DEF BuildStep, ReadView, ReadVersion, CheckMem, CheckStored, LoadVersion, LoadTable,
              SaveBuild, Remember, Finish
<1>3. ASSUME MainRestarts \/ UNCHANGED buildVars PROVE UNCHANGED stamp BY <1>3 DEF MainRestarts, buildVars
<1>4. \A t \in Stamped : stamp[t] \in Nat BY <1>0 DEF BuildsTypes
<1> QED BY <1>1, <1>2, <1>3, <1>4 DEF BuildsNext

(* The stamps a request began with are not newer than the tables.          *)
LEMMA BeganEarlierStep ==
    ASSUME BuildsInv, [BuildsNext]_buildVars
    PROVE  BeganEarlier'
<1> SUFFICES ASSUME NEW r \in Requests, pc'[r] # "start", NEW t \in Stamped
             PROVE  since'[r][t] <= stamp'[t]
  BY DEF BeganEarlier
<1>0. BuildsTypes /\ BeganEarlier BY DEF BuildsInv
<1>1. stamp[t] \in Nat /\ stamp[t] <= stamp'[t] BY StampsGrow
<1>2. CASE since'[r] = stamp /\ UNCHANGED stamp BY <1>1, <1>2
<1>3. CASE pc[r] # "start" /\ since'[r] = since[r]
  <2>1. since[r][t] \in Nat /\ since[r][t] <= stamp[t] BY <1>0, <1>3 DEF BuildsTypes, BeganEarlier
  <2>2. stamp'[t] \in Nat BY BuildsTypesStep DEF BuildsTypes
  <2> QED BY <1>1, <1>3, <2>1, <2>2
<1> QED BY <1>2, <1>3, RequestMoves

(* Memory and the database keep good builds: an old one, or one compiled.    *)
LEMMA KeptStep ==
    ASSUME BuildsInv, [BuildsNext]_buildVars
    PROVE  KeptBuildsAreGood'
<1>0. BuildsTypes /\ KeptBuildsAreGood BY DEF BuildsInv
<1>1. Measure /\ version' \in Nat BY MeasureStep, BuildsTypesStep DEF BuildsTypes
<1>2. \A b \in Builds : GoodBuild(b) => GoodBuildNext(b) BY <1>1, GoodBuildStays
<1>3. mem # Absent => GoodBuildNext(mem) BY <1>0, <1>2 DEF KeptBuildsAreGood, BuildsTypes
<1>4. stored # Absent => GoodBuildNext(stored) BY <1>0, <1>2 DEF KeptBuildsAreGood, BuildsTypes
<1>5. \A r \in Requests : pc[r] = "remember" => GoodBuildNext(served[r])
  BY <1>0, <1>2 DEF KeptBuildsAreGood, BuildsTypes
<1>6. SUFFICES /\ mem' # Absent => GoodBuildNext(mem')
               /\ stored' # Absent => GoodBuildNext(stored')
               /\ \A r \in Requests : pc'[r] = "remember" => GoodBuildNext(served'[r])
  BY DEF KeptBuildsAreGood, GoodBuild, GoodBuildNext, NewEnough, NewEnoughNext
<1>7. CASE UNCHANGED buildVars BY <1>3, <1>4, <1>5, <1>7 DEF buildVars
<1>8. ASSUME NEW t \in DOMAIN stamp, Change(t) PROVE UNCHANGED <<mem, stored, pc, served>>
  BY <1>8 DEF Change
<1>9. ASSUME NEW r \in Requests, ReadView(r) \/ ReadVersion(r) \/ LoadVersion(r) \/ LoadTable(r)
      PROVE  UNCHANGED <<mem, stored, served>> /\ \A q \in Requests : pc'[q] = "remember" => pc[q] = "remember"
  BY <1>0, <1>9 DEF ReadView, ReadVersion, LoadVersion, LoadTable, Goto, BuildsTypes
<1>10. ASSUME NEW r \in Requests, CheckMem(r)
       PROVE  /\ UNCHANGED <<mem, stored>>
              /\ \A q \in Requests : pc'[q] = "remember" => pc[q] = "remember" /\ served'[q] = served[q]
  BY <1>0, <1>10 DEF CheckMem, Serve, Goto, BuildsTypes
<1>11. ASSUME NEW r \in Requests, CheckStored(r)
       PROVE  /\ mem' \in {mem, stored} /\ (mem' # mem => stored # Absent) /\ UNCHANGED stored
              /\ \A q \in Requests : pc'[q] = "remember" => pc[q] = "remember" /\ served'[q] = served[q]
  BY <1>0, <1>11 DEF CheckStored, Fresh, Serve, Goto, BuildsTypes
<1>12. ASSUME NEW r \in Requests, SaveBuild(r)
       PROVE  /\ mem' # Absent => GoodBuildNext(mem')
              /\ stored' # Absent => GoodBuildNext(stored')
              /\ \A q \in Requests : pc'[q] = "remember" => GoodBuildNext(served'[q])
  <2>1. GoodBuildNext(Compiled(r)) BY <1>2, <1>12, CompiledIsGood DEF SaveBuild
  <2>2. mem' = mem /\ stored' \in {stored, Compiled(r)} BY <1>12 DEF SaveBuild
  <2>3. \A q \in Requests : pc'[q] = "remember" =>
          served'[q] = Compiled(r) \/ (pc[q] = "remember" /\ served'[q] = served[q])
    BY <1>0, <1>12 DEF SaveBuild, Goto, BuildsTypes
  <2> QED BY <1>3, <1>4, <1>5, <2>1, <2>2, <2>3
<1>13. ASSUME NEW r \in Requests, Remember(r)
       PROVE  /\ GoodBuildNext(mem') /\ UNCHANGED <<stored, served>>
              /\ \A q \in Requests : pc'[q] = "remember" => pc[q] = "remember"
  BY <1>0, <1>5, <1>13 DEF Remember, Goto, BuildsTypes
<1>14. ASSUME NEW r \in Requests, Finish(r)
       PROVE  /\ UNCHANGED <<mem, stored>>
              /\ \A q \in Requests : pc'[q] = "remember" => pc[q] = "remember" /\ served'[q] = served[q]
  BY <1>0, <1>14 DEF Finish, Goto, BuildsTypes
<1>15. ASSUME MainRestarts
       PROVE  mem' = Absent /\ UNCHANGED stored /\ \A q \in Requests : pc'[q] # "remember"
  BY <1>15 DEF MainRestarts
<1>16. CASE \E t \in DOMAIN stamp : Change(t) BY <1>3, <1>4, <1>5, <1>8, <1>16
<1>17. CASE \E r \in Requests : BuildStep(r)
  BY <1>3, <1>4, <1>5, <1>9, <1>10, <1>11, <1>12, <1>13, <1>14, <1>17 DEF BuildStep
<1>18. CASE MainRestarts BY <1>4, <1>15, <1>18
<1> QED BY <1>7, <1>16, <1>17, <1>18 DEF BuildsNext

(* The table read now is new enough for everybody.                           *)
LEMMA LoadTableIsGood ==
    ASSUME BuildsInv, [BuildsNext]_buildVars, NEW r \in Requests, LoadTable(r)
    PROVE  GoodLoad(r)'
<1> DEFINE v == read[r].version
           k == Len(read[r].tables) + 1
<1>0. BuildsTypes /\ BeganEarlier /\ GoodLoad(r) BY DEF BuildsInv, LoadsAreGood, LoadTable
<1>1. Measure /\ version' \in Nat BY MeasureStep, BuildsTypesStep DEF BuildsTypes
<1>2. UNCHANGED <<stamp, version, pc, since>> BY DEF LoadTable
<1>3. read[r] \in [version : Nat, tables : Seq(Nat), rules : Nat] BY <1>0 DEF BuildsTypes
<1>4. Len(read[r].tables) \in Nat /\ v \in Nat /\ v <= version /\ version \in Nat
  BY <1>0, <1>3 DEF GoodLoad, BuildsTypes
<1>5. /\ read'[r].version = v
      /\ Len(read'[r].tables) = k
      /\ k <= Len(Tables)
      /\ \A n \in 1..Len(read[r].tables) : read'[r].tables[n] = read[r].tables[n]
      /\ Tables[k] \in TableSet
      /\ read'[r].tables[k] = stamp[Tables[k]]
  BY LoadTableReads
<1>6. Tables[k] \in Stamped /\ stamp[Tables[k]] \in Nat BY <1>0, <1>5 DEF Stamped, BuildsTypes
<1>7. \A q \in Requests : pc[q] # "start" => stamp[Tables[k]] >= since[q][Tables[k]]
  BY <1>0, <1>6 DEF BeganEarlier, BuildsTypes
<1>8. NewEnoughNext(v, Tables[k], stamp[Tables[k]])
  BY <1>2, <1>6, <1>7 DEF NewEnoughNext, Looking
<1>9. \A n \in 1..Len(read[r].tables) :
        /\ NewEnoughNext(v, Tables[n], read[r].tables[n])
        /\ read[r].tables[n] >= since[r][Tables[n]]
  <2>1. \A n \in 1..Len(Tables) : Tables[n] \in TableSet BY TablesAssumption DEF TableSet
  <2>2. \A n \in 1..Len(read[r].tables) : Tables[n] \in TableSet /\ read[r].tables[n] \in Nat
    BY <1>0, <1>3, <2>1, TablesAssumption DEF GoodLoad
  <2> QED BY <1>0, <1>1, <1>4, <2>2, NewEnoughStays DEF GoodLoad
<1>10. pc[r] = "tables" BY DEF LoadTable
<1>11. \A n \in 1..k :
         /\ NewEnoughNext(v, Tables[n], read'[r].tables[n])
         /\ read'[r].tables[n] >= since[r][Tables[n]]
  <2> SUFFICES ASSUME NEW n \in 1..k
               PROVE  /\ NewEnoughNext(v, Tables[n], read'[r].tables[n])
                      /\ read'[r].tables[n] >= since[r][Tables[n]]
    OBVIOUS
  <2>1. CASE n = k BY <1>5, <1>7, <1>8, <1>10, <2>1
  <2>2. CASE n # k
    <3>1. n \in 1..Len(read[r].tables) BY <1>4, <2>2
    <3> QED BY <1>5, <1>9, <3>1
  <2> QED BY <2>1, <2>2
<1> QED BY <1>2, <1>4, <1>5, <1>11 DEF GoodLoad, NewEnough, NewEnoughNext

(* The tables a request has loaded so far are new enough for the version   *)
(* it read first.                                                          *)
LEMMA LoadsStep ==
    ASSUME BuildsInv, [BuildsNext]_buildVars
    PROVE  LoadsAreGood'
<1> SUFFICES ASSUME NEW r \in Requests, pc'[r] = "tables" PROVE GoodLoad(r)' BY DEF LoadsAreGood
<1>0. BuildsTypes BY DEF BuildsInv
<1>1. Measure /\ version' \in Nat BY MeasureStep, BuildsTypesStep DEF BuildsTypes
<1>2. ASSUME pc[r] = "tables", read'[r] = read[r], since'[r] = since[r] PROVE GoodLoad(r)'
  BY <1>1, <1>2, GoodLoadStays
<1>3. CASE UNCHANGED buildVars BY <1>2, <1>3 DEF buildVars
<1>4. ASSUME NEW t \in DOMAIN stamp, Change(t) PROVE GoodLoad(r)' BY <1>2, <1>4 DEF Change
<1>5. ASSUME NEW q \in Requests, LoadVersion(q) PROVE GoodLoad(r)'
  <2>1. CASE q = r
    <3>1. read'[r].version = version /\ read'[r].tables = <<>> /\ version' = version
      BY <1>0, <1>5, <2>1 DEF LoadVersion, BuildsTypes
    <3>2. Len(Tables) \in Nat BY TablesAssumption
    <3> QED BY <1>0, <3>1, <3>2 DEF GoodLoad, BuildsTypes
  <2>2. CASE q # r BY <1>0, <1>2, <1>5, <2>2 DEF LoadVersion, Goto, BuildsTypes
  <2> QED BY <2>1, <2>2
<1>6. ASSUME NEW q \in Requests, LoadTable(q) PROVE GoodLoad(r)'
  <2>1. CASE q = r BY <1>6, <2>1, LoadTableIsGood
  <2>2. CASE q # r BY <1>0, <1>2, <1>6, <2>2 DEF LoadTable, BuildsTypes
  <2> QED BY <2>1, <2>2
<1>7. ASSUME NEW q \in Requests, ReadView(q) \/ ReadVersion(q) \/ Finish(q) PROVE GoodLoad(r)'
  <2>1. q # r BY <1>0, <1>7 DEF ReadView, ReadVersion, Finish, Goto, BuildsTypes
  <2> QED BY <1>0, <1>2, <1>7, <2>1 DEF ReadView, ReadVersion, Finish, Goto, BuildsTypes
<1>8. ASSUME NEW q \in Requests, CheckMem(q) \/ CheckStored(q) \/ SaveBuild(q) \/ Remember(q) PROVE GoodLoad(r)'
  <2>1. pc[r] = "tables" BY <1>0, <1>8 DEF CheckMem, CheckStored, SaveBuild, Remember, Serve, Goto, BuildsTypes
  <2> QED BY <1>2, <1>8, <2>1 DEF CheckMem, CheckStored, SaveBuild, Remember
<1>9. ASSUME MainRestarts PROVE FALSE BY <1>9 DEF MainRestarts
<1> QED BY <1>3, <1>4, <1>5, <1>6, <1>7, <1>8, <1>9 DEF BuildsNext, BuildStep

(* A request is served a build of the version it found, or its own.          *)
LEMMA ServedStep ==
    ASSUME BuildsInv, [BuildsNext]_buildVars
    PROVE  ServedIsNew'
<1> DEFINE Good(r, b) == b \in Builds /\ \A t \in TableSet : b.tables[t] >= since[r][t]
<1>0. BuildsTypes /\ KeptBuildsAreGood /\ ServedIsNew BY DEF BuildsInv
<1> SUFFICES ASSUME NEW r \in Requests, pc'[r] \in {"remember", "done"}
             PROVE  /\ served'[r] \in Builds
                    /\ \A t \in TableSet : served'[r].tables[t] >= since'[r][t]
  BY DEF ServedIsNew
<1>1. ASSUME pc[r] \in {"remember", "done"}, served'[r] = served[r] PROVE Good(r, served'[r])
  BY <1>0, <1>1 DEF ServedIsNew
<1>2. ASSUME NEW b \in Builds, GoodBuild(b), Looking(r), b.version = read[r].version PROVE Good(r, b)
  BY <1>2 DEF GoodBuild, NewEnough, Builds
<1>3. ASSUME since'[r] = since[r], Good(r, served'[r])
      PROVE  /\ served'[r] \in Builds
             /\ \A t \in TableSet : served'[r].tables[t] >= since'[r][t]
  BY <1>3
<1>4. ASSUME NEW q \in Requests, CheckMem(q) PROVE since'[r] = since[r] /\ Good(r, served'[r])
  <2>1. CASE q = r
    <3>1. Looking(r) /\ mem # Absent /\ mem.version = read[r].version /\ served'[r] = mem
      BY <1>0, <1>4, <2>1 DEF CheckMem, Fresh, Serve, Goto, Looking, BuildsTypes
    <3> QED BY <1>0, <1>2, <1>4, <3>1 DEF CheckMem, KeptBuildsAreGood, BuildsTypes
  <2>2. CASE q # r
    <3>1. pc[r] = pc'[r] /\ served'[r] = served[r] BY <1>0, <1>4, <2>2 DEF CheckMem, Serve, Goto, BuildsTypes
    <3> QED BY <1>1, <1>4, <3>1 DEF CheckMem
  <2> QED BY <2>1, <2>2
<1>5. ASSUME NEW q \in Requests, CheckStored(q) PROVE since'[r] = since[r] /\ Good(r, served'[r])
  <2>1. CASE q = r
    <3>1. Looking(r) /\ stored # Absent /\ stored.version = read[r].version /\ served'[r] = stored
      BY <1>0, <1>5, <2>1 DEF CheckStored, Fresh, Serve, Goto, Looking, BuildsTypes
    <3> QED BY <1>0, <1>2, <1>5, <3>1 DEF CheckStored, KeptBuildsAreGood, BuildsTypes
  <2>2. CASE q # r
    <3>1. pc[r] = pc'[r] /\ served'[r] = served[r] BY <1>0, <1>5, <2>2 DEF CheckStored, Serve, Goto, BuildsTypes
    <3> QED BY <1>1, <1>5, <3>1 DEF CheckStored
  <2> QED BY <2>1, <2>2
<1>6. ASSUME NEW q \in Requests, SaveBuild(q) PROVE since'[r] = since[r] /\ Good(r, served'[r])
  <2>1. CASE q = r
    <3>1. served'[r] = Compiled(r) BY <1>0, <1>6, <2>1 DEF SaveBuild, BuildsTypes
    <3> QED BY <1>6, <2>1, <3>1, CompiledIsGood DEF SaveBuild
  <2>2. CASE q # r
    <3>1. pc[r] = pc'[r] /\ served'[r] = served[r] BY <1>0, <1>6, <2>2 DEF SaveBuild, Goto, BuildsTypes
    <3> QED BY <1>1, <1>6, <3>1 DEF SaveBuild
  <2> QED BY <2>1, <2>2
<1>7. ASSUME NEW q \in Requests, Remember(q) PROVE since'[r] = since[r] /\ Good(r, served'[r])
  <2>1. pc[r] \in {"remember", "done"} /\ served'[r] = served[r] /\ since' = since
    BY <1>0, <1>7 DEF Remember, Goto, BuildsTypes
  <2> QED BY <1>1, <2>1
<1>8. ASSUME NEW q \in Requests, ReadView(q) \/ ReadVersion(q) \/ LoadVersion(q) \/ LoadTable(q) \/ Finish(q)
      PROVE  since'[r] = since[r] /\ Good(r, served'[r])
  <2>1. pc[r] = pc'[r] /\ served'[r] = served[r] /\ since'[r] = since[r]
    BY <1>0, <1>8 DEF ReadView, ReadVersion, LoadVersion, LoadTable, Finish, Goto, BuildsTypes
  <2> QED BY <1>1, <2>1
<1>9. ASSUME NEW t \in DOMAIN stamp, Change(t) PROVE since'[r] = since[r] /\ Good(r, served'[r])
  BY <1>1, <1>9 DEF Change
<1>10. ASSUME MainRestarts PROVE FALSE BY <1>10 DEF MainRestarts
<1>11. CASE UNCHANGED buildVars BY <1>1, <1>11 DEF buildVars
<1> QED BY <1>3, <1>4, <1>5, <1>6, <1>7, <1>8, <1>9, <1>10, <1>11 DEF BuildsNext, BuildStep

-----------------------------------------------------------------------------
(* service.go Build and LoadBank read the version before the tables, and a   *)
(* trigger raises it with every edit: so no request, served from memory,     *)
(* from the database or by its own compile, misses an edit made before it    *)
(* began.                                                                    *)
THEOREM EditsAreSeen == BuildsSpec => []SeesEarlierEdits
<1>1. BuildsInit => BuildsInv BY BuildsInitInv
<1>2. BuildsInv /\ [BuildsNext]_buildVars => BuildsInv'
  BY BuildsTypesStep, BeganEarlierStep, KeptStep, LoadsStep, ServedStep DEF BuildsInv
<1>3. BuildsInv => SeesEarlierEdits BY DEF BuildsInv, ServedIsNew, SeesEarlierEdits
<1> QED BY <1>1, <1>2, <1>3, PTL DEF BuildsSpec

----------------------------------------------------------------------------
(* MenuBank: the statements on the tables.                                   *)

(* What a bump of versions leaves alone.                                     *)
LEMMA BumpIs ==
  ASSUME NEW d, NEW l, "version" \in DOMAIN d
  PROVE  /\ DOMAIN Bump(d, l) = DOMAIN d
         /\ \A x \in DOMAIN d \ {"version"} : Bump(d, l)[x] = d[x]
BY DEF Bump

(* A row that is inserted gets the next id; the other rows stay.             *)
LEMMA InsertIs ==
  ASSUME NEW d, NEW table \in MenuTableNames, NEW row, DOMAIN d = MenuTableNames \cup {"next", "version", "printers"}
  PROVE  LET e == Insert(d, table, row)
         IN  /\ DOMAIN e = DOMAIN d
             /\ e.next = d.next + 1
             /\ DOMAIN e[table] = DOMAIN d[table] \cup {d.next}
             /\ e[table][d.next] = row
             /\ \A k \in DOMAIN d[table] \ {d.next} : e[table][k] = d[table][k]
             /\ \A x \in DOMAIN d \ {table, "next", "version"} : e[x] = d[x]
<1> DEFINE m == [d EXCEPT ![table] = [id \in DOMAIN @ \cup {d.next} |-> IF id = d.next THEN row ELSE @[id]],
                   !.next = @ + 1]
<1>1. /\ DOMAIN m = DOMAIN d
      /\ m.next = d.next + 1
      /\ m[table] = [id \in DOMAIN d[table] \cup {d.next} |-> IF id = d.next THEN row ELSE d[table][id]]
      /\ \A x \in DOMAIN d \ {table, "next", "version"} : m[x] = d[x]
  BY DEF MenuTableNames
<1>2. Insert(d, table, row) = Bump(m, row.loc) BY DEF Insert
<1> HIDE DEF m
<1> QED BY <1>1, <1>2, BumpIs DEF MenuTableNames

(* An update changes one row at most, of the caller's tenant.                *)
LEMMA UpdateIs ==
  ASSUME NEW d, NEW table \in MenuTableNames, NEW id, NEW t, NEW row, DOMAIN d = MenuTableNames \cup {"next", "version", "printers"}
  PROVE  LET e == Update(d, table, id, t, row)
         IN  /\ DOMAIN e = DOMAIN d
             /\ \A x \in DOMAIN d \ {table, "version"} : e[x] = d[x]
             /\ DOMAIN e[table] = DOMAIN d[table]
             /\ \A k \in DOMAIN d[table] \ {id} : e[table][k] = d[table][k]
             /\ id \in DOMAIN d[table] => \/ e[table][id] = d[table][id]
                                          \/ e[table][id] = row /\ TenantOf[d[table][id].loc] = t
<1> DEFINE m == [d EXCEPT ![table][id] = row]
<1>1. /\ DOMAIN m = DOMAIN d
      /\ m[table] = [d[table] EXCEPT ![id] = row]
      /\ \A x \in DOMAIN d \ {table, "version"} : m[x] = d[x]
  BY DEF MenuTableNames
<1>2. Update(d, table, id, t, row) = IF Found(d, table, id, t) THEN Bump(m, d[table][id].loc) ELSE d BY DEF Update
<1>3. Found(d, table, id, t) => id \in DOMAIN d[table] /\ TenantOf[d[table][id].loc] = t BY DEF Found
<1> HIDE DEF m
<1> QED BY <1>1, <1>2, <1>3, BumpIs DEF MenuTableNames

(* e is d but for the tables T and those no other row refers to.             *)
Columns(d) == DOMAIN d = MenuTableNames \cup {"next", "version", "printers"}
Apart(d, e, T) ==
  /\ Columns(e) /\ e.next \in Nat /\ e.next >= d.next
  /\ \A x \in {"printers", "menus", "cats", "items", "entries"} \ T : e[x] = d[x]

(* The tables fit together when no table that is referred to changed ...     *)
LEMMA OthersWritten ==
  ASSUME NEW d, NEW e, TablesOK(d), Apart(d, e, {})
  PROVE  TablesOK(e)
<1>1. Columns(e) /\ e.next \in Nat /\ e.next >= d.next /\ d.next \in Nat BY DEF Apart, TablesOK
<1>2. e.printers = d.printers /\ e.menus = d.menus /\ e.cats = d.cats /\ e.items = d.items /\ e.entries = d.entries
  BY DEF Apart
<1>3. \A m \in DOMAIN e.menus : MenuOK(e, m) BY <1>1, <1>2 DEF TablesOK, MenuOK, RowOK
<1>4. \A c \in DOMAIN e.cats : CatOK(e, c) BY <1>1, <1>2 DEF TablesOK, CatOK, RowOK, PrinterOK
<1>5. \A i \in DOMAIN e.items : ItemOK(e, i) BY <1>1, <1>2 DEF TablesOK, ItemOK, RowOK, PrinterOK
<1>6. \A x \in DOMAIN e.entries : EntryOK(e, x) BY <1>1, <1>2 DEF TablesOK, EntryOK
<1> QED BY <1>1, <1>2, <1>3, <1>4, <1>5, <1>6 DEF TablesOK, Columns

(* ... when menus were added or changed in place ...                         *)
LEMMA MenusWritten ==
  ASSUME NEW d, NEW e, TablesOK(d), Apart(d, e, {"menus"}),
         \A m \in DOMAIN e.menus : MenuOK(e, m),
         \A m \in DOMAIN d.menus : m \in DOMAIN e.menus /\ e.menus[m].loc = d.menus[m].loc
  PROVE  TablesOK(e)
<1>1. Columns(e) /\ e.next \in Nat /\ e.next >= d.next /\ d.next \in Nat BY DEF Apart, TablesOK
<1>2. e.printers = d.printers /\ e.cats = d.cats /\ e.items = d.items /\ e.entries = d.entries
  BY DEF Apart
<1>4. \A c \in DOMAIN e.cats : CatOK(e, c) BY <1>1, <1>2 DEF TablesOK, CatOK, RowOK, PrinterOK
<1>5. \A i \in DOMAIN e.items : ItemOK(e, i) BY <1>1, <1>2 DEF TablesOK, ItemOK, RowOK, PrinterOK
<1>6. \A x \in DOMAIN e.entries : EntryOK(e, x) BY <1>1, <1>2 DEF TablesOK, EntryOK
<1> QED BY <1>1, <1>2, <1>4, <1>5, <1>6 DEF TablesOK, Columns

(* ... when categories were added or changed in place ...                    *)
LEMMA CatsWritten ==
  ASSUME NEW d, NEW e, TablesOK(d), Apart(d, e, {"cats"}),
         \A c \in DOMAIN e.cats : CatOK(e, c),
         \A c \in DOMAIN d.cats : c \in DOMAIN e.cats /\ e.cats[c].loc = d.cats[c].loc
  PROVE  TablesOK(e)
<1>1. Columns(e) /\ e.next \in Nat /\ e.next >= d.next /\ d.next \in Nat BY DEF Apart, TablesOK
<1>2. e.printers = d.printers /\ e.menus = d.menus /\ e.items = d.items /\ e.entries = d.entries
  BY DEF Apart
<1>3. \A m \in DOMAIN e.menus : MenuOK(e, m) BY <1>1, <1>2 DEF TablesOK, MenuOK, RowOK
<1>5. \A i \in DOMAIN e.items : ItemOK(e, i) BY <1>1, <1>2 DEF TablesOK, ItemOK, RowOK, PrinterOK
<1>6. \A x \in DOMAIN e.entries : EntryOK(e, x) BY <1>1, <1>2 DEF TablesOK, EntryOK
<1> QED BY <1>1, <1>2, <1>3, <1>5, <1>6 DEF TablesOK, Columns

(* ... when the items that are left fit their categories ...                 *)
LEMMA ItemsWritten ==
  ASSUME NEW d, NEW e, TablesOK(d), Apart(d, e, {"items"}), \A i \in DOMAIN e.items : ItemOK(e, i)
  PROVE  TablesOK(e)
<1>1. Columns(e) /\ e.next \in Nat /\ e.next >= d.next /\ d.next \in Nat BY DEF Apart, TablesOK
<1>2. e.printers = d.printers /\ e.menus = d.menus /\ e.cats = d.cats /\ e.entries = d.entries
  BY DEF Apart
<1>3. \A m \in DOMAIN e.menus : MenuOK(e, m) BY <1>1, <1>2 DEF TablesOK, MenuOK, RowOK
<1>4. \A c \in DOMAIN e.cats : CatOK(e, c) BY <1>1, <1>2 DEF TablesOK, CatOK, RowOK, PrinterOK
<1>6. \A x \in DOMAIN e.entries : EntryOK(e, x) BY <1>1, <1>2 DEF TablesOK, EntryOK
<1> QED BY <1>1, <1>2, <1>3, <1>4, <1>6 DEF TablesOK, Columns

(* ... and when the entries that are left are well formed.                   *)
LEMMA EntriesWritten ==
  ASSUME NEW d, NEW e, TablesOK(d), Apart(d, e, {"entries"}), \A x \in DOMAIN e.entries : EntryOK(e, x)
  PROVE  TablesOK(e)
<1>1. Columns(e) /\ e.next \in Nat /\ e.next >= d.next /\ d.next \in Nat BY DEF Apart, TablesOK
<1>2. e.printers = d.printers /\ e.menus = d.menus /\ e.cats = d.cats /\ e.items = d.items
  BY DEF Apart
<1>3. \A m \in DOMAIN e.menus : MenuOK(e, m) BY <1>1, <1>2 DEF TablesOK, MenuOK, RowOK
<1>4. \A c \in DOMAIN e.cats : CatOK(e, c) BY <1>1, <1>2 DEF TablesOK, CatOK, RowOK, PrinterOK
<1>5. \A i \in DOMAIN e.items : ItemOK(e, i) BY <1>1, <1>2 DEF TablesOK, ItemOK, RowOK, PrinterOK
<1> QED BY <1>1, <1>2, <1>3, <1>4, <1>5 DEF TablesOK, Columns

----------------------------------------------------------------------------
(* Groups, options, sizes and views are tables no other row refers to.       *)

Others == {"groups", "opts", "sizes", "views"}

(* A row put into one of them leaves the tables fitting together.            *)
LEMMA OtherInserted ==
  ASSUME NEW d, TablesOK(d), NEW table \in Others, NEW row
  PROVE  TablesOK(Insert(d, table, row))
<1>1. d.next \in Nat /\ Columns(d) /\ table \in MenuTableNames BY DEF TablesOK, Columns, Others, MenuTableNames
<1>2. table \notin {"printers", "menus", "cats", "items", "entries", "next", "version"} BY DEF Others
<1> DEFINE e == Insert(d, table, row)
<1>3. DOMAIN e = DOMAIN d /\ e.next = d.next + 1 /\ \A x \in DOMAIN d \ {table, "next", "version"} : e[x] = d[x]
  BY <1>1, InsertIs DEF Columns
<1> HIDE DEF e
<1>4. \A x \in {"printers", "menus", "cats", "items", "entries"} : x \in DOMAIN d \ {table, "next", "version"}
  BY <1>1, <1>2 DEF Columns, MenuTableNames
<1>5. Apart(d, e, {}) BY <1>1, <1>3, <1>4 DEF Apart, Columns
<1> QED BY <1>5, OthersWritten DEF e

(* So does a row of one of them changed.                                     *)
LEMMA OtherUpdated ==
  ASSUME NEW d, TablesOK(d), NEW table \in Others, NEW id, NEW t, NEW row
  PROVE  TablesOK(Update(d, table, id, t, row))
<1>1. d.next \in Nat /\ Columns(d) /\ table \in MenuTableNames BY DEF TablesOK, Columns, Others, MenuTableNames
<1>2. table \notin {"printers", "menus", "cats", "items", "entries", "next", "version"} BY DEF Others
<1> DEFINE e == Update(d, table, id, t, row)
<1>3. DOMAIN e = DOMAIN d /\ \A x \in DOMAIN d \ {table, "version"} : e[x] = d[x]
  BY <1>1, UpdateIs DEF Columns
<1> HIDE DEF e
<1>4. \A x \in {"next", "printers", "menus", "cats", "items", "entries"} : x \in DOMAIN d \ {table, "version"}
  BY <1>1, <1>2 DEF Columns, MenuTableNames
<1>5. Apart(d, e, {}) BY <1>1, <1>3, <1>4 DEF Apart, Columns
<1> QED BY <1>5, OthersWritten DEF e

(* The statements on groups and their links, ...                             *)
LEMMA GroupsOK ==
  ASSUME NEW d, TablesOK(d), NEW l, NEW id, NEW t, NEW name, NEW rules, NEW x, NEW y
  PROVE  /\ TablesOK(CreateModifierGroup(d, l, name, rules))
         /\ TablesOK(UpdateModifierGroup(d, id, t, name, rules))
         /\ TablesOK(SetGroupPortions(d, id, t, x))
         /\ TablesOK(DetachGroupFromAllItems(d, id, t))
         /\ TablesOK(DeleteModifierGroup(d, id, t))
         /\ TablesOK(AttachModifierGroup(d, id, x, y))
         /\ TablesOK(DetachModifierGroup(d, id, x))
<1>0. d.next \in Nat /\ Columns(d) BY DEF TablesOK, Columns
<1>1. TablesOK(CreateModifierGroup(d, l, name, rules)) BY OtherInserted DEF CreateModifierGroup, Others
<1>2. TablesOK(UpdateModifierGroup(d, id, t, name, rules)) BY OtherUpdated DEF UpdateModifierGroup, Others
<1>3. TablesOK(SetGroupPortions(d, id, t, x)) BY OtherUpdated DEF SetGroupPortions, Others
<1>4. Apart(d, DetachGroupFromAllItems(d, id, t), {})
  BY <1>0 DEF DetachGroupFromAllItems, BumpAll, Apart, Columns, MenuTableNames
<1>5. Apart(d, DeleteModifierGroup(d, id, t), {})
  BY <1>0 DEF DeleteModifierGroup, DropOptions, Bump, Apart, Columns, MenuTableNames
<1>6. Apart(d, AttachModifierGroup(d, id, x, y), {})
  BY <1>0 DEF AttachModifierGroup, Bump, Apart, Columns, MenuTableNames
<1>7. Apart(d, DetachModifierGroup(d, id, x), {})
  BY <1>0 DEF DetachModifierGroup, Bump, Apart, Columns, MenuTableNames
<1> QED BY <1>1, <1>2, <1>3, <1>4, <1>5, <1>6, <1>7, OthersWritten

(* ... on options and their prices, ...                                      *)
LEMMA OptionsOK ==
  ASSUME NEW d, TablesOK(d), NEW l, NEW id, NEW t, NEW g, NEW name, NEW x, NEW y
  PROVE  /\ TablesOK(CreateModifierOption(d, l, g, name, x))
         /\ TablesOK(UpdateModifierOption(d, id, t, name, x, y))
         /\ TablesOK(SetOptionPosition(d, id, t, x))
         /\ TablesOK(SetOptionBank(d, id, t, g, x))
         /\ TablesOK(DeleteModifierOption(d, id, t))
         /\ TablesOK(DeleteOptionPrices(d, id))
         /\ TablesOK(InsertOptionPrices(d, id, x))
<1>0. d.next \in Nat /\ Columns(d) BY DEF TablesOK, Columns
<1>1. TablesOK(CreateModifierOption(d, l, g, name, x)) BY OtherInserted DEF CreateModifierOption, Others
<1>2. TablesOK(UpdateModifierOption(d, id, t, name, x, y)) BY OtherUpdated DEF UpdateModifierOption, Others
<1>3. TablesOK(SetOptionPosition(d, id, t, x)) BY OtherUpdated DEF SetOptionPosition, Others
<1>4. TablesOK(SetOptionBank(d, id, t, g, x)) BY OtherUpdated DEF SetOptionBank, Others
<1>5. Apart(d, DeleteModifierOption(d, id, t), {})
  BY <1>0 DEF DeleteModifierOption, DropOptions, Bump, Apart, Columns, MenuTableNames
<1>6. Apart(d, DeleteOptionPrices(d, id), {})
  BY <1>0 DEF DeleteOptionPrices, Apart, Columns, MenuTableNames
<1>7. Apart(d, InsertOptionPrices(d, id, x), {})
  BY <1>0 DEF InsertOptionPrices, Apart, Columns, MenuTableNames
<1> QED BY <1>1, <1>2, <1>3, <1>4, <1>5, <1>6, <1>7, OthersWritten

(* ... on sizes and the prices by size, ...                                  *)
LEMMA SizesOK ==
  ASSUME NEW d, TablesOK(d), NEW l, NEW id, NEW t, NEW name, NEW x
  PROVE  /\ TablesOK(CreateMenuSize(d, l, name, x))
         /\ TablesOK(UpdateMenuSize(d, id, t, name))
         /\ TablesOK(SetMenuSizePosition(d, id, t, x))
         /\ TablesOK(DeleteMenuSize(d, id, t))
         /\ TablesOK(DeleteItemSizes(d, id))
         /\ TablesOK(InsertItemSizes(d, id, x))
<1>0. d.next \in Nat /\ Columns(d) BY DEF TablesOK, Columns
<1>1. TablesOK(CreateMenuSize(d, l, name, x)) BY OtherInserted DEF CreateMenuSize, Others
<1>2. TablesOK(UpdateMenuSize(d, id, t, name)) BY OtherUpdated DEF UpdateMenuSize, Others
<1>3. TablesOK(SetMenuSizePosition(d, id, t, x)) BY OtherUpdated DEF SetMenuSizePosition, Others
<1>4. Apart(d, DeleteMenuSize(d, id, t), {})
  BY <1>0 DEF DeleteMenuSize, Bump, Apart, Columns, MenuTableNames
<1>5. Apart(d, DeleteItemSizes(d, id), {})
  BY <1>0 DEF DeleteItemSizes, Apart, Columns, MenuTableNames
<1>6. Apart(d, InsertItemSizes(d, id, x), {})
  BY <1>0 DEF InsertItemSizes, Apart, Columns, MenuTableNames
<1> QED BY <1>1, <1>2, <1>3, <1>4, <1>5, <1>6, OthersWritten

(* ... and on views keep the tables.                                         *)
LEMMA ViewsOK ==
  ASSUME NEW d, TablesOK(d), NEW l, NEW id, NEW kind, NEW rules
  PROVE  /\ TablesOK(CreateMenuView(d, l, kind, rules))
         /\ TablesOK(EnsureDefaultView(d, l, kind))
         /\ TablesOK(UpdateMenuView(d, id, rules))
         /\ TablesOK(DeleteMenuView(d, id))
<1>0. d.next \in Nat /\ Columns(d) BY DEF TablesOK, Columns
<1>1. \A r : TablesOK(CreateMenuView(d, l, kind, r)) BY OtherInserted DEF CreateMenuView, Others
<1>2. TablesOK(EnsureDefaultView(d, l, kind)) BY <1>1 DEF EnsureDefaultView
<1>3. Apart(d, UpdateMenuView(d, id, rules), {})
  BY <1>0 DEF UpdateMenuView, Bump, Apart, Columns, MenuTableNames
<1>4. TablesOK(DeleteMenuView(d, id))
  <2> DEFINE e == DeleteMenuView(d, id)
  <2>1. Apart(d, e, {"entries"})
    <3> DEFINE gone == {x \in DOMAIN d.entries : d.entries[x].view = id}
               m == [DropEntries(d, gone) EXCEPT !.views = Without(@, {id})]
    <3> HIDE DEF gone
    <3>1. Apart(d, m, {"entries"})
      <4>1. Apart(d, DropEntries(d, gone), {"entries"}) BY <1>0 DEF DropEntries, Apart, Columns, MenuTableNames
      <4> QED BY <4>1 DEF Apart, Columns, MenuTableNames
    <3>2. e = Bump(m, d.views[id].loc) BY DEF DeleteMenuView, gone
    <3> HIDE DEF m, e
    <3> QED BY <1>0, <3>1, <3>2, BumpIs DEF Apart, Columns, MenuTableNames
  <2>2. e.entries = Without(d.entries, {x \in DOMAIN d.entries : d.entries[x].view = id})
    BY <1>0 DEF DeleteMenuView, DropEntries, Bump, Columns, MenuTableNames
  <2>3. \A x \in DOMAIN e.entries : EntryOK(e, x)
    <3> HIDE DEF e
    <3> QED BY <2>2 DEF Without, EntryOK, TablesOK
  <2> QED BY <2>1, <2>3, EntriesWritten
<1> QED BY <1>1, <1>2, <1>3, <1>4, OthersWritten

----------------------------------------------------------------------------
(* Menus, categories and items.                                              *)

(* So do those on menus, ...                                                 *)
LEMMA MenusOK ==
  ASSUME NEW d, TablesOK(d), NEW l \in Locations, NEW id, NEW t, NEW name, NEW avail, NEW p \in Nat
  PROVE  /\ TablesOK(CreateMenu(d, l, name, p))
         /\ TablesOK(UpdateMenu(d, id, t, name, avail))
         /\ TablesOK(SetMenuPosition(d, id, t, p))
<1>0. /\ d.next \in Nat /\ Columns(d) /\ "menus" \in MenuTableNames
      /\ \A m \in DOMAIN d.menus : MenuOK(d, m)
  BY DEF TablesOK, Columns, MenuTableNames
<1>1. TablesOK(CreateMenu(d, l, name, p))
  <2> DEFINE row == [loc |-> l, name |-> name, avail |-> TRUE, pos |-> p]
             e == CreateMenu(d, l, name, p)
  <2>1. /\ DOMAIN e = DOMAIN d /\ e.next = d.next + 1
        /\ DOMAIN e.menus = DOMAIN d.menus \cup {d.next} /\ e.menus[d.next] = row
        /\ \A k \in DOMAIN d.menus \ {d.next} : e.menus[k] = d.menus[k]
        /\ \A x \in DOMAIN d \ {"menus", "next", "version"} : e[x] = d[x]
    BY <1>0, InsertIs DEF CreateMenu, Columns
  <2>2. DOMAIN row = {"loc", "name", "avail", "pos"} /\ row.loc = l /\ row.pos = p OBVIOUS
  <2> HIDE DEF e, row
  <2>3. Apart(d, e, {"menus"}) BY <1>0, <2>1 DEF Apart, Columns, MenuTableNames
  <2>4. \A m \in DOMAIN e.menus : MenuOK(e, m) BY <1>0, <2>1, <2>2 DEF MenuOK, RowOK
  <2>5. \A m \in DOMAIN d.menus : m \in DOMAIN e.menus /\ e.menus[m].loc = d.menus[m].loc
    BY <1>0, <2>1 DEF MenuOK, RowOK
  <2> QED BY <2>3, <2>4, <2>5, MenusWritten DEF e
<1>2. ASSUME NEW row, id \in DOMAIN d.menus => /\ DOMAIN row = DOMAIN d.menus[id]
                                             /\ row.loc = d.menus[id].loc /\ row.pos \in Nat
      PROVE  TablesOK(Update(d, "menus", id, t, row))
  <2> DEFINE e == Update(d, "menus", id, t, row)
  <2>1. /\ DOMAIN e = DOMAIN d /\ \A x \in DOMAIN d \ {"menus", "version"} : e[x] = d[x]
        /\ DOMAIN e.menus = DOMAIN d.menus
        /\ \A k \in DOMAIN d.menus \ {id} : e.menus[k] = d.menus[k]
        /\ id \in DOMAIN d.menus => e.menus[id] \in {d.menus[id], row}
    BY <1>0, UpdateIs DEF Columns
  <2> HIDE DEF e
  <2>2. Apart(d, e, {"menus"}) BY <1>0, <2>1 DEF Apart, Columns, MenuTableNames
  <2>3. e.next = d.next BY <1>0, <2>1 DEF Columns
  <2>4. ASSUME NEW m \in DOMAIN e.menus PROVE MenuOK(e, m) /\ e.menus[m].loc = d.menus[m].loc
    BY <1>0, <1>2, <2>1, <2>3 DEF MenuOK, RowOK
  <2> QED BY <2>1, <2>2, <2>4, MenusWritten DEF e
<1>3. TablesOK(UpdateMenu(d, id, t, name, avail))
  <2> DEFINE row == [d.menus[id] EXCEPT !.name = name, !.avail = avail]
  <2>1. id \in DOMAIN d.menus => DOMAIN row = DOMAIN d.menus[id] /\ row.loc = d.menus[id].loc /\ row.pos \in Nat
    BY <1>0 DEF MenuOK, RowOK
  <2> HIDE DEF row
  <2>2. TablesOK(Update(d, "menus", id, t, row)) BY <1>2, <2>1
  <2> QED BY <2>2 DEF UpdateMenu, row
<1>4. TablesOK(SetMenuPosition(d, id, t, p))
  <2> DEFINE row == [d.menus[id] EXCEPT !.pos = p]
  <2>1. id \in DOMAIN d.menus => DOMAIN row = DOMAIN d.menus[id] /\ row.loc = d.menus[id].loc /\ row.pos \in Nat
    BY <1>0 DEF MenuOK, RowOK
  <2> HIDE DEF row
  <2>2. TablesOK(Update(d, "menus", id, t, row)) BY <1>2, <2>1
  <2> QED BY <2>2 DEF SetMenuPosition, row
<1> QED BY <1>1, <1>3, <1>4

(* ... on categories, with a printer of the store, ...                       *)
LEMMA CatsOK ==
  ASSUME NEW d, TablesOK(d), NEW l \in Locations, NEW id, NEW t, NEW menu, NEW name, NEW avail, NEW printer, NEW p \in Nat
  PROVE  /\ (menu \in DOMAIN d.menus => d.menus[menu].loc = l) /\ printer \in d.printers[l] \cup {NONE}
               => TablesOK(CreateMenuCategory(d, l, menu, name, printer, p))
         /\ (id \in DOMAIN d.cats => printer \in d.printers[d.cats[id].loc] \cup {NONE})
               => TablesOK(UpdateMenuCategory(d, id, t, name, avail, printer))
         /\ TablesOK(SetCategoryPosition(d, id, t, p))
<1>0. /\ d.next \in Nat /\ Columns(d) /\ "cats" \in MenuTableNames
      /\ \A c \in DOMAIN d.cats : CatOK(d, c)
  BY DEF TablesOK, Columns, MenuTableNames
<1>1. ASSUME menu \in DOMAIN d.menus => d.menus[menu].loc = l, printer \in d.printers[l] \cup {NONE}
      PROVE  TablesOK(CreateMenuCategory(d, l, menu, name, printer, p))
  <2> DEFINE row == [loc |-> l, menu |-> menu, name |-> name, avail |-> TRUE, pos |-> p, printer |-> printer]
             e == Insert(d, "cats", row)
  <2>2. /\ DOMAIN row = {"loc", "menu", "name", "avail", "pos", "printer"}
        /\ row.loc = l /\ row.menu = menu /\ row.pos = p /\ row.printer = printer
    OBVIOUS
  <2>3. CreateMenuCategory(d, l, menu, name, printer, p) = IF menu \in DOMAIN d.menus THEN e ELSE d
    BY DEF CreateMenuCategory
  <2> HIDE DEF row
  <2>1. /\ DOMAIN e = DOMAIN d /\ e.next = d.next + 1
        /\ DOMAIN e.cats = DOMAIN d.cats \cup {d.next} /\ e.cats[d.next] = row
        /\ \A k \in DOMAIN d.cats \ {d.next} : e.cats[k] = d.cats[k]
        /\ \A x \in DOMAIN d \ {"cats", "next", "version"} : e[x] = d[x]
    BY <1>0, InsertIs DEF Columns
  <2> HIDE DEF e
  <2>4. SUFFICES ASSUME menu \in DOMAIN d.menus PROVE TablesOK(e) BY <2>3
  <2>5. Apart(d, e, {"cats"}) /\ e.printers = d.printers /\ e.menus = d.menus
    BY <1>0, <2>1 DEF Apart, Columns, MenuTableNames
  <2>6. ASSUME NEW c \in DOMAIN e.cats PROVE CatOK(e, c)
    <3>1. CASE c = d.next
      <4>1. e.cats[c] = row BY <2>1, <3>1
      <4>2. RowOK(e, "cats", c, {"loc", "menu", "name", "avail", "pos", "printer"})
        BY <1>0, <2>1, <2>2, <3>1, <4>1 DEF RowOK
      <4>3. PrinterOK(e, e.cats[c]) BY <1>1, <2>2, <2>5, <4>1 DEF PrinterOK
      <4>4. e.cats[c].menu \in DOMAIN e.menus /\ e.menus[e.cats[c].menu].loc = e.cats[c].loc
        BY <1>1, <2>2, <2>4, <2>5, <4>1
      <4> QED BY <4>2, <4>3, <4>4 DEF CatOK
    <3>2. CASE c # d.next
      <4>1. c \in DOMAIN d.cats /\ e.cats[c] = d.cats[c] BY <2>1, <3>2
      <4>2. CatOK(d, c) BY <1>0, <4>1
      <4>3. RowOK(e, "cats", c, {"loc", "menu", "name", "avail", "pos", "printer"})
        BY <1>0, <2>1, <4>1, <4>2 DEF CatOK, RowOK
      <4> QED BY <2>5, <4>1, <4>2, <4>3 DEF CatOK, PrinterOK
    <3> QED BY <3>1, <3>2
  <2>7. \A c \in DOMAIN d.cats : c \in DOMAIN e.cats /\ e.cats[c].loc = d.cats[c].loc
    BY <1>0, <2>1 DEF CatOK, RowOK
  <2> QED BY <2>5, <2>6, <2>7, CatsWritten
<1>2. ASSUME NEW row, id \in DOMAIN d.cats => /\ DOMAIN row = DOMAIN d.cats[id]
                                            /\ row.loc = d.cats[id].loc /\ row.menu = d.cats[id].menu
                                            /\ row.pos \in Nat /\ PrinterOK(d, row)
      PROVE  TablesOK(Update(d, "cats", id, t, row))
  <2> DEFINE e == Update(d, "cats", id, t, row)
  <2>1. /\ DOMAIN e = DOMAIN d /\ \A x \in DOMAIN d \ {"cats", "version"} : e[x] = d[x]
        /\ DOMAIN e.cats = DOMAIN d.cats
        /\ \A k \in DOMAIN d.cats \ {id} : e.cats[k] = d.cats[k]
        /\ id \in DOMAIN d.cats => e.cats[id] \in {d.cats[id], row}
    BY <1>0, UpdateIs DEF Columns
  <2> HIDE DEF e
  <2>2. Apart(d, e, {"cats"}) BY <1>0, <2>1 DEF Apart, Columns, MenuTableNames
  <2>3. e.next = d.next /\ e.menus = d.menus /\ e.printers = d.printers BY <1>0, <2>1 DEF Columns, MenuTableNames
  <2>4. ASSUME NEW c \in DOMAIN e.cats PROVE CatOK(e, c) /\ e.cats[c].loc = d.cats[c].loc
    <3>1. c \in DOMAIN d.cats /\ CatOK(d, c) BY <1>0, <2>1
    <3>2. CASE e.cats[c] = d.cats[c] BY <2>3, <3>1, <3>2 DEF CatOK, RowOK, PrinterOK
    <3>3. CASE e.cats[c] = row /\ c = id BY <1>2, <2>3, <3>1, <3>3 DEF CatOK, RowOK, PrinterOK
    <3> QED BY <2>1, <3>1, <3>2, <3>3
  <2> QED BY <2>1, <2>2, <2>4, CatsWritten DEF e
<1>3. ASSUME id \in DOMAIN d.cats => printer \in d.printers[d.cats[id].loc] \cup {NONE}
      PROVE  TablesOK(UpdateMenuCategory(d, id, t, name, avail, printer))
  <2> DEFINE row == [d.cats[id] EXCEPT !.name = name, !.avail = avail, !.printer = printer]
  <2>1. id \in DOMAIN d.cats => /\ DOMAIN row = DOMAIN d.cats[id] /\ row.loc = d.cats[id].loc
                               /\ row.menu = d.cats[id].menu /\ row.pos \in Nat /\ row.printer = printer
    BY <1>0 DEF CatOK, RowOK
  <2> HIDE DEF row
  <2>2. TablesOK(Update(d, "cats", id, t, row)) BY <1>2, <1>3, <2>1 DEF PrinterOK
  <2> QED BY <2>2 DEF UpdateMenuCategory, row
<1>4. TablesOK(SetCategoryPosition(d, id, t, p))
  <2> DEFINE row == [d.cats[id] EXCEPT !.pos = p]
  <2>1. id \in DOMAIN d.cats => /\ DOMAIN row = DOMAIN d.cats[id] /\ row.loc = d.cats[id].loc
                               /\ row.menu = d.cats[id].menu /\ row.pos \in Nat /\ row.printer = d.cats[id].printer
    BY <1>0 DEF CatOK, RowOK
  <2> HIDE DEF row
  <2>2. TablesOK(Update(d, "cats", id, t, row)) BY <1>0, <1>2, <2>1 DEF PrinterOK, CatOK
  <2> QED BY <2>2 DEF SetCategoryPosition, row
<1> QED BY <1>1, <1>3, <1>4

(* ... and on items.                                                         *)
LEMMA ItemsOK ==
  ASSUME NEW d, TablesOK(d), NEW l \in Locations, NEW id, NEW t, NEW cat, NEW name, NEW price, NEW inStock, NEW outUntil,
         NEW printer, NEW p \in Nat
  PROVE  /\ (cat \in DOMAIN d.cats => d.cats[cat].loc = l)
               => TablesOK(CreateMenuItem(d, l, cat, name, price, p))
         /\ TablesOK(UpdateMenuItem(d, id, t, name, price, inStock, outUntil))
         /\ (id \in DOMAIN d.items => printer \in d.printers[d.items[id].loc] \cup {NONE})
               => TablesOK(SetItemPrinter(d, id, t, printer))
         /\ TablesOK(SetItemPosition(d, id, t, p))
         /\ TablesOK(SetItemBank(d, id, t))
<1>0. /\ d.next \in Nat /\ Columns(d) /\ "items" \in MenuTableNames
      /\ \A i \in DOMAIN d.items : ItemOK(d, i)
  BY DEF TablesOK, Columns, MenuTableNames
<1>1. ASSUME cat \in DOMAIN d.cats => d.cats[cat].loc = l
      PROVE  TablesOK(CreateMenuItem(d, l, cat, name, price, p))
  <2> DEFINE row == [loc |-> l, cat |-> cat, name |-> name, price |-> price, inStock |-> TRUE,
                     outUntil |-> NONE, printer |-> NONE, pos |-> p]
             e == Insert(d, "items", row)
  <2>2. /\ DOMAIN row = {"loc", "cat", "name", "price", "inStock", "outUntil", "printer", "pos"}
        /\ row.loc = l /\ row.cat = cat /\ row.pos = p /\ row.printer = NONE
    OBVIOUS
  <2>3. CreateMenuItem(d, l, cat, name, price, p) = IF cat \in DOMAIN d.cats THEN e ELSE d
    BY DEF CreateMenuItem
  <2> HIDE DEF row
  <2>1. /\ DOMAIN e = DOMAIN d /\ e.next = d.next + 1
        /\ DOMAIN e.items = DOMAIN d.items \cup {d.next} /\ e.items[d.next] = row
        /\ \A k \in DOMAIN d.items \ {d.next} : e.items[k] = d.items[k]
        /\ \A x \in DOMAIN d \ {"items", "next", "version"} : e[x] = d[x]
    BY <1>0, InsertIs DEF Columns
  <2> HIDE DEF e
  <2>4. SUFFICES ASSUME cat \in DOMAIN d.cats PROVE TablesOK(e) BY <2>3
  <2>5. Apart(d, e, {"items"}) /\ e.printers = d.printers /\ e.cats = d.cats
    BY <1>0, <2>1 DEF Apart, Columns, MenuTableNames
  <2>6. ASSUME NEW i \in DOMAIN e.items PROVE ItemOK(e, i)
    <3>1. CASE i = d.next
      <4>1. e.items[i] = row BY <2>1, <3>1
      <4>2. RowOK(e, "items", i, {"loc", "cat", "name", "price", "inStock", "outUntil", "printer", "pos"})
        BY <1>0, <2>1, <2>2, <3>1, <4>1 DEF RowOK
      <4>3. PrinterOK(e, e.items[i]) BY <2>2, <2>5, <4>1 DEF PrinterOK
      <4>4. e.items[i].cat \in DOMAIN e.cats /\ e.cats[e.items[i].cat].loc = e.items[i].loc
        BY <1>1, <2>2, <2>4, <2>5, <4>1
      <4> QED BY <4>2, <4>3, <4>4 DEF ItemOK
    <3>2. CASE i # d.next
      <4>1. i \in DOMAIN d.items /\ e.items[i] = d.items[i] BY <2>1, <3>2
      <4>2. ItemOK(d, i) BY <1>0, <4>1
      <4>3. RowOK(e, "items", i, {"loc", "cat", "name", "price", "inStock", "outUntil", "printer", "pos"})
        BY <1>0, <2>1, <4>1, <4>2 DEF ItemOK, RowOK
      <4> QED BY <2>5, <4>1, <4>2, <4>3 DEF ItemOK, PrinterOK
    <3> QED BY <3>1, <3>2
  <2> QED BY <2>5, <2>6, ItemsWritten
<1>2. ASSUME NEW row, id \in DOMAIN d.items => /\ DOMAIN row = DOMAIN d.items[id]
                                             /\ row.loc = d.items[id].loc /\ row.cat = d.items[id].cat
                                             /\ row.pos \in Nat /\ PrinterOK(d, row)
      PROVE  TablesOK(Update(d, "items", id, t, row))
  <2> DEFINE e == Update(d, "items", id, t, row)
  <2>1. /\ DOMAIN e = DOMAIN d /\ \A x \in DOMAIN d \ {"items", "version"} : e[x] = d[x]
        /\ DOMAIN e.items = DOMAIN d.items
        /\ \A k \in DOMAIN d.items \ {id} : e.items[k] = d.items[k]
        /\ id \in DOMAIN d.items => e.items[id] \in {d.items[id], row}
    BY <1>0, UpdateIs DEF Columns
  <2> HIDE DEF e
  <2>2. Apart(d, e, {"items"}) BY <1>0, <2>1 DEF Apart, Columns, MenuTableNames
  <2>3. e.next = d.next /\ e.cats = d.cats /\ e.printers = d.printers BY <1>0, <2>1 DEF Columns, MenuTableNames
  <2>4. ASSUME NEW i \in DOMAIN e.items PROVE ItemOK(e, i)
    <3>1. i \in DOMAIN d.items /\ ItemOK(d, i) BY <1>0, <2>1
    <3>2. CASE e.items[i] = d.items[i] BY <2>3, <3>1, <3>2 DEF ItemOK, RowOK, PrinterOK
    <3>3. CASE e.items[i] = row /\ i = id BY <1>2, <2>3, <3>1, <3>3 DEF ItemOK, RowOK, PrinterOK
    <3> QED BY <2>1, <3>1, <3>2, <3>3
  <2> QED BY <2>2, <2>4, ItemsWritten DEF e
<1>3. TablesOK(UpdateMenuItem(d, id, t, name, price, inStock, outUntil))
  <2> DEFINE row == [d.items[id] EXCEPT !.name = name, !.price = price, !.inStock = inStock, !.outUntil = outUntil]
  <2>1. id \in DOMAIN d.items => /\ DOMAIN row = DOMAIN d.items[id] /\ row.loc = d.items[id].loc
                                /\ row.cat = d.items[id].cat /\ row.pos \in Nat /\ row.printer = d.items[id].printer
    BY <1>0 DEF ItemOK, RowOK
  <2> HIDE DEF row
  <2>2. TablesOK(Update(d, "items", id, t, row)) BY <1>0, <1>2, <2>1 DEF PrinterOK, ItemOK
  <2> QED BY <2>2 DEF UpdateMenuItem, row
<1>4. ASSUME id \in DOMAIN d.items => printer \in d.printers[d.items[id].loc] \cup {NONE}
      PROVE  TablesOK(SetItemPrinter(d, id, t, printer))
  <2> DEFINE row == [d.items[id] EXCEPT !.printer = printer]
  <2>1. id \in DOMAIN d.items => /\ DOMAIN row = DOMAIN d.items[id] /\ row.loc = d.items[id].loc
                                /\ row.cat = d.items[id].cat /\ row.pos \in Nat /\ row.printer = printer
    BY <1>0 DEF ItemOK, RowOK
  <2> HIDE DEF row
  <2>2. TablesOK(Update(d, "items", id, t, row)) BY <1>2, <1>4, <2>1 DEF PrinterOK
  <2> QED BY <2>2 DEF SetItemPrinter, row
<1>5. TablesOK(SetItemPosition(d, id, t, p))
  <2> DEFINE row == [d.items[id] EXCEPT !.pos = p]
  <2>1. id \in DOMAIN d.items => /\ DOMAIN row = DOMAIN d.items[id] /\ row.loc = d.items[id].loc
                                /\ row.cat = d.items[id].cat /\ row.pos \in Nat /\ row.printer = d.items[id].printer
    BY <1>0 DEF ItemOK, RowOK
  <2> HIDE DEF row
  <2>2. TablesOK(Update(d, "items", id, t, row)) BY <1>0, <1>2, <2>1 DEF PrinterOK, ItemOK
  <2> QED BY <2>2 DEF SetItemPosition, row
<1>6. TablesOK(SetItemBank(d, id, t)) BY <1>0, <1>2 DEF SetItemBank, ItemOK, RowOK
<1> QED BY <1>1, <1>3, <1>4, <1>5, <1>6

(* What is left when rows are deleted with everything that refers to them.   *)
LEMMA ItemsDropped ==
  ASSUME NEW d, TablesOK(d), NEW ids
  PROVE  LET e == DropItems(d, ids)
         IN  /\ TablesOK(e)
             /\ e.menus = d.menus /\ e.cats = d.cats /\ e.entries = d.entries /\ e.next = d.next
             /\ e.items = Without(d.items, ids) /\ e.printers = d.printers /\ e.views = d.views
<1> DEFINE e == DropItems(d, ids)
<1>0. d.next \in Nat /\ Columns(d) /\ \A i \in DOMAIN d.items : ItemOK(d, i) BY DEF TablesOK, Columns
<1>1. /\ Columns(e) /\ e.menus = d.menus /\ e.cats = d.cats /\ e.entries = d.entries /\ e.next = d.next
      /\ e.items = Without(d.items, ids) /\ e.printers = d.printers /\ e.views = d.views
  BY <1>0 DEF DropItems, Columns, MenuTableNames
<1> HIDE DEF e
<1>2. Apart(d, e, {"items"}) BY <1>0, <1>1 DEF Apart
<1>3. \A i \in DOMAIN e.items : ItemOK(e, i) BY <1>0, <1>1 DEF ItemOK, RowOK, PrinterOK, Without
<1>4. TablesOK(e) BY <1>2, <1>3, ItemsWritten
<1> QED BY <1>1, <1>4 DEF e

(* What is left when categories are deleted with their items.                *)
LEMMA CatsDropped ==
  ASSUME NEW d, TablesOK(d), NEW ids
  PROVE  LET e == DropCats(d, ids)
         IN  /\ TablesOK(e)
             /\ e.menus = d.menus /\ e.entries = d.entries /\ e.next = d.next
             /\ e.cats = Without(d.cats, ids) /\ e.printers = d.printers
<1> DEFINE lost == {i \in DOMAIN d.items : d.items[i].cat \in ids}
           m == DropItems(d, lost)
           e == DropCats(d, ids)
<1>1. /\ TablesOK(m) /\ m.menus = d.menus /\ m.cats = d.cats /\ m.entries = d.entries /\ m.next = d.next
      /\ m.items = Without(d.items, lost) /\ m.printers = d.printers
  BY ItemsDropped
<1>2. e = [m EXCEPT !.cats = Without(@, ids)] BY DEF DropCats
<1> HIDE DEF e, m
<1>3. /\ Columns(e) /\ e.menus = d.menus /\ e.entries = d.entries /\ e.next = d.next /\ e.items = m.items
      /\ e.cats = Without(d.cats, ids) /\ e.printers = d.printers
  BY <1>1, <1>2 DEF TablesOK, Columns, MenuTableNames
<1>4. d.next \in Nat /\ DOMAIN d.printers = Locations BY DEF TablesOK
<1>5. \A x \in DOMAIN e.menus : MenuOK(e, x) BY <1>3 DEF TablesOK, MenuOK, RowOK
<1>6. ASSUME NEW c \in DOMAIN e.cats PROVE CatOK(e, c)
  <2>1. c \in DOMAIN d.cats /\ e.cats[c] = d.cats[c] BY <1>3 DEF Without
  <2>2. CatOK(d, c) BY <2>1 DEF TablesOK
  <2> QED BY <1>3, <2>1, <2>2 DEF CatOK, RowOK, PrinterOK
<1>7. ASSUME NEW i \in DOMAIN e.items PROVE ItemOK(e, i)
  <2>1. i \in DOMAIN d.items /\ e.items[i] = d.items[i] /\ d.items[i].cat \notin ids BY <1>1, <1>3 DEF Without, lost
  <2>2. ItemOK(d, i) BY <2>1 DEF TablesOK
  <2>3. d.items[i].cat \in DOMAIN e.cats /\ e.cats[d.items[i].cat] = d.cats[d.items[i].cat]
    BY <1>3, <2>1, <2>2 DEF Without, ItemOK
  <2> QED BY <1>3, <2>1, <2>2, <2>3 DEF ItemOK, RowOK, PrinterOK
<1>8. \A x \in DOMAIN e.entries : EntryOK(e, x) BY <1>3 DEF TablesOK, EntryOK
<1>9. TablesOK(e) BY <1>3, <1>4, <1>5, <1>6, <1>7, <1>8 DEF TablesOK, Columns
<1> QED BY <1>3, <1>9 DEF e

(* The version triggers change no row.                                       *)
LEMMA BumpOK ==
  ASSUME NEW d, TablesOK(d), NEW l
  PROVE  TablesOK(Bump(d, l))
<1>1. Columns(d) /\ d.next \in Nat BY DEF TablesOK, Columns
<1>2. Apart(d, Bump(d, l), {}) BY <1>1, BumpIs DEF Apart, Columns, MenuTableNames
<1> QED BY <1>2, OthersWritten

(* The deletions of items, categories and menus keep the tables.             *)
LEMMA DeletesOK ==
  ASSUME NEW d, TablesOK(d), NEW id, NEW t
  PROVE  /\ TablesOK(DeleteMenuItem(d, id, t))
         /\ TablesOK(DeleteMenuCategory(d, id, t))
         /\ TablesOK(DeleteMenu(d, id, t))
<1>1. TablesOK(DeleteMenuItem(d, id, t)) BY ItemsDropped, BumpOK DEF DeleteMenuItem
<1>2. TablesOK(DeleteMenuCategory(d, id, t)) BY CatsDropped, BumpOK DEF DeleteMenuCategory
<1>3. TablesOK(DeleteMenu(d, id, t))
  <2> DEFINE lost == {c \in DOMAIN d.cats : d.cats[c].menu = id}
             m == DropCats(d, lost)
             e == [m EXCEPT !.menus = Without(@, {id})]
  <2>1. /\ TablesOK(m) /\ m.menus = d.menus /\ m.entries = d.entries /\ m.next = d.next
        /\ m.cats = Without(d.cats, lost) /\ m.printers = d.printers
    BY CatsDropped
  <2>2. DeleteMenu(d, id, t) = IF Found(d, "menus", id, t) THEN Bump(e, d.menus[id].loc) ELSE d BY DEF DeleteMenu
  <2> HIDE DEF m
  <2>3. /\ Columns(e) /\ e.entries = d.entries /\ e.next = d.next /\ e.cats = m.cats
        /\ e.menus = Without(d.menus, {id}) /\ e.printers = d.printers /\ e.items = m.items
    BY <2>1 DEF TablesOK, Columns, MenuTableNames
  <2> HIDE DEF e
  <2>4. d.next \in Nat /\ DOMAIN d.printers = Locations BY DEF TablesOK
  <2>5. \A x \in DOMAIN e.menus : MenuOK(e, x) BY <2>3 DEF TablesOK, MenuOK, RowOK, Without
  <2>6. ASSUME NEW c \in DOMAIN e.cats PROVE CatOK(e, c)
    <3>1. c \in DOMAIN d.cats /\ e.cats[c] = d.cats[c] /\ d.cats[c].menu # id BY <2>1, <2>3 DEF Without, lost
    <3>2. CatOK(d, c) BY <3>1 DEF TablesOK
    <3>3. d.cats[c].menu \in DOMAIN e.menus /\ e.menus[d.cats[c].menu] = d.menus[d.cats[c].menu]
      BY <2>3, <3>1, <3>2 DEF Without, CatOK
    <3> QED BY <2>3, <3>1, <3>2, <3>3 DEF CatOK, RowOK, PrinterOK
  <2>7. ASSUME NEW i \in DOMAIN e.items PROVE ItemOK(e, i)
    <3>1. ItemOK(m, i) BY <2>1, <2>3 DEF TablesOK
    <3>2. e.items = m.items /\ e.cats = m.cats /\ e.next = m.next /\ e.printers = m.printers BY <2>1, <2>3
    <3>3. RowOK(e, "items", i, {"loc", "cat", "name", "price", "inStock", "outUntil", "printer", "pos"})
      BY <3>1, <3>2 DEF ItemOK, RowOK
    <3> QED BY <3>1, <3>2, <3>3 DEF ItemOK, PrinterOK
  <2>8. \A x \in DOMAIN e.entries : EntryOK(e, x) BY <2>3 DEF TablesOK, EntryOK
  <2>9. TablesOK(e) BY <2>3, <2>4, <2>5, <2>6, <2>7, <2>8 DEF TablesOK, Columns
  <2> QED BY <2>2, <2>9, BumpOK
<1> QED BY <1>1, <1>2, <1>3

(* A printer that is taken away is no item's and no category's any more.     *)
LEMMA PrinterDeleted ==
  ASSUME NEW d, TablesOK(d), NEW l \in Locations, NEW p
  PROVE  TablesOK(DeletePrinter(d, l, p))
<1> DEFINE off(r) == IF r.printer = p THEN [r EXCEPT !.printer = NONE] ELSE r
           e == [d EXCEPT !.printers[l] = @ \ {p},
                          !.items = [i \in DOMAIN @ |-> off(@[i])], !.cats = [c \in DOMAIN @ |-> off(@[c])]]
<1>0. d.next \in Nat /\ Columns(d) /\ DOMAIN d.printers = Locations BY DEF TablesOK, Columns
<1>1. DeletePrinter(d, l, p) \in {e, Bump(e, l)} BY DEF DeletePrinter
<1>2. /\ Columns(e) /\ e.next = d.next /\ e.menus = d.menus /\ e.entries = d.entries
      /\ DOMAIN e.printers = Locations
      /\ \A k \in Locations : e.printers[k] = IF k = l THEN d.printers[k] \ {p} ELSE d.printers[k]
      /\ DOMAIN e.items = DOMAIN d.items /\ \A i \in DOMAIN d.items : e.items[i] = off(d.items[i])
      /\ DOMAIN e.cats = DOMAIN d.cats /\ \A c \in DOMAIN d.cats : e.cats[c] = off(d.cats[c])
  BY <1>0 DEF Columns, MenuTableNames
<1> HIDE DEF e
<1>3. \A r : "printer" \in DOMAIN r => /\ DOMAIN off(r) = DOMAIN r
                                      /\ \A x \in DOMAIN r \ {"printer"} : off(r)[x] = r[x]
                                      /\ off(r).printer = IF r.printer = p THEN NONE ELSE r.printer
  OBVIOUS
<1> HIDE DEF off
<1>4. \A x \in DOMAIN e.menus : MenuOK(e, x) BY <1>2 DEF TablesOK, MenuOK, RowOK
<1>5. ASSUME NEW c \in DOMAIN e.cats PROVE CatOK(e, c) /\ e.cats[c].loc = d.cats[c].loc
  <2>1. c \in DOMAIN d.cats /\ CatOK(d, c) /\ e.cats[c] = off(d.cats[c]) BY <1>2 DEF TablesOK
  <2>2. DOMAIN d.cats[c] = {"loc", "menu", "name", "avail", "pos", "printer"} BY <2>1 DEF CatOK, RowOK
  <2>3. /\ DOMAIN e.cats[c] = DOMAIN d.cats[c] /\ e.cats[c].loc = d.cats[c].loc /\ e.cats[c].menu = d.cats[c].menu
        /\ e.cats[c].pos = d.cats[c].pos
        /\ e.cats[c].printer = IF d.cats[c].printer = p THEN NONE ELSE d.cats[c].printer
    BY <1>3, <2>1, <2>2
  <2> QED BY <1>2, <2>1, <2>3 DEF CatOK, RowOK, PrinterOK
<1>6. ASSUME NEW i \in DOMAIN e.items PROVE ItemOK(e, i)
  <2>1. i \in DOMAIN d.items /\ ItemOK(d, i) /\ e.items[i] = off(d.items[i]) BY <1>2 DEF TablesOK
  <2>2. DOMAIN d.items[i] = {"loc", "cat", "name", "price", "inStock", "outUntil", "printer", "pos"}
    BY <2>1 DEF ItemOK, RowOK
  <2>3. /\ DOMAIN e.items[i] = DOMAIN d.items[i] /\ e.items[i].loc = d.items[i].loc /\ e.items[i].cat = d.items[i].cat
        /\ e.items[i].pos = d.items[i].pos
        /\ e.items[i].printer = IF d.items[i].printer = p THEN NONE ELSE d.items[i].printer
    BY <1>3, <2>1, <2>2
  <2>4. d.items[i].cat \in DOMAIN e.cats /\ e.cats[d.items[i].cat].loc = d.cats[d.items[i].cat].loc
    BY <1>2, <1>5, <2>1 DEF ItemOK
  <2> QED BY <1>2, <2>1, <2>3, <2>4 DEF ItemOK, RowOK, PrinterOK
<1>7. \A x \in DOMAIN e.entries : EntryOK(e, x) BY <1>2 DEF TablesOK, EntryOK
<1>8. TablesOK(e) BY <1>0, <1>2, <1>4, <1>5, <1>6, <1>7 DEF TablesOK, Columns
<1> QED BY <1>1, <1>8, BumpOK

(* The entries of views.                                                     *)
MergeOK(e) == e.kind = "merge" => e.anchors \in Seq(Nat) /\ Len(e.anchors) >= 2

(* The statements on entries keep the tables when the entry is well formed.  *)
LEMMA EntriesOK ==
  ASSUME NEW d, TablesOK(d), NEW id, NEW view, NEW en
  PROVE  /\ MergeOK(en) => TablesOK(CreateMenuViewEntry(d, view, en))
         /\ MergeOK(en) /\ id \in DOMAIN d.entries /\ en.kind = d.entries[id].kind => TablesOK(UpdateMenuViewEntry(d, id, en))
         /\ TablesOK(DeleteMenuViewEntry(d, id))
<1>0. d.next \in Nat /\ Columns(d) /\ "entries" \in MenuTableNames BY DEF TablesOK, Columns, MenuTableNames
<1>1. ASSUME MergeOK(en) PROVE TablesOK(CreateMenuViewEntry(d, view, en))
  <2> DEFINE row == [en EXCEPT !.view = view, !.loc = d.views[view].loc]
             e == Insert(d, "entries", row)
  <2>1. MergeOK(row) BY <1>1 DEF MergeOK
  <2> HIDE DEF row
  <2>2. /\ DOMAIN e = DOMAIN d /\ e.next = d.next + 1
        /\ DOMAIN e.entries = DOMAIN d.entries \cup {d.next} /\ e.entries[d.next] = row
        /\ \A k \in DOMAIN d.entries \ {d.next} : e.entries[k] = d.entries[k]
        /\ \A x \in DOMAIN d \ {"entries", "next", "version"} : e[x] = d[x]
    <3>1. "entries" \in MenuTableNames /\ DOMAIN d = MenuTableNames \cup {"next", "version", "printers"}
      BY <1>0 DEF Columns
    <3> HIDE DEF e
    <3>2. e = Insert(d, "entries", row) BY DEF e
    <3> QED BY <3>1, <3>2, InsertIs
  <2> HIDE DEF e
  <2>3. Apart(d, e, {"entries"}) BY <1>0, <2>2 DEF Apart, Columns, MenuTableNames
  <2>4. \A k \in DOMAIN e.entries : EntryOK(e, k) BY <2>1, <2>2 DEF EntryOK, MergeOK, TablesOK
  <2>5. TablesOK(e) BY <2>3, <2>4, EntriesWritten
  <2> QED BY <2>5 DEF CreateMenuViewEntry, e, row
<1>2. ASSUME MergeOK(en), id \in DOMAIN d.entries, en.kind = d.entries[id].kind
      PROVE  TablesOK(UpdateMenuViewEntry(d, id, en))
  <2> DEFINE row == [en EXCEPT !.view = d.entries[id].view, !.kind = d.entries[id].kind, !.loc = d.entries[id].loc]
             e == [d EXCEPT !.entries[id] = row]
  <2>1. MergeOK(row) BY <1>2 DEF MergeOK
  <2>2. UpdateMenuViewEntry(d, id, en) = Bump(e, d.entries[id].loc) BY DEF UpdateMenuViewEntry
  <2> HIDE DEF row
  <2>3. Apart(d, e, {"entries"}) /\ e.entries = [d.entries EXCEPT ![id] = row]
    BY <1>0 DEF Apart, Columns, MenuTableNames
  <2> HIDE DEF e
  <2>4. \A k \in DOMAIN e.entries : EntryOK(e, k) BY <1>2, <2>1, <2>3 DEF EntryOK, MergeOK, TablesOK
  <2>5. TablesOK(e) BY <2>3, <2>4, EntriesWritten
  <2> QED BY <2>2, <2>5, BumpOK
<1>3. TablesOK(DeleteMenuViewEntry(d, id))
  <2> DEFINE e == DropEntries(d, {id})
  <2>1. Apart(d, e, {"entries"}) /\ e.entries = Without(d.entries, {id})
    BY <1>0 DEF DropEntries, Apart, Columns, MenuTableNames
  <2> HIDE DEF e
  <2>2. \A k \in DOMAIN e.entries : EntryOK(e, k) BY <2>1 DEF EntryOK, TablesOK, Without
  <2>3. TablesOK(e) BY <2>1, <2>2, EntriesWritten
  <2> QED BY <2>3, BumpOK DEF DeleteMenuViewEntry, e
<1> QED BY <1>1, <1>2, <1>3

----------------------------------------------------------------------------
(* The first of some rows.                                                   *)

(* A nonempty set of numbers has a least one.                                *)
LEMMA LeastExists ==
  ASSUME NEW S \in SUBSET Nat, S # {}
  PROVE  \E m \in S : \A y \in S : m <= y
<1>1. PICK t \in S : \A u \in S : ~(<<u, t>> \in OpToRel(<, Nat))
  BY NatLessThanWellFounded, WFMin
<1>2. \A y \in S : t <= y
  <2>1. SUFFICES ASSUME NEW y \in S, ~(t <= y) PROVE FALSE OBVIOUS
  <2>2. y < t /\ y \in Nat /\ t \in Nat BY <2>1
  <2> QED BY <1>1, <2>2 DEF OpToRel
<1> QED BY <1>2

(* Of things with a number one has the least.                                *)
LEMMA LeastBy ==
  ASSUME NEW S, S # {}, NEW f, \A x \in S : f[x] \in Nat
  PROVE  \E m \in S : \A y \in S : f[m] <= f[y]
<1> DEFINE T == {f[x] : x \in S}
<1>1. T \in SUBSET Nat /\ T # {} OBVIOUS
<1>2. PICK t \in T : \A y \in T : t <= y
  <2> HIDE DEF T
  <2> QED BY <1>1, LeastExists
<1>3. PICK m \in S : f[m] = t OBVIOUS
<1> QED BY <1>2, <1>3

(* Of rows with a position one comes before all others.                      *)
LEMMA FirstRowIs ==
  ASSUME NEW table, NEW S, S \in SUBSET Nat, S # {}, \A x \in S : table[x].pos \in Nat
  PROVE  \E a \in S : \A b \in S \ {a} : Before(table, a, b)
<1> DEFINE f == [x \in S |-> table[x].pos]
<1>1. PICK m \in S : \A y \in S : f[m] <= f[y]
  <2>1. \A x \in S : f[x] \in Nat OBVIOUS
  <2> HIDE DEF f
  <2> QED BY <2>1, LeastBy
<1> DEFINE T == {x \in S : table[x].pos = table[m].pos}
<1>2. PICK a \in T : \A y \in T : a <= y
  <2>1. T \in SUBSET Nat /\ T # {} OBVIOUS
  <2> HIDE DEF T
  <2> QED BY <2>1, LeastExists
<1>3. ASSUME NEW b \in S \ {a} PROVE Before(table, a, b)
  <2>1. table[a].pos <= table[b].pos /\ table[a].pos \in Nat /\ table[b].pos \in Nat BY <1>1
  <2>2. CASE table[a].pos < table[b].pos BY <2>2 DEF Before
  <2>3. CASE table[a].pos = table[b].pos
    <3>1. b \in T BY <2>3
    <3>2. a <= b /\ a # b /\ a \in Nat /\ b \in Nat BY <1>2, <3>1
    <3> QED BY <2>3, <3>2 DEF Before
  <2> QED BY <2>1, <2>2, <2>3
<1> QED BY <1>3

(* A look-up by name finds one of the rows, or none.                         *)
LEMMA FirstNamedIs ==
  ASSUME NEW table, NEW ids, ids \in SUBSET Nat, \A x \in ids : table[x].pos \in Nat, NEW name
  PROVE  FirstNamed(table, ids, name) \in ids \cup {NONE}
<1> DEFINE hits == {id \in ids : table[id].name = name}
<1>1. CASE hits = {} BY <1>1 DEF FirstNamed
<1>2. CASE hits # {}
  <2>1. \E a \in hits : \A b \in hits \ {a} : Before(table, a, b)
    <3>1. hits \in SUBSET Nat /\ \A x \in hits : table[x].pos \in Nat OBVIOUS
    <3> HIDE DEF hits
    <3> QED BY <1>2, <3>1, FirstRowIs
  <2> QED BY <1>2, <2>1 DEF FirstNamed
<1> QED BY <1>1, <1>2

(* The printer a category's rows name most is one of the printers they name. *)
LEMMA MostCommonIs ==
  ASSUME NEW file, NEW len \in Nat, DOMAIN file = 1..len, NEW n, NEW P, \A k \in DOMAIN file : file[k].printer \in P \cup {NONE}
  PROVE  MostCommonPrinter(file, n) \in P \cup {NONE}
<1> DEFINE naming == {k \in RowsOfCat(file, n) : file[k].printer # NONE}
           count(k) == Cardinality({j \in naming : j <= k /\ file[j].printer = file[k].printer})
           f == [k \in naming |-> len - count(k)]
<1>1. naming \in SUBSET (1..len) BY DEF RowsOfCat
<1>2. CASE naming = {} BY <1>2 DEF MostCommonPrinter
<1>3. CASE naming # {}
  <2>1. \A k \in naming : count(k) \in 0..len
    <3> TAKE k \in naming
    <3> DEFINE c == {j \in naming : j <= k /\ file[j].printer = file[k].printer}
    <3>1. c \in SUBSET (1..len) BY <1>1
    <3>2. IsFiniteSet(1..len) /\ Cardinality(1..len) = len BY FS_Interval
    <3> DEFINE U == 1..len
    <3>3. c \in SUBSET U /\ IsFiniteSet(U) /\ Cardinality(U) = len BY <3>1, <3>2
    <3> HIDE DEF naming, c, U
    <3>4. IsFiniteSet(c) /\ Cardinality(c) <= len BY <3>3, FS_Subset
    <3>5. Cardinality(c) \in Nat BY <3>4, FS_CardinalityType
    <3> QED BY <3>4, <3>5 DEF c
  <2> HIDE DEF count
  <2>2. \A k \in naming : f[k] \in Nat BY <2>1
  <2>3. PICK m \in naming : \A k \in naming : f[m] <= f[k]
    <3> HIDE DEF naming, f
    <3> QED BY <1>3, <2>2, LeastBy
  <2>4. ASSUME NEW k \in naming PROVE count(k) <= count(m)
    <3>1. f[m] = len - count(m) /\ f[k] = len - count(k) /\ f[m] <= f[k] BY <2>3
    <3>2. count(k) \in 0..len /\ count(m) \in 0..len BY <2>1
    <3> HIDE DEF f
    <3> QED BY <3>1, <3>2
  <2> DEFINE T == {k \in naming : count(k) = count(m)}
  <2>5. T \in SUBSET Nat /\ T # {} BY <1>1
  <2>6. PICK b \in T : \A k \in T : b <= k
    <3> HIDE DEF T
    <3> QED BY <2>5, LeastExists
  <2>7. b \in naming /\ \A j \in naming : count(j) < count(b) \/ (count(j) = count(b) /\ b <= j)
    BY <2>1, <2>4, <2>6
  <2>8. \A k \in naming : file[k].printer \in P BY DEF RowsOfCat
  <2> DEFINE best == CHOOSE k \in naming : \A j \in naming : count(j) < count(k) \/ (count(j) = count(k) /\ k <= j)
  <2>9. best \in naming
    <3> HIDE DEF naming
    <3> QED BY <2>7
  <2>10. MostCommonPrinter(file, n) = file[best].printer BY <1>3 DEF MostCommonPrinter, count
  <2> HIDE DEF best
  <2> QED BY <2>8, <2>9, <2>10
<1> QED BY <1>2, <1>3

(* Of items with a routing row one is better than all others.                *)
LEMMA BestRouteIs ==
  ASSUME NEW d, NEW S, S # {}, \A i \in S : i \in Nat /\ \A n \in 1..5 : RoutingKey(d, i)[n] \in Nat
  PROVE  \E a \in S : \A b \in S \ {a} : BetterRoute(d, a, b)
<1> DEFINE k1 == [i \in S |-> RoutingKey(d, i)[1]]
           k2 == [i \in S |-> RoutingKey(d, i)[2]]
           k3 == [i \in S |-> RoutingKey(d, i)[3]]
           k4 == [i \in S |-> RoutingKey(d, i)[4]]
<1>1. \A i \in S : i \in Nat /\ k1[i] \in Nat /\ k2[i] \in Nat /\ k3[i] \in Nat /\ k4[i] \in Nat OBVIOUS
<1>2. \A i \in S : /\ RoutingKey(d, i)[1] = k1[i] /\ RoutingKey(d, i)[2] = k2[i] /\ RoutingKey(d, i)[3] = k3[i]
                   /\ RoutingKey(d, i)[4] = k4[i] /\ RoutingKey(d, i)[5] = i
  BY DEF RoutingKey
<1> HIDE DEF k1, k2, k3, k4
<1>3. PICK a1 \in S : \A y \in S : k1[a1] <= k1[y] BY <1>1, LeastBy
<1> DEFINE T1 == {y \in S : k1[y] = k1[a1]}
<1>4. PICK a2 \in T1 : \A y \in T1 : k2[a2] <= k2[y]
  <2>1. T1 # {} /\ \A y \in T1 : k2[y] \in Nat BY <1>1
  <2> HIDE DEF T1
  <2> QED BY <2>1, LeastBy
<1> DEFINE T2 == {y \in T1 : k2[y] = k2[a2]}
<1>5. PICK a3 \in T2 : \A y \in T2 : k3[a3] <= k3[y]
  <2>1. T2 # {} /\ \A y \in T2 : k3[y] \in Nat BY <1>1
  <2> HIDE DEF T2
  <2> QED BY <2>1, LeastBy
<1> DEFINE T3 == {y \in T2 : k3[y] = k3[a3]}
<1>6. PICK a4 \in T3 : \A y \in T3 : k4[a4] <= k4[y]
  <2>1. T3 # {} /\ \A y \in T3 : k4[y] \in Nat BY <1>1
  <2> HIDE DEF T3
  <2> QED BY <2>1, LeastBy
<1> DEFINE T4 == {y \in T3 : k4[y] = k4[a4]}
<1>7. PICK a5 \in T4 : \A y \in T4 : a5 <= y
  <2>1. T4 # {} /\ T4 \in SUBSET Nat BY <1>1
  <2> HIDE DEF T4
  <2> QED BY <2>1, LeastExists
<1>8. ASSUME NEW b \in S \ {a5} PROVE BetterRoute(d, a5, b)
  <2>1. \/ k1[a5] < k1[b]
        \/ k1[a5] = k1[b] /\ k2[a5] < k2[b]
        \/ k1[a5] = k1[b] /\ k2[a5] = k2[b] /\ k3[a5] < k3[b]
        \/ k1[a5] = k1[b] /\ k2[a5] = k2[b] /\ k3[a5] = k3[b] /\ k4[a5] < k4[b]
        \/ k1[a5] = k1[b] /\ k2[a5] = k2[b] /\ k3[a5] = k3[b] /\ k4[a5] = k4[b] /\ a5 < b
    BY <1>1, <1>3, <1>4, <1>5, <1>6, <1>7
  <2> DEFINE A == RoutingKey(d, a5)
             B == RoutingKey(d, b)
  <2>2. /\ A[1] = k1[a5] /\ A[2] = k2[a5] /\ A[3] = k3[a5] /\ A[4] = k4[a5] /\ A[5] = a5
        /\ B[1] = k1[b] /\ B[2] = k2[b] /\ B[3] = k3[b] /\ B[4] = k4[b] /\ B[5] = b
    BY <1>2
  <2> HIDE DEF A, B
  <2>3. \E n \in 1..5 : A[n] < B[n] /\ \A k \in 1..(n - 1) : A[k] = B[k]
    <3>1. 1..0 = {} /\ 1..1 = {1} /\ 1..2 = {1, 2} /\ 1..3 = {1, 2, 3} /\ 1..4 = {1, 2, 3, 4} OBVIOUS
    <3> QED BY <2>1, <2>2, <3>1
  <2> QED BY <2>3 DEF BetterRoute, A, B
<1> QED BY <1>8

----------------------------------------------------------------------------
(* The writes of an import.                                                  *)

(* The rows of the menu tables have ids below next, and so there are finitely *)
(* many of them.                                                             *)
LEMMA RowsIn ==
  ASSUME NEW d, TablesOK(d), NEW ids, ids \in SUBSET DOMAIN d.menus \/ ids \in SUBSET DOMAIN d.cats \/ ids \in SUBSET DOMAIN d.items
  PROVE  /\ ids \in SUBSET Nat /\ NONE \notin ids /\ IsFiniteSet(ids) /\ Cardinality(ids) \in Nat
<1>1. d.next \in Nat /\ ids \in SUBSET (0..d.next - 1) BY DEF TablesOK, MenuOK, CatOK, ItemOK, RowOK
<1>2. IsFiniteSet(0..d.next - 1) BY <1>1, FS_Interval
<1>3. IsFiniteSet(ids)
  <2> DEFINE U == 0..d.next - 1
  <2>1. ids \in SUBSET U /\ IsFiniteSet(U) BY <1>1, <1>2
  <2> HIDE DEF U
  <2> QED BY <2>1, FS_Subset
<1>4. Cardinality(ids) \in Nat BY <1>3, FS_CardinalityType
<1>5. NONE \notin Nat BY BankAssumption
<1>6. ids \in SUBSET Nat BY <1>1
<1> QED BY <1>3, <1>4, <1>5, <1>6

(* A statement on the menu tables leaves the printers alone.                 *)
LEMMA PrintersStay ==
  ASSUME NEW d, TablesOK(d)
  PROVE  /\ \A table \in MenuTableNames : \A row : Insert(d, table, row).printers = d.printers
         /\ \A table \in MenuTableNames : \A id, t, row : Update(d, table, id, t, row).printers = d.printers
         /\ \A id, t : DeleteMenu(d, id, t).printers = d.printers
<1>1. Columns(d) BY DEF TablesOK, Columns
<1>2. ASSUME NEW table \in MenuTableNames PROVE "printers" \in DOMAIN d \ {table, "next", "version"}
  BY <1>1 DEF Columns, MenuTableNames
<1>3. ASSUME NEW table \in MenuTableNames, NEW row PROVE Insert(d, table, row).printers = d.printers
  BY <1>1, <1>2, InsertIs DEF Columns
<1>4. ASSUME NEW table \in MenuTableNames, NEW id, NEW t, NEW row PROVE Update(d, table, id, t, row).printers = d.printers
  BY <1>1, <1>2, UpdateIs DEF Columns
<1>5. ASSUME NEW id, NEW t PROVE DeleteMenu(d, id, t).printers = d.printers
  <2> DEFINE m == DropCats(d, {c \in DOMAIN d.cats : d.cats[c].menu = id})
             e == [m EXCEPT !.menus = Without(@, {id})]
  <2>1. TablesOK(m) /\ m.printers = d.printers BY CatsDropped
  <2>2. DeleteMenu(d, id, t) \in {d, Bump(e, d.menus[id].loc)} BY DEF DeleteMenu
  <2> HIDE DEF m
  <2>3. DOMAIN e = DOMAIN m /\ e.printers = m.printers OBVIOUS
  <2>4. {"printers", "version"} \subseteq DOMAIN m BY <2>1 DEF TablesOK
  <2> HIDE DEF e
  <2>5. Bump(e, d.menus[id].loc).printers = e.printers BY <2>3, <2>4, BumpIs
  <2> QED BY <2>1, <2>2, <2>3, <2>5
<1> QED BY <1>3, <1>4, <1>5

(* The menu, the category and the item of a row, by their names.             *)
LEMMA NamedRows ==
  ASSUME NEW d, TablesOK(d), NEW l, NEW m, NEW c, NEW r
  PROVE  /\ MenuNamed(d, l, m) \in DOMAIN d.menus => d.menus[MenuNamed(d, l, m)].loc = l
         /\ MenuNamed(d, l, m) \in OfLocation(d.menus, l) \cup {NONE}
         /\ CatNamed(d, l, m, c) \in DOMAIN d.cats \cup {NONE}
         /\ CatNamed(d, l, m, c) \in DOMAIN d.cats => d.cats[CatNamed(d, l, m, c)].loc = l
         /\ ItemNamed(d, l, r) \in DOMAIN d.items \cup {NONE}
         /\ ItemNamed(d, l, r) \in DOMAIN d.items => d.items[ItemNamed(d, l, r)].loc = l
<1>1. /\ NONE \notin DOMAIN d.menus /\ DOMAIN d.menus \in SUBSET Nat
      /\ NONE \notin DOMAIN d.cats /\ DOMAIN d.cats \in SUBSET Nat
      /\ NONE \notin DOMAIN d.items /\ DOMAIN d.items \in SUBSET Nat
  BY RowsIn
<1>2. /\ \A x \in DOMAIN d.menus : d.menus[x].pos \in Nat
      /\ \A x \in DOMAIN d.cats : /\ d.cats[x].pos \in Nat /\ d.cats[x].menu \in DOMAIN d.menus
                                  /\ d.menus[d.cats[x].menu].loc = d.cats[x].loc
      /\ \A x \in DOMAIN d.items : /\ d.items[x].pos \in Nat /\ d.items[x].cat \in DOMAIN d.cats
                                   /\ d.cats[d.items[x].cat].loc = d.items[x].loc
  BY DEF TablesOK, MenuOK, CatOK, ItemOK, RowOK
<1>3. \A n : MenuNamed(d, l, n) \in OfLocation(d.menus, l) \cup {NONE}
  <2> TAKE n
  <2> DEFINE ids == OfLocation(d.menus, l)
  <2>1. ids \in SUBSET Nat /\ \A x \in ids : d.menus[x].pos \in Nat BY <1>1, <1>2 DEF OfLocation
  <2> HIDE DEF ids
  <2>2. FirstNamed(d.menus, ids, n) \in ids \cup {NONE} BY <2>1, FirstNamedIs
  <2> QED BY <2>2 DEF MenuNamed, ListMenusByLocation, ids
<1>4. \A n, k : CatNamed(d, l, n, k) \in {x \in DOMAIN d.cats : d.cats[x].loc = l} \cup {NONE}
  <2> TAKE n, k
  <2> DEFINE menu == MenuNamed(d, l, n)
             ids == ListCategoriesByMenu(d, menu)
  <2>1. ids \in SUBSET DOMAIN d.cats /\ \A x \in ids : d.cats[x].menu = menu BY DEF ListCategoriesByMenu
  <2>2. menu \in OfLocation(d.menus, l) \cup {NONE} BY <1>3
  <2>3. CatNamed(d, l, n, k) = FirstNamed(d.cats, ids, k) BY DEF CatNamed
  <2> HIDE DEF ids, menu
  <2>4. FirstNamed(d.cats, ids, k) \in ids \cup {NONE} BY <1>1, <1>2, <2>1, FirstNamedIs
  <2>5. \A x \in ids : d.cats[x].loc = l BY <1>1, <1>2, <2>1, <2>2 DEF OfLocation
  <2> QED BY <2>1, <2>3, <2>4, <2>5
<1>5. ItemNamed(d, l, r) \in {x \in DOMAIN d.items : d.items[x].loc = l} \cup {NONE}
  <2> DEFINE cat == CatNamed(d, l, r.menu, r.cat)
             ids == ListItemsByCategory(d, cat)
  <2>1. ids \in SUBSET DOMAIN d.items /\ \A x \in ids : d.items[x].cat = cat BY DEF ListItemsByCategory
  <2>2. cat \in {x \in DOMAIN d.cats : d.cats[x].loc = l} \cup {NONE} BY <1>4
  <2>3. ItemNamed(d, l, r) = FirstNamed(d.items, ids, r.item) BY DEF ItemNamed
  <2> HIDE DEF ids, cat
  <2>4. FirstNamed(d.items, ids, r.item) \in ids \cup {NONE} BY <1>1, <1>2, <2>1, FirstNamedIs
  <2>5. \A x \in ids : d.items[x].loc = l BY <1>1, <1>2, <2>1, <2>2
  <2> QED BY <2>1, <2>3, <2>4, <2>5
<1> QED BY <1>1, <1>3, <1>4, <1>5 DEF OfLocation

(* An import that writes a menu, ...                                         *)
LEMMA MenuWritten ==
  ASSUME NEW d, TablesOK(d), NEW l \in Locations, NEW r
  PROVE  TablesOK(WriteMenu(d, l, r)) /\ WriteMenu(d, l, r).printers = d.printers
<1> DEFINE p == Cardinality(ListMenusByLocation(d, l))
<1>1. p \in Nat BY RowsIn DEF ListMenusByLocation, OfLocation
<1>2. WriteMenu(d, l, r) \in {d, CreateMenu(d, l, r.menu, p)} BY DEF WriteMenu
<1> HIDE DEF p
<1>3. TablesOK(CreateMenu(d, l, r.menu, p)) BY <1>1, MenusOK
<1>4. CreateMenu(d, l, r.menu, p).printers = d.printers BY PrintersStay DEF CreateMenu, MenuTableNames
<1> QED BY <1>2, <1>3, <1>4

(* ... a category with a printer of the store, ...                           *)
LEMMA CategoryWritten ==
  ASSUME NEW d, TablesOK(d), NEW l \in Locations, NEW r, NEW printer \in d.printers[l] \cup {NONE}
  PROVE  TablesOK(WriteCategory(d, l, r, printer)) /\ WriteCategory(d, l, r, printer).printers = d.printers
<1> DEFINE m == MenuNamed(d, l, r.menu)
           c == CatNamed(d, l, r.menu, r.cat)
           p == Cardinality(ListCategoriesByMenu(d, m))
<1>1. p \in Nat BY RowsIn DEF ListCategoriesByMenu
<1>2. /\ m \in DOMAIN d.menus => d.menus[m].loc = l
      /\ c \in DOMAIN d.cats => d.cats[c].loc = l
  BY NamedRows
<1>3. WriteCategory(d, l, r, printer) \in
         {d, CreateMenuCategory(d, l, m, r.cat, printer, p),
          UpdateMenuCategory(d, c, TenantOf[l], d.cats[c].name, d.cats[c].avail, printer)}
  BY DEF WriteCategory
<1> HIDE DEF m, c, p
<1>4. /\ TablesOK(CreateMenuCategory(d, l, m, r.cat, printer, p))
      /\ TablesOK(UpdateMenuCategory(d, c, TenantOf[l], d.cats[c].name, d.cats[c].avail, printer))
  BY <1>1, <1>2, CatsOK
<1>5. /\ CreateMenuCategory(d, l, m, r.cat, printer, p).printers = d.printers
      /\ UpdateMenuCategory(d, c, TenantOf[l], d.cats[c].name, d.cats[c].avail, printer).printers = d.printers
  BY PrintersStay DEF CreateMenuCategory, UpdateMenuCategory, MenuTableNames
<1> QED BY <1>3, <1>4, <1>5

(* ... an item, ...                                                          *)
LEMMA ItemWritten ==
  ASSUME NEW d, TablesOK(d), NEW l \in Locations, NEW r
  PROVE  TablesOK(WriteItem(d, l, r)) /\ WriteItem(d, l, r).printers = d.printers
<1> DEFINE c == CatNamed(d, l, r.menu, r.cat)
           i == ItemNamed(d, l, r)
           p == Cardinality(ListItemsByCategory(d, c))
           price == IF r.price = NONE THEN 0 ELSE r.price
<1>1. p \in Nat BY RowsIn DEF ListItemsByCategory
<1>2. c \in DOMAIN d.cats => d.cats[c].loc = l BY NamedRows
<1>3. WriteItem(d, l, r) \in
         {d, CreateMenuItem(d, l, c, r.item, price, p),
          UpdateMenuItem(d, i, TenantOf[l], d.items[i].name, r.price, d.items[i].inStock, d.items[i].outUntil)}
  BY DEF WriteItem
<1> HIDE DEF c, i, p, price
<1>4. /\ TablesOK(CreateMenuItem(d, l, c, r.item, price, p))
      /\ TablesOK(UpdateMenuItem(d, i, TenantOf[l], d.items[i].name, r.price, d.items[i].inStock, d.items[i].outUntil))
  BY <1>1, <1>2, ItemsOK
<1>5. /\ CreateMenuItem(d, l, c, r.item, price, p).printers = d.printers
      /\ UpdateMenuItem(d, i, TenantOf[l], d.items[i].name, r.price, d.items[i].inStock, d.items[i].outUntil).printers = d.printers
  BY PrintersStay DEF CreateMenuItem, UpdateMenuItem, MenuTableNames
<1> QED BY <1>3, <1>4, <1>5

(* ... or an item's printer keeps the tables and the printers.               *)
LEMMA PrinterWritten ==
  ASSUME NEW d, TablesOK(d), NEW l \in Locations, NEW r, r.printer \in d.printers[l] \cup {NONE}
  PROVE  TablesOK(WritePrinter(d, l, r)) /\ WritePrinter(d, l, r).printers = d.printers
<1> DEFINE i == ItemNamed(d, l, r)
           target == IF d.cats[CatNamed(d, l, r.menu, r.cat)].printer = r.printer THEN NONE ELSE r.printer
<1>1. i \in DOMAIN d.items => d.items[i].loc = l BY NamedRows
<1>2. WritePrinter(d, l, r) \in {d, SetItemPrinter(d, i, TenantOf[l], target)} BY DEF WritePrinter
<1>3. target \in d.printers[l] \cup {NONE} OBVIOUS
<1> HIDE DEF i, target
<1>4. TablesOK(SetItemPrinter(d, i, TenantOf[l], target)) BY <1>1, <1>3, ItemsOK
<1>5. SetItemPrinter(d, i, TenantOf[l], target).printers = d.printers BY PrintersStay DEF SetItemPrinter, MenuTableNames
<1> QED BY <1>2, <1>4, <1>5

(* So does every write of an import whose printers are known.                *)
LEMMA WriteOK ==
  ASSUME NEW d, TablesOK(d), NEW l \in Locations, NEW file \in Files, PrintersKnown(d, l, file), NEW w,
         w.op = "delete" \/ (w.op \in {"menu", "category", "item", "printer"} /\ w.at \in DOMAIN file)
  PROVE  TablesOK(Write(d, l, file, w)) /\ Write(d, l, file, w).printers = d.printers
<1>1. CASE w.op = "delete"
  <2>1. Write(d, l, file, w) = DeleteMenu(d, w.at, TenantOf[l]) BY <1>1 DEF Write
  <2> QED BY <2>1, DeletesOK, PrintersStay
<1>2. CASE w.op = "menu" /\ w.at \in DOMAIN file
  <2>1. Write(d, l, file, w) = WriteMenu(d, l, file[w.at]) BY <1>2 DEF Write
  <2> QED BY <2>1, MenuWritten
<1>3. CASE w.op = "category" /\ w.at \in DOMAIN file
  <2> DEFINE p == MostCommonPrinter(file, w.at)
  <2>1. Write(d, l, file, w) = WriteCategory(d, l, file[w.at], p) BY <1>3 DEF Write
  <2>2. p \in d.printers[l] \cup {NONE}
    BY MostCommonIs, BankAssumption DEF PrintersKnown
  <2> HIDE DEF p
  <2> QED BY <2>1, <2>2, CategoryWritten
<1>4. CASE w.op = "item" /\ w.at \in DOMAIN file
  <2>1. Write(d, l, file, w) = WriteItem(d, l, file[w.at]) BY <1>4 DEF Write
  <2> QED BY <2>1, ItemWritten
<1>5. CASE w.op = "printer" /\ w.at \in DOMAIN file
  <2>1. Write(d, l, file, w) = WritePrinter(d, l, file[w.at]) BY <1>5 DEF Write
  <2>2. file[w.at].printer \in d.printers[l] \cup {NONE} BY <1>5 DEF PrintersKnown
  <2> QED BY <2>1, <2>2, PrinterWritten
<1> QED BY <1>1, <1>2, <1>3, <1>4, <1>5

----------------------------------------------------------------------------
(* What every reachable state keeps: tables whose rows fit together, and an  *)
(* import that writes what its file asks for, with printers of its store.    *)
JobFields == {"at", "loc", "file", "replace", "todo", "found", "runs"}

WriteAsked(w) == w.op = "delete" \/ (w.op \in {"menu", "category", "item", "printer"} /\ w.at \in DOMAIN job.file)

JobOK ==
  /\ DOMAIN job = JobFields
  /\ job.at \in {"runs", "failed"} => job.loc \in Managers /\ job.file \in Files
  /\ job.at = "runs" => PrintersKnown(db, job.loc, job.file) /\ \A w \in job.todo : WriteAsked(w)

BankInv == TablesOK(db) /\ JobOK

(* Every write of an import is a deletion or is at a row of the file.        *)
LEMMA WorkAsked ==
  ASSUME NEW d, NEW l, NEW file, NEW replace, NEW w \in Work(d, l, file, replace)
  PROVE  w.op = "delete" \/ (w.op \in {"menu", "category", "item", "printer"} /\ w.at \in DOMAIN file)
<1>1. \/ \E m : w = [op |-> "delete", at |-> m]
      \/ \E op \in {"menu", "category", "item", "printer"}, n \in DOMAIN file : w = [op |-> op, at |-> n]
  BY DEF Work
<1> QED BY <1>1

(* It holds when the behaviour starts.                                       *)
LEMMA BankStarts == BankInit => BankInv
BY BankAssumption DEF BankInit, BankInv, JobOK, NoJob, JobFields

(* An edit keeps the invariant when it keeps the tables.                     *)
LEMMA EditKeeps ==
  ASSUME BankInv, job.at # "runs", NEW l, NEW d, TablesOK(d), Edit(l, d)
  PROVE  BankInv'
<1>1. db' = d /\ job' = [job EXCEPT !.found = NONE] BY DEF Edit
<1>2. /\ DOMAIN job' = DOMAIN job
      /\ job'.at = job.at /\ job'.loc = job.loc /\ job'.file = job.file
  BY <1>1 DEF BankInv, JobOK, JobFields
<1> QED BY <1>1, <1>2 DEF BankInv, JobOK

(* The requests of a manager keep it: about menus, ...                       *)
LEMMA MenuRequestKeeps ==
  ASSUME BankInv, job.at # "runs", NEW l \in Managers, MenuRequest(l)
  PROVE  BankInv'
<1>0. TablesOK(db) /\ l \in Locations BY BankAssumption DEF BankInv
<1>1. CASE DoCreateMenu(l) BY <1>0, <1>1, EditKeeps, MenusOK DEF DoCreateMenu
<1>2. CASE DoUpdateMenu(l) BY <1>0, <1>2, EditKeeps, MenusOK DEF DoUpdateMenu
<1>3. CASE DoDeleteMenu(l) BY <1>0, <1>3, EditKeeps, DeletesOK DEF DoDeleteMenu
<1>4. CASE ReorderMenus(l)
  <2>1. PICK ids \in Pairs("menus") :
            Edit(l, SetMenuPosition(SetMenuPosition(db, ids[1], TenantOf[l], 0), ids[2], TenantOf[l], 1))
    BY <1>4 DEF ReorderMenus
  <2>2. TablesOK(SetMenuPosition(db, ids[1], TenantOf[l], 0)) BY <1>0, MenusOK
  <2>3. TablesOK(SetMenuPosition(SetMenuPosition(db, ids[1], TenantOf[l], 0), ids[2], TenantOf[l], 1))
    BY <1>0, <2>2, MenusOK
  <2> QED BY <2>1, <2>3, EditKeeps
<1> QED BY <1>1, <1>2, <1>3, <1>4 DEF MenuRequest

(* ... categories, ...                                                       *)
LEMMA CategoryRequestKeeps ==
  ASSUME BankInv, job.at # "runs", NEW l \in Managers, CategoryRequest(l)
  PROVE  BankInv'
<1>0. TablesOK(db) /\ l \in Locations BY BankAssumption DEF BankInv
<1>1. CASE CreateCategory(l)
  <2>1. PICK m \in DOMAIN db.menus, n \in Names, p \in Printers \cup {NONE} :
            /\ Own("menus", m, l) /\ ValidatePrinter(l, p)
            /\ Edit(l, CreateMenuCategory(db, l, m, n, p, 0))
    BY <1>1 DEF CreateCategory
  <2>2. db.menus[m].loc = l /\ p \in db.printers[l] \cup {NONE} BY <2>1 DEF Own, AssertLoc, ValidatePrinter
  <2>3. TablesOK(CreateMenuCategory(db, l, m, n, p, 0)) BY <1>0, <2>2, CatsOK
  <2> QED BY <2>1, <2>3, EditKeeps
<1>2. CASE UpdateCategory(l)
  <2>1. PICK c \in DOMAIN db.cats, n \in Names, a \in BOOLEAN, p \in Printers \cup {NONE} :
            /\ Own("cats", c, l) /\ ValidatePrinter(l, p)
            /\ Edit(l, UpdateMenuCategory(db, c, TenantOf[l], n, a, p))
    BY <1>2 DEF UpdateCategory
  <2>2. db.cats[c].loc = l /\ p \in db.printers[l] \cup {NONE} BY <2>1 DEF Own, AssertLoc, ValidatePrinter
  <2>3. TablesOK(UpdateMenuCategory(db, c, TenantOf[l], n, a, p)) BY <1>0, <2>2, CatsOK
  <2> QED BY <2>1, <2>3, EditKeeps
<1>3. CASE DeleteCategory(l) BY <1>0, <1>3, EditKeeps, DeletesOK DEF DeleteCategory
<1>4. CASE ReorderCategories(l)
  <2>1. PICK ids \in Pairs("cats") :
            Edit(l, SetCategoryPosition(SetCategoryPosition(db, ids[1], TenantOf[l], 0), ids[2], TenantOf[l], 1))
    BY <1>4 DEF ReorderCategories
  <2>2. TablesOK(SetCategoryPosition(db, ids[1], TenantOf[l], 0)) BY <1>0, CatsOK
  <2>3. TablesOK(SetCategoryPosition(SetCategoryPosition(db, ids[1], TenantOf[l], 0), ids[2], TenantOf[l], 1))
    BY <1>0, <2>2, CatsOK
  <2> QED BY <2>1, <2>3, EditKeeps
<1> QED BY <1>1, <1>2, <1>3, <1>4 DEF CategoryRequest

(* ... items, ...                                                            *)
LEMMA ItemRequestKeeps ==
  ASSUME BankInv, job.at # "runs", NEW l \in Managers, ItemRequest(l)
  PROVE  BankInv'
<1>0. TablesOK(db) /\ l \in Locations BY BankAssumption DEF BankInv
<1>1. CASE CreateItem(l)
  <2>1. PICK c \in DOMAIN db.cats, n \in Names, p \in Cents :
            Own("cats", c, l) /\ p >= 0 /\ Edit(l, CreateMenuItem(db, l, c, n, p, 0))
    BY <1>1 DEF CreateItem
  <2>2. db.cats[c].loc = l BY <2>1 DEF Own, AssertLoc
  <2>3. TablesOK(CreateMenuItem(db, l, c, n, p, 0)) BY <1>0, <2>2, ItemsOK
  <2> QED BY <2>1, <2>3, EditKeeps
<1>2. CASE UpdateItem(l)
  <2>1. PICK i \in DOMAIN db.items, n \in Names, p \in Cents, s \in BOOLEAN, u \in {NONE, 1} :
            Edit(l, UpdateMenuItem(db, i, TenantOf[l], n, p, s, IF s THEN NONE ELSE u))
    BY <1>2 DEF UpdateItem
  <2>2. \A u1 : TablesOK(UpdateMenuItem(db, i, TenantOf[l], n, p, s, u1)) BY <1>0, ItemsOK
  <2> QED BY <2>1, <2>2, EditKeeps
<1>3. CASE AssignItemPrinter(l)
  <2>1. PICK i \in DOMAIN db.items, p \in Printers \cup {NONE} :
            /\ Own("items", i, l) /\ ValidatePrinter(l, p)
            /\ Edit(l, SetItemPrinter(db, i, TenantOf[l], p))
    BY <1>3 DEF AssignItemPrinter
  <2>2. db.items[i].loc = l /\ p \in db.printers[l] \cup {NONE} BY <2>1 DEF Own, AssertLoc, ValidatePrinter
  <2>3. TablesOK(SetItemPrinter(db, i, TenantOf[l], p)) BY <1>0, <2>2, ItemsOK
  <2> QED BY <2>1, <2>3, EditKeeps
<1>4. CASE DeleteItem(l) BY <1>0, <1>4, EditKeeps, DeletesOK DEF DeleteItem
<1>5. CASE ReorderItems(l)
  <2>1. PICK ids \in Pairs("items") :
            Edit(l, SetItemPosition(SetItemPosition(db, ids[1], TenantOf[l], 0), ids[2], TenantOf[l], 1))
    BY <1>5 DEF ReorderItems
  <2>2. TablesOK(SetItemPosition(db, ids[1], TenantOf[l], 0)) BY <1>0, ItemsOK
  <2>3. TablesOK(SetItemPosition(SetItemPosition(db, ids[1], TenantOf[l], 0), ids[2], TenantOf[l], 1))
    BY <1>0, <2>2, ItemsOK
  <2> QED BY <2>1, <2>3, EditKeeps
<1> QED BY <1>1, <1>2, <1>3, <1>4, <1>5 DEF ItemRequest

(* ... groups, ...                                                           *)
LEMMA GroupRequestKeeps ==
  ASSUME BankInv, job.at # "runs", NEW l \in Managers, GroupRequest(l)
  PROVE  BankInv'
<1>0. TablesOK(db) /\ l \in Locations BY BankAssumption DEF BankInv
<1>1. CASE CreateGroup(l) BY <1>0, <1>1, EditKeeps, GroupsOK DEF CreateGroup
<1>2. CASE UpdateGroup(l) BY <1>0, <1>2, EditKeeps, GroupsOK DEF UpdateGroup
<1>3. CASE DeleteGroup(l)
  <2>1. PICK g \in DOMAIN db.groups :
            Edit(l, DeleteModifierGroup(DetachGroupFromAllItems(db, g, TenantOf[l]), g, TenantOf[l]))
    BY <1>3 DEF DeleteGroup
  <2>2. TablesOK(DetachGroupFromAllItems(db, g, TenantOf[l])) BY <1>0, GroupsOK
  <2>3. TablesOK(DeleteModifierGroup(DetachGroupFromAllItems(db, g, TenantOf[l]), g, TenantOf[l])) BY <2>2, GroupsOK
  <2> QED BY <2>1, <2>3, EditKeeps
<1>4. CASE AttachGroup(l) BY <1>0, <1>4, EditKeeps, GroupsOK DEF AttachGroup
<1>5. CASE DetachGroup(l) BY <1>0, <1>5, EditKeeps, GroupsOK DEF DetachGroup
<1> QED BY <1>1, <1>2, <1>3, <1>4, <1>5 DEF GroupRequest

(* ... options, ...                                                          *)
LEMMA OptionRequestKeeps ==
  ASSUME BankInv, job.at # "runs", NEW l \in Managers, OptionRequest(l)
  PROVE  BankInv'
<1>0. TablesOK(db) /\ l \in Locations BY BankAssumption DEF BankInv
<1>1. CASE CreateOption(l) BY <1>0, <1>1, EditKeeps, OptionsOK DEF CreateOption
<1>2. CASE UpdateOption(l) BY <1>0, <1>2, EditKeeps, OptionsOK DEF UpdateOption
<1>3. CASE DeleteOption(l) BY <1>0, <1>3, EditKeeps, OptionsOK DEF DeleteOption
<1>4. CASE ReorderOptions(l)
  <2>1. PICK ids \in Pairs("opts") :
            Edit(l, SetOptionPosition(SetOptionPosition(db, ids[1], TenantOf[l], 0), ids[2], TenantOf[l], 1))
    BY <1>4 DEF ReorderOptions
  <2>2. TablesOK(SetOptionPosition(db, ids[1], TenantOf[l], 0)) BY <1>0, OptionsOK
  <2>3. TablesOK(SetOptionPosition(SetOptionPosition(db, ids[1], TenantOf[l], 0), ids[2], TenantOf[l], 1))
    BY <1>0, <2>2, OptionsOK
  <2> QED BY <2>1, <2>3, EditKeeps
<1> QED BY <1>1, <1>2, <1>3, <1>4 DEF OptionRequest

(* ... sizes, ...                                                            *)
LEMMA SizeRequestKeeps ==
  ASSUME BankInv, job.at # "runs", NEW l \in Managers, SizeRequest(l)
  PROVE  BankInv'
<1>0. TablesOK(db) /\ l \in Locations BY BankAssumption DEF BankInv
<1>1. CASE CreateSize(l) BY <1>0, <1>1, EditKeeps, SizesOK DEF CreateSize
<1>2. CASE UpdateSize(l) BY <1>0, <1>2, EditKeeps, SizesOK DEF UpdateSize
<1>3. CASE ReorderSizes(l)
  <2>1. PICK ids \in Pairs("sizes") :
            Edit(l, SetMenuSizePosition(SetMenuSizePosition(db, ids[1], TenantOf[l], 0), ids[2], TenantOf[l], 1))
    BY <1>3 DEF ReorderSizes
  <2>2. TablesOK(SetMenuSizePosition(db, ids[1], TenantOf[l], 0)) BY <1>0, SizesOK
  <2>3. TablesOK(SetMenuSizePosition(SetMenuSizePosition(db, ids[1], TenantOf[l], 0), ids[2], TenantOf[l], 1))
    BY <1>0, <2>2, SizesOK
  <2> QED BY <2>1, <2>3, EditKeeps
<1>4. CASE DeleteSize(l) BY <1>0, <1>4, EditKeeps, SizesOK DEF DeleteSize
<1>5. CASE DoSetItemBank(l)
  <2>1. PICK i \in DOMAIN db.items, prices \in PriceLists : Edit(l, ReplaceItemSizes(i, TenantOf[l], prices))
    BY <1>5 DEF DoSetItemBank
  <2>2. TablesOK(SetItemBank(db, i, TenantOf[l])) BY <1>0, ItemsOK
  <2>3. TablesOK(DeleteItemSizes(SetItemBank(db, i, TenantOf[l]), i)) BY <2>2, SizesOK
  <2>4. TablesOK(ReplaceItemSizes(i, TenantOf[l], prices)) BY <2>3, SizesOK DEF ReplaceItemSizes
  <2> QED BY <2>1, <2>4, EditKeeps
<1>6. CASE SetGroupBank(l)
  <2> DEFINE out(g, o, portions, isDefault, prices) ==
               ReplaceOptionPrices(SetGroupPortions(db, g, TenantOf[l], portions), o, g, TenantOf[l], isDefault, prices)
  <2>1. PICK g \in DOMAIN db.groups, o \in DOMAIN db.opts, portions \in BOOLEAN, isDefault \in BOOLEAN, prices \in PriceLists :
            Edit(l, out(g, o, portions, isDefault, prices))
    BY <1>6 DEF SetGroupBank
  <2> DEFINE d0 == SetGroupPortions(db, g, TenantOf[l], portions)
             d1 == SetOptionBank(d0, o, TenantOf[l], g, isDefault)
  <2>2. TablesOK(d0) BY <1>0, GroupsOK
  <2> HIDE DEF d0
  <2>3. TablesOK(d1) BY <2>2, OptionsOK
  <2> HIDE DEF d1
  <2>4. TablesOK(DeleteOptionPrices(d1, o)) BY <2>3, OptionsOK
  <2>5. TablesOK(InsertOptionPrices(DeleteOptionPrices(d1, o), o, prices)) BY <2>4, OptionsOK
  <2>6. TablesOK(out(g, o, portions, isDefault, prices)) BY <2>5 DEF ReplaceOptionPrices, d0, d1
  <2> QED BY <2>1, <2>6, EditKeeps
<1> QED BY <1>1, <1>2, <1>3, <1>4, <1>5, <1>6 DEF SizeRequest

(* ... views ...                                                             *)
LEMMA ViewRequestKeeps ==
  ASSUME BankInv, job.at # "runs", NEW l \in Managers, ViewRequest(l)
  PROVE  BankInv'
<1>0. TablesOK(db) /\ l \in Locations BY BankAssumption DEF BankInv
<1>1. CASE Views(l)
  <2> DEFINE d1 == EnsureDefaultView(db, l, "web")
             d2 == EnsureDefaultView(d1, l, "operator")
             d3 == EnsureDefaultView(d2, l, "counter")
             d4 == EnsureDefaultView(d3, l, "vendor")
  <2>0. Edit(l, d4) BY <1>1 DEF Views
  <2>1. TablesOK(d1) BY <1>0, ViewsOK
  <2> HIDE DEF d1
  <2>2. TablesOK(d2) BY <2>1, ViewsOK
  <2> HIDE DEF d2
  <2>3. TablesOK(d3) BY <2>2, ViewsOK
  <2> HIDE DEF d3
  <2>4. TablesOK(d4) BY <2>3, ViewsOK
  <2> HIDE DEF d4
  <2> QED BY <2>0, <2>4, EditKeeps
<1>2. CASE CreateView(l) BY <1>0, <1>2, EditKeeps, ViewsOK DEF CreateView
<1>3. CASE UpdateView(l) BY <1>0, <1>3, EditKeeps, ViewsOK DEF UpdateView
<1>4. CASE DeleteView(l) BY <1>0, <1>4, EditKeeps, ViewsOK DEF DeleteView
<1> QED BY <1>1, <1>2, <1>3, <1>4 DEF ViewRequest

(* A merge the service takes has two anchors or more, all of them items.     *)
LEMMA EntryTaken ==
  ASSUME TablesOK(db), NEW v, NEW e \in EntryInputs, ValidEntry(v, e)
  PROVE  MergeOK(e)
<1> DEFINE lists == [1..1 -> DOMAIN db.items] \cup [1..2 -> DOMAIN db.items]
<1>1. PICK k \in {"item", "merge", "augment", "map"}, w \in Wishes, as \in lists :
        e = [kind |-> k, anchors |-> as, view |-> NONE, loc |-> NONE, category |-> w.category, pos |-> 0,
             hidden |-> w.hidden, price |-> w.price, sizePrices |-> <<>>, vendor |-> w.vendor]
  BY DEF EntryInputs
<1>2. DOMAIN db.items \in SUBSET Nat BY RowsIn
<1>3. as \in Seq(Nat)
  <2>1. \E n \in Nat : as \in [1..n -> Nat]
    <3>1. CASE as \in [1..1 -> DOMAIN db.items] BY <1>2, <3>1
    <3>2. CASE as \in [1..2 -> DOMAIN db.items] BY <1>2, <3>2
    <3> QED BY <1>1, <3>1, <3>2
  <2>2. as \in UNION {[1..n -> Nat] : n \in Nat} BY <2>1, Zenon
  <2> QED BY <2>2, SeqDef, Zenon
<1>4. e.anchors = as BY <1>1
<1>5. e.kind = "merge" => Len(e.anchors) >= 2 BY DEF ValidEntry
<1>6. e.anchors \in Seq(Nat) BY <1>3, <1>4
<1> QED BY <1>5, <1>6 DEF MergeOK

(* ... and entries.                                                          *)
LEMMA EntryRequestKeeps ==
  ASSUME BankInv, job.at # "runs", NEW l \in Managers, EntryRequest(l)
  PROVE  BankInv'
<1>0. TablesOK(db) /\ l \in Locations BY BankAssumption DEF BankInv
<1>1. CASE CreateEntry(l)
  <2>1. PICK v \in DOMAIN db.views, e \in EntryInputs :
            ValidEntry(v, e) /\ Edit(l, CreateMenuViewEntry(db, v, e))
    BY <1>1 DEF CreateEntry
  <2>2. TablesOK(CreateMenuViewEntry(db, v, e)) BY <1>0, <2>1, EntryTaken, EntriesOK
  <2> QED BY <2>1, <2>2, EditKeeps
<1>2. CASE UpdateEntry(l)
  <2>1. PICK id \in DOMAIN db.entries, e \in EntryInputs :
            /\ e.kind = db.entries[id].kind /\ ValidEntry(db.entries[id].view, e)
            /\ Edit(l, UpdateMenuViewEntry(db, id, e))
    BY <1>2 DEF UpdateEntry
  <2>2. TablesOK(UpdateMenuViewEntry(db, id, e)) BY <1>0, <2>1, EntryTaken, EntriesOK
  <2> QED BY <2>1, <2>2, EditKeeps
<1>3. CASE DeleteEntry(l) BY <1>0, <1>3, EditKeeps, EntriesOK DEF DeleteEntry
<1>4. CASE MeVendorMap(l)
  <2> DEFINE d == EnsureDefaultView(db, l, "vendor")
             v == FirstMenuViewOfKind(d, l, "vendor")
             map(n, i) == [kind |-> "map", anchors |-> <<i>>, view |-> NONE, loc |-> NONE,
                           category |-> NONE, pos |-> 0, hidden |-> FALSE, price |-> NONE,
                           sizePrices |-> <<>>, vendor |-> n]
  <2>1. PICK n \in Vendors, i \in DOMAIN db.items : Edit(l, CreateMenuViewEntry(d, v, map(n, i)))
    BY <1>4 DEF MeVendorMap
  <2>2. MergeOK(map(n, i)) BY DEF MergeOK
  <2>3. TablesOK(d) BY <1>0, ViewsOK
  <2> HIDE DEF d, v, map
  <2>4. TablesOK(CreateMenuViewEntry(d, v, map(n, i))) BY <2>2, <2>3, EntriesOK
  <2> QED BY <2>1, <2>4, EditKeeps
<1> QED BY <1>1, <1>2, <1>3, <1>4 DEF EntryRequest

(* The steps of an import keep it, and so does its start.                    *)
LEMMA ImportKeeps ==
  ASSUME BankInv, ImportStep
  PROVE  BankInv'
<1>1. CASE ImportWrite
  <2>1. PICK w \in job.todo : db' = Write(db, job.loc, job.file, w) /\ job' = [job EXCEPT !.todo = @ \ {w}]
    BY <1>1 DEF ImportWrite
  <2>2. /\ job.at = "runs" /\ TablesOK(db) /\ job.loc \in Locations /\ job.file \in Files
        /\ PrintersKnown(db, job.loc, job.file) /\ WriteAsked(w) /\ DOMAIN job = JobFields
    BY <1>1, BankAssumption DEF ImportWrite, BankInv, JobOK
  <2>3. TablesOK(db') /\ db'.printers = db.printers BY <2>1, <2>2, WriteOK DEF WriteAsked
  <2>4. /\ DOMAIN job' = JobFields /\ job'.at = job.at /\ job'.loc = job.loc /\ job'.file = job.file
        /\ job'.todo = job.todo \ {w}
    BY <2>1, <2>2 DEF JobFields
  <2>5. PrintersKnown(db', job'.loc, job'.file) BY <2>2, <2>3, <2>4 DEF PrintersKnown
  <2>6. \A x \in job'.todo : WriteAsked(x)' BY <2>2, <2>4 DEF BankInv, JobOK, WriteAsked
  <2>7. JobOK' BY <2>2, <2>4, <2>5, <2>6 DEF BankInv, JobOK
  <2> QED BY <2>3, <2>7 DEF BankInv
<1>2. CASE ImportDone
  <2>1. job' = [job EXCEPT !.at = "done"] /\ db' = db BY <1>2 DEF ImportDone
  <2>2. DOMAIN job = JobFields BY DEF BankInv, JobOK
  <2>3. DOMAIN job' = JobFields /\ job'.at = "done" BY <2>1, <2>2 DEF JobFields
  <2> QED BY <2>1, <2>3 DEF BankInv, JobOK
<1>3. CASE ImportFails
  <2>1. job' = [job EXCEPT !.at = "failed", !.todo = {}] /\ db' = db /\ job.at = "runs" BY <1>3 DEF ImportFails
  <2>2. DOMAIN job = JobFields BY DEF BankInv, JobOK
  <2>3. DOMAIN job' = JobFields /\ job'.at = "failed" /\ job'.loc = job.loc /\ job'.file = job.file
    BY <2>1, <2>2 DEF JobFields
  <2> QED BY <2>1, <2>3 DEF BankInv, JobOK
<1>4. CASE ImportAgain
  <2>1. /\ job' = [job EXCEPT !.at = "runs", !.todo = Work(db, job.loc, job.file, job.replace), !.runs = @ + 1]
        /\ db' = db /\ job.at = "failed" /\ PrintersKnown(db, job.loc, job.file)
    BY <1>4 DEF ImportAgain
  <2>2. DOMAIN job = JobFields BY DEF BankInv, JobOK
  <2>3. /\ DOMAIN job' = JobFields /\ job'.at = "runs" /\ job'.loc = job.loc /\ job'.file = job.file
        /\ job'.todo = Work(db, job.loc, job.file, job.replace)
    BY <2>1, <2>2 DEF JobFields
  <2>4. \A x \in job'.todo : WriteAsked(x)' BY <2>3, WorkAsked DEF WriteAsked
  <2>5. PrintersKnown(db', job'.loc, job'.file) BY <2>1, <2>3
  <2> QED BY <2>1, <2>3, <2>4, <2>5 DEF BankInv, JobOK
<1> QED BY <1>1, <1>2, <1>3, <1>4 DEF ImportStep

(* An import starts with a file whose printers the store has.                *)
LEMMA StartImportKeeps ==
  ASSUME BankInv, NEW l \in Managers, StartImport(l)
  PROVE  BankInv'
<1>1. PICK f \in Files, replace \in BOOLEAN :
        /\ PrintersKnown(db, l, f) /\ db' = db
        /\ job' = [at |-> "runs", loc |-> l, file |-> f, replace |-> replace, todo |-> Work(db, l, f, replace), found |-> db, runs |-> 1]
  BY DEF StartImport
<1>2. /\ DOMAIN job' = JobFields /\ job'.at = "runs" /\ job'.loc = l /\ job'.file = f
      /\ job'.todo = Work(db, l, f, replace)
  BY <1>1 DEF JobFields
<1>3. \A x \in job'.todo : WriteAsked(x)' BY <1>2, WorkAsked DEF WriteAsked
<1>4. PrintersKnown(db', job'.loc, job'.file) BY <1>1, <1>2
<1> QED BY <1>1, <1>2, <1>3, <1>4 DEF BankInv, JobOK

(* Every step keeps it.                                                      *)
LEMMA BankNextKeeps == BankInv /\ [MenuBankNext]_bankVars => BankInv'
<1> SUFFICES ASSUME BankInv, [MenuBankNext]_bankVars PROVE BankInv' OBVIOUS
<1>1. CASE ImportStep BY <1>1, ImportKeeps
<1>2. ASSUME job.at # "runs", NEW l \in Managers,
             \/ MenuRequest(l) \/ CategoryRequest(l) \/ ItemRequest(l) \/ GroupRequest(l) \/ OptionRequest(l)
             \/ SizeRequest(l) \/ ViewRequest(l) \/ EntryRequest(l) \/ RemovePrinter(l) \/ StartImport(l)
      PROVE  BankInv'
  <2>1. CASE RemovePrinter(l)
    <3>1. PICK p \in db.printers[l] : Edit(l, DeletePrinter(db, l, p)) BY <2>1 DEF RemovePrinter
    <3>2. TablesOK(DeletePrinter(db, l, p)) BY BankAssumption, PrinterDeleted DEF BankInv
    <3> QED BY <1>2, <3>1, <3>2, EditKeeps
  <2> QED BY <1>2, <2>1, MenuRequestKeeps, CategoryRequestKeeps, ItemRequestKeeps, GroupRequestKeeps, OptionRequestKeeps,
             SizeRequestKeeps, ViewRequestKeeps, EntryRequestKeeps, StartImportKeeps
<1>3. CASE UNCHANGED bankVars BY <1>3 DEF bankVars, BankInv, JobOK, WriteAsked
<1> QED BY <1>1, <1>2, <1>3 DEF MenuBankNext

(* The rows of the menu tables fit together in every reachable state.        *)
THEOREM BankInvHolds == BankSpec => []BankInv
BY BankStarts, BankNextKeeps, PTL DEF BankSpec

----------------------------------------------------------------------------
(* Routing.                                                                  *)

(* An item's row names a printer of its store, or none.                      *)
LEMMA RowStaysHome ==
  ASSUME NEW d, TablesOK(d), NEW l \in Locations, NEW i \in ListRoutingByLocation(d, l)
  PROVE  RouteOf(RoutingRow(d, i)).printer \in d.printers[l] \cup {NONE}
<1>1. i \in DOMAIN d.items /\ d.items[i].loc = l BY DEF ListRoutingByLocation, OfLocation
<1>2. /\ d.items[i].printer \in d.printers[l] \cup {NONE}
      /\ d.items[i].cat \in DOMAIN d.cats /\ d.cats[d.items[i].cat].loc = l
  BY <1>1 DEF TablesOK, ItemOK, PrinterOK
<1>3. d.cats[d.items[i].cat].printer \in d.printers[l] \cup {NONE} BY <1>2 DEF TablesOK, CatOK, PrinterOK
<1> DEFINE p == RoutingRow(d, i).printer
<1>4. p \in d.printers[l] \cup {NONE} BY <1>2, <1>3 DEF RoutingRow
<1>5. RouteOf(RoutingRow(d, i)).printer \in {NONE, p} BY DEF RouteOf
<1> QED BY <1>4, <1>5

(* The keys of items that route are numbers, so a name stands for one of the *)
(* items that carry it.                                                      *)
LEMMA BestNamedIs ==
  ASSUME NEW d, TablesOK(d), NEW l, NEW n \in NamesOf(d, l)
  PROVE  BestNamed(d, l, n) \in ListRoutingByLocation(d, l)
<1> DEFINE named == {i \in ListRoutingByLocation(d, l) : d.items[i].name = n}
<1>1. named # {} BY DEF NamesOf
<1>2. ASSUME NEW i \in named PROVE i \in Nat /\ \A k \in 1..5 : RoutingKey(d, i)[k] \in Nat
  <2>1. /\ i \in DOMAIN d.items /\ d.items[i].cat \in DOMAIN d.cats
        /\ d.cats[d.items[i].cat].menu \in DOMAIN d.menus
    BY DEF ListRoutingByLocation, OfLocation
  <2> HIDE DEF named
  <2>2. PICK c, m : c = d.items[i].cat /\ m = d.cats[c].menu OBVIOUS
  <2>3. i \in Nat /\ d.items[i].pos \in Nat
    <3>1. ItemOK(d, i) /\ d.next \in Nat BY <2>1 DEF TablesOK
    <3> QED BY <3>1 DEF ItemOK, RowOK
  <2>4. d.cats[c].pos \in Nat
    <3>1. CatOK(d, c) BY <2>1, <2>2 DEF TablesOK
    <3> QED BY <3>1 DEF CatOK, RowOK
  <2>5. d.menus[m].pos \in Nat
    <3>1. MenuOK(d, m) BY <2>1, <2>2 DEF TablesOK
    <3> QED BY <3>1 DEF MenuOK, RowOK
  <2>6. PICK a \in {0, 1} : RoutingKey(d, i) = <<a, d.menus[m].pos, d.cats[c].pos, d.items[i].pos, i>>
    BY <2>2 DEF RoutingKey
  <2>7. 1..5 = {1, 2, 3, 4, 5} OBVIOUS
  <2> QED BY <2>3, <2>4, <2>5, <2>6, <2>7
<1>3. \E a \in named : \A b \in named \ {a} : BetterRoute(d, a, b)
  <2> HIDE DEF named
  <2> QED BY <1>1, <1>2, BestRouteIs
<1>4. BestNamed(d, l, n) \in named BY <1>3 DEF BestNamed
<1> QED BY <1>4

(* Rows that fit together route at home.                                     *)
LEMMA RoutesAtHome == BankInv => RoutesHome
<1> SUFFICES ASSUME BankInv, NEW l \in Locations, NEW n \in Names \cup Vendors
             PROVE  /\ RouteItems(db, l, n).printer \in db.printers[l] \cup {NONE}
                    /\ n \in DOMAIN VendorMaps(db, l) /\ VendorMaps(db, l)[n] \in BankItems(db, l)
                         => RouteItems(db, l, n) = RouteBankItems(db, l, VendorMaps(db, l)[n])
  BY DEF RoutesHome
<1> DEFINE names == NamesOf(db, l)
           mapped == MappedNames(db, l)
           maps == VendorMaps(db, l)
           item == IF n \in mapped THEN maps[n] ELSE BestNamed(db, l, n)
<1>0. TablesOK(db) BY DEF BankInv
<1>1. RouteItems(db, l, n) = IF n \in names \cup mapped THEN RouteOf(RoutingRow(db, item)) ELSE Unmatched
  BY DEF RouteItems, RoutingTable
<1>2. n \in names \cup mapped => item \in ListRoutingByLocation(db, l)
  <2>1. CASE n \in mapped BY <2>1 DEF MappedNames
  <2>2. CASE n \in names /\ n \notin mapped BY <1>0, <2>2, BestNamedIs
  <2> QED BY <2>1, <2>2
<1>3. RouteItems(db, l, n).printer \in db.printers[l] \cup {NONE}
  <2>1. CASE n \in names \cup mapped
    <3> HIDE DEF item
    <3> QED BY <1>0, <1>1, <1>2, <2>1, RowStaysHome
  <2>2. CASE n \notin names \cup mapped BY <1>1, <2>2 DEF Unmatched
  <2> QED BY <2>1, <2>2
<1>4. ASSUME n \in DOMAIN maps, maps[n] \in BankItems(db, l)
      PROVE  RouteItems(db, l, n) = RouteBankItems(db, l, maps[n])
  <2>1. maps[n] \in ListRoutingByLocation(db, l)
    BY <1>4 DEF BankItems, BankItem, ListRoutingByLocation, OfLocation
  <2>2. n \in mapped BY <1>4, <2>1 DEF MappedNames
  <2> QED BY <1>1, <2>1, <2>2 DEF RouteBankItems
<1> QED BY <1>3, <1>4

(* No name and no item routes to a printer of another store, and a manager's *)
(* mapping routes like the item it names.                                    *)
THEOREM KitchenStaysHome == BankSpec => []RoutesHome
BY BankInvHolds, RoutesAtHome, PTL

----------------------------------------------------------------------------
(* What a view shows.                                                        *)

(* A merge with a choice is shown with it, unless the merge is hidden.       *)
LEMMA MergeShows ==
  ASSUME NEW d, TablesOK(d), NEW v, NEW e \in DOMAIN d.entries, d.entries[e].kind = "merge", ~d.entries[e].hidden,
         NEW i \in Range(d.entries[e].anchors), CanShow(d, v, i)
  PROVE  \E s \in ShownMerge(d, v, e) : \E c \in s.choices : c.item = i
<1> DEFINE as == d.entries[e].anchors
           ns == MergeChoices(d, v, e)
           first == as[CHOOSE n \in ns : \A k \in ns : n <= k]
<1>1. as \in Seq(Nat) /\ Len(as) >= 2 BY DEF TablesOK, EntryOK
<1>2. PICK n \in DOMAIN as : as[n] = i BY DEF Range
<1>3. n \in ns /\ ns \in SUBSET DOMAIN as /\ \A k \in ns : CanShow(d, v, as[k]) BY <1>2 DEF MergeChoices
<1>4. \E m \in ns : \A k \in ns : m <= k
  <2>1. ns \in SUBSET Nat /\ ns # {} BY <1>1, <1>3
  <2> HIDE DEF ns
  <2> QED BY <2>1, LeastExists
<1>5. CanShow(d, v, first)
  <2> DEFINE m == CHOOSE x \in ns : \A k \in ns : x <= k
  <2>1. m \in ns BY <1>4
  <2> HIDE DEF ns, m
  <2>2. CanShow(d, v, as[m]) BY <1>3, <2>1
  <2> QED BY <2>2 DEF m, ns
<1> HIDE DEF first
<1>6. Placed(d, v, e, first) BY <1>5 DEF Placed, CanShow, Sellable, ViewHidden
<1> DEFINE choice(x) == [item |-> x, price |-> Price(d, v, d.items[x].price), sizes |-> Sizes(d, v, x, <<>>),
                         soldOut |-> ~d.items[x].inStock]
           row == [id |-> e, anchors |-> as, cat |-> Place(d, v, e, first),
                   choices |-> {choice(x) : x \in {as[k] : k \in ns}},
                   price |-> IF d.entries[e].price # NONE THEN d.entries[e].price ELSE Price(d, v, d.items[first].price),
                   sizes |-> Sizes(d, v, first, <<>>), groups |-> GroupIDs(d, v, first),
                   soldOut |-> \A x \in {as[k] : k \in ns} : ~d.items[x].inStock]
<1>7. ~(Len(as) < 2 \/ ns = {} \/ ~Placed(d, v, e, first)) BY <1>1, <1>3, <1>6
<1>8. ShownMerge(d, v, e) = {row} BY <1>7 DEF ShownMerge, first
<1>9. choice(i) \in row.choices /\ choice(i).item = i
  <2>1. i \in {as[k] : k \in ns} BY <1>2, <1>3
  <2> HIDE DEF ns
  <2> QED BY <2>1
<1> HIDE DEF row, choice
<1> QED BY <1>8, <1>9

(* Rows that fit together leave nothing out of a view.                       *)
LEMMA NothingIsLost == BankInv => NothingVanishes
<1> SUFFICES ASSUME BankInv, NEW v \in DOMAIN db.views, db.views[v].kind # "vendor",
                    NEW i \in BankItems(db, db.views[v].loc), Sellable(db, i), ~ViewHidden(db, v, i)
             PROVE  LET shown == Compile(db, v, {}).shown
                    IN  \/ \E s \in shown : s.id = i \/ \E c \in s.choices : c.item = i
                        \/ \A e \in EntriesOf(db, v) :
                             db.entries[e].kind = "merge" /\ i \in Range(db.entries[e].anchors) => db.entries[e].hidden
  BY DEF NothingVanishes
<1> DEFINE shown == Compile(db, v, {}).shown
<1>1. /\ BankShown(db, v) \subseteq shown
      /\ \A e \in EntriesOf(db, v) : db.entries[e].kind = "merge" => ShownMerge(db, v, e) \subseteq shown
  BY DEF Compile, CompileView
<1> HIDE DEF shown
<1>2. CASE i \notin Merged(db, v)
  <2>1. ShownItem(db, v, i) \in BankShown(db, v) BY <1>2 DEF BankShown
  <2>2. ShownItem(db, v, i).id = i BY DEF ShownItem
  <2> QED BY <1>1, <2>1, <2>2 DEF shown
<1>3. CASE \E e \in EntriesOf(db, v) : /\ db.entries[e].kind = "merge" /\ i \in Range(db.entries[e].anchors)
                                      /\ ~db.entries[e].hidden
  <2>1. PICK e \in EntriesOf(db, v) : /\ db.entries[e].kind = "merge" /\ i \in Range(db.entries[e].anchors)
                                      /\ ~db.entries[e].hidden
    BY <1>3
  <2>2. e \in DOMAIN db.entries /\ TablesOK(db) BY DEF EntriesOf, BankInv
  <2>3. CanShow(db, v, i) BY DEF CanShow, BankItems
  <2>4. \E s \in ShownMerge(db, v, e) : \E c \in s.choices : c.item = i BY <2>1, <2>2, <2>3, MergeShows
  <2> QED BY <1>1, <2>1, <2>4 DEF shown
<1>4. CASE \A e \in EntriesOf(db, v) :
             db.entries[e].kind = "merge" /\ i \in Range(db.entries[e].anchors) => db.entries[e].hidden
  BY <1>4
<1> QED BY <1>2, <1>3, <1>4

(* Every item the store can sell and the view does not hide is on the view:  *)
(* as itself, or as a choice of a merge that is not hidden.                  *)
THEOREM MenuShowsAll == BankSpec => []NothingVanishes
BY BankInvHolds, NothingIsLost, PTL
=============================================================================
