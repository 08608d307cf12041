--------------------------- MODULE Journal_proofs ----------------------------
(***************************************************************************)
(* For every configuration, every registry, and every order of ticks,      *)
(* crashes, restarts, rebuilds and failed writes of the two processes:     *)
(* nothing is held over a tick's end, a registry that was not touched      *)
(* holds what its file says, a confirmed agents row is the one that was    *)
(* seen, every state has its types, and a quiet desktop does not look like *)
(* a daemon that is down.                                                  *)
(***************************************************************************)
EXTENDS Journal, TLAPS

InBatch == {"cursor", "scan", "herdr", "commit"}

\* The fields EXCEPT is applied to.
Shape ==
    /\ DOMAIN pc = Process /\ DOMAIN view = Process /\ DOMAIN mem = Process
    /\ \A p \in Process : DOMAIN mem[p] = DOMAIN NoMemory
    /\ lock \in Process \cup {"none"}
    /\ {"agents", "ok", "honest"} \subseteq DOMAIN store
    /\ {"agents", "ok", "honest"} \subseteq DOMAIN draft

LEMMA MemoryFields ==
    /\ DOMAIN NoMemory = {"match", "rows", "agents", "cursor", "scan", "herdr", "since"}
    /\ DOMAIN NewMemory = DOMAIN NoMemory
    /\ NoMemory.match = FALSE /\ NoMemory.agents = Nothing
    /\ NewMemory.match = (file = Absent) /\ NewMemory.rows = {} /\ NewMemory.agents = Nothing
  BY DEF NoMemory, NewMemory

\* After the first of the four collectors a tick is inside of its batch, and it comes to the
\* Cursor collector only if that one is enabled.
LEMMA StageFromType ==
    ASSUME NEW i \in 1 .. 5
    PROVE  /\ i > 1 => StageFrom(i) \in InBatch
           /\ StageFrom(i) = "cursor" => "cursor" \in cfg
           /\ StageFrom(i) \in InBatch \cup {"stat"}
           /\ i <= 4 /\ "herdr" \in cfg => StageFrom(i) # "commit"
           /\ i = 1 /\ "agents" \in cfg => StageFrom(i) = "stat"
  <1> DEFINE left == {j \in i .. 4 : Order[j] \in cfg}
  <1>1. Order[1] = "agents" /\ Order[2] = "cursor" /\ Order[3] = "scan" /\ Order[4] = "herdr"
    BY DEF Order
  <1>2. CASE left = {}
    <2>1. i <= 4 => 4 \notin left /\ (i = 1 => 1 \notin left)
      BY <1>2
    <2> QED
      BY <1>1, <1>2, <2>1 DEF StageFrom, InBatch
  <1>3. CASE left # {}
    <2>1. \E x \in left : \A y \in left : x <= y
      <3>1. \A j \in left : j \in {1, 2, 3, 4}
        OBVIOUS
      <3> HIDE DEF left
      <3> QED
        BY <1>3, <3>1
    <2>2. Min(left) \in left /\ \A y \in left : Min(left) <= y
      <3> HIDE DEF left
      <3> QED
        BY <2>1 DEF Min
    <2>3. StageFrom(i) = IF Min(left) = 1 THEN "stat" ELSE Order[Min(left)]
      BY <1>3 DEF StageFrom
    <2>4. /\ Min(left) \in i .. 4 /\ Order[Min(left)] \in cfg
          /\ i = 1 /\ "agents" \in cfg => Min(left) <= 1
      BY <1>1, <2>2
    <2> HIDE DEF left
    <2>5. Min(left) \in {1, 2, 3, 4}
      BY <2>4
    <2> QED
      BY <1>1, <2>3, <2>4, <2>5 DEF InBatch
  <1> QED
    BY <1>2, <1>3

LEMMA NextShape == Shape /\ [Next]_vars => Shape'
  <1> SUFFICES ASSUME Shape, [Next]_vars
               PROVE  Shape'
    OBVIOUS
  <1> USE DEF Shape, worldVars, dbVars, Goes, Outdated, Begin
  <1>1. ASSUME NEW p \in Process, Start(p)
        PROVE  Shape'
    BY <1>1, MemoryFields DEF Start, AutoCommit
  <1>2. ASSUME NEW p \in Process, StatRegistry(p) \/ ParseRegistry(p)
        PROVE  Shape'
    BY <1>2 DEF StatRegistry, ParseRegistry
  <1>3. ASSUME NEW p \in Process, AgentsTick(p)
        PROVE  Shape'
    BY <1>3 DEF AgentsTick, NoWrite, Write, Confirmed, Visible
  <1>4. ASSUME NEW p \in Process, CursorTick(p)
        PROVE  Shape'
    BY <1>4 DEF CursorTick, NoWrite, Write, Visible
  <1>5. ASSUME NEW p \in Process, ScanTick(p)
        PROVE  Shape'
    BY <1>5 DEF ScanTick, NoWrite, Write, Visible
  <1>6. ASSUME NEW p \in Process, HerdrTick(p)
        PROVE  Shape'
    BY <1>6 DEF HerdrTick, NoWrite, Write, Visible
  <1>7. ASSUME NEW p \in Process, Commit(p) \/ LastTick(p)
        PROVE  Shape'
    BY <1>7, MemoryFields DEF Commit, LastTick, AutoCommit
  <1>8. ASSUME NEW p \in Process, Ends(p)
        PROVE  Shape'
    BY <1>8, MemoryFields DEF Ends, Rollback
  <1>9. CASE Poll \/ Rebuild
    BY <1>9, MemoryFields DEF Poll, Rebuild
  <1>10. CASE FileChanges \/ HerdrChanges \/ FolderChanges \/ ScanChanges
    BY <1>10 DEF FileChanges, Unmatched, HerdrChanges, FolderChanges, ScanChanges
  <1>11. CASE Elapse
    BY <1>11 DEF Elapse
  <1>12. CASE UNCHANGED vars
    BY <1>12 DEF vars
  <1> QED
    BY <1>1, <1>2, <1>3, <1>4, <1>5, <1>6, <1>7, <1>8, <1>9, <1>10, <1>11, <1>12
    DEF Next, TickStep

-----------------------------------------------------------------------------
(* The registry *)

\* A registry that never looked is one of a missing file, and both list nothing.
LEMMA NothingParsed == file = Absent => Parsed(file) = {}
  BY DEF Parsed

LEMMA NextRegistry == Shape /\ RegistryIsHonest /\ [Next]_vars => RegistryIsHonest'
  <1> SUFFICES ASSUME Shape, RegistryIsHonest, [Next]_vars
               PROVE  RegistryIsHonest'
    OBVIOUS
  <1> USE DEF Shape, RegistryIsHonest, Parsed, worldVars, dbVars, Goes
  <1>1. ASSUME NEW p \in Process, Start(p)
        PROVE  RegistryIsHonest'
    BY <1>1, MemoryFields, NothingParsed DEF Start
  \* The new signature is remembered before the file is read.
  <1>2. ASSUME NEW p \in Process, StatRegistry(p)
        PROVE  RegistryIsHonest'
    BY <1>2, MemoryFields DEF StatRegistry
  <1>3. ASSUME NEW p \in Process, ParseRegistry(p)
        PROVE  RegistryIsHonest'
    BY <1>3, MemoryFields DEF ParseRegistry
  <1>4. ASSUME NEW p \in Process, AgentsTick(p)
        PROVE  RegistryIsHonest'
    BY <1>4, MemoryFields DEF AgentsTick
  <1>5. ASSUME NEW p \in Process, CursorTick(p) \/ ScanTick(p) \/ HerdrTick(p)
        PROVE  RegistryIsHonest'
    BY <1>5, MemoryFields DEF CursorTick, ScanTick, HerdrTick
  <1>6. ASSUME NEW p \in Process, Commit(p) \/ LastTick(p)
        PROVE  RegistryIsHonest'
    BY <1>6, MemoryFields DEF Commit, LastTick
  <1>7. ASSUME NEW p \in Process, Ends(p)
        PROVE  RegistryIsHonest'
    BY <1>7, MemoryFields DEF Ends
  <1>8. CASE Poll \/ Rebuild
    BY <1>8, MemoryFields, NothingParsed DEF Poll, Rebuild
  <1>9. CASE FileChanges
    BY <1>9, MemoryFields DEF FileChanges, Unmatched
  <1>10. CASE HerdrChanges \/ FolderChanges \/ ScanChanges
    BY <1>10, MemoryFields DEF HerdrChanges, FolderChanges, ScanChanges
  <1>11. CASE Elapse
    BY <1>11, MemoryFields DEF Elapse
  <1>12. CASE UNCHANGED vars
    BY <1>12 DEF vars
  <1> QED
    BY <1>1, <1>2, <1>3, <1>4, <1>5, <1>6, <1>7, <1>8, <1>9, <1>10, <1>11, <1>12
    DEF Next, TickStep

LEMMA InitShape == Init => Shape /\ RegistryIsHonest /\ LockIsInBatch
  BY MemoryFields DEF Init, Shape, RegistryIsHonest, LockIsInBatch, Process

(* SessionRegistry.load keeps the rows of an unchanged signature: they are  *)
(* what the file says, whenever it was written around the look and the      *)
(* parse, whatever process read it and however it was rebuilt.              *)
THEOREM RegistryAlwaysHonest == Spec => []RegistryIsHonest
  BY InitShape, NextShape, NextRegistry, PTL DEF Spec

-----------------------------------------------------------------------------
(* The batch *)

\* Another process keeps its view, or finds it stale; one that had read nothing still has not.
LEMMA OutdatedKeeps ==
    ASSUME Shape, NEW p \in Process, NEW q \in Process, view' = Outdated(p)
    PROVE  /\ q = p => view'[q] = "none"
           /\ view[q] = "none" => view'[q] = "none"
  BY DEF Outdated

LEMMA NextLock == Shape /\ LockIsInBatch /\ [Next]_vars => LockIsInBatch'
  <1> SUFFICES ASSUME Shape, LockIsInBatch, [Next]_vars
               PROVE  LockIsInBatch'
    OBVIOUS
  <1> USE DEF Shape, LockIsInBatch, worldVars, dbVars, Goes
  <1>1. ASSUME NEW p \in Process, Start(p)
        PROVE  LockIsInBatch'
    BY <1>1, OutdatedKeeps DEF Start, AutoCommit
  <1>2. ASSUME NEW p \in Process, StatRegistry(p) \/ ParseRegistry(p)
        PROVE  LockIsInBatch'
    BY <1>2 DEF StatRegistry, ParseRegistry
  <1>3. ASSUME NEW p \in Process, AgentsTick(p)
        PROVE  LockIsInBatch'
    <2>1. StageFrom(2) \in InBatch
      BY StageFromType
    <2>2. lock' \in {lock, p} /\ pc' = [pc EXCEPT ![p] = StageFrom(2)]
      BY <1>3 DEF AgentsTick, NoWrite, Write
    <2>3. view' = [view EXCEPT ![p] = IF @ = "none" THEN "fresh" ELSE @]
      BY <1>3 DEF AgentsTick
    <2> QED
      BY <2>1, <2>2, <2>3 DEF InBatch
  \* The other collectors read nothing that binds the transaction.
  <1>4. ASSUME NEW p \in Process, CursorTick(p) \/ ScanTick(p) \/ HerdrTick(p)
        PROVE  LockIsInBatch'
    <2>1. StageFrom(3) \in InBatch /\ StageFrom(4) \in InBatch /\ StageFrom(5) \in InBatch
      BY StageFromType
    <2>2. lock' \in {lock, p} /\ UNCHANGED view
      BY <1>4 DEF CursorTick, ScanTick, HerdrTick, NoWrite, Write
    <2>3. \E next \in InBatch : pc' = [pc EXCEPT ![p] = next]
      BY <1>4, <2>1 DEF CursorTick, ScanTick, HerdrTick
    <2> QED
      BY <2>2, <2>3 DEF InBatch
  <1>5. ASSUME NEW p \in Process, Commit(p)
        PROVE  LockIsInBatch'
    <2>1. pc' = [pc EXCEPT ![p] = "meta"] /\ lock' \in {lock, "none"} /\ lock' # p
      BY <1>5 DEF Commit, Process
    <2>2. \A q \in Process : /\ q = p => view'[q] = "none"
                             /\ view[q] = "none" => view'[q] = "none"
      BY <1>5, OutdatedKeeps DEF Commit, Begin
    <2>3. "none" \notin Process
      BY DEF Process
    <2> QED
      BY <2>1, <2>2, <2>3
  <1>6. ASSUME NEW p \in Process, LastTick(p)
        PROVE  LockIsInBatch'
    BY <1>6, OutdatedKeeps DEF LastTick, AutoCommit
  <1>7. ASSUME NEW p \in Process, Ends(p)
        PROVE  LockIsInBatch'
    <2>1. /\ pc' = [pc EXCEPT ![p] = "off"] /\ view' = [view EXCEPT ![p] = "none"]
          /\ lock' = IF lock = p THEN "none" ELSE lock
      BY <1>7 DEF Ends, Rollback
    <2>2. "none" \notin Process
      BY DEF Process
    <2> QED
      BY <2>1, <2>2
  <1>8. CASE Poll
    BY <1>8 DEF Poll, Begin
  <1>9. CASE Rebuild
    BY <1>9 DEF Rebuild
  <1>10. CASE FileChanges \/ HerdrChanges \/ FolderChanges \/ ScanChanges
    BY <1>10 DEF FileChanges, HerdrChanges, FolderChanges, ScanChanges
  <1>11. CASE Elapse
    BY <1>11 DEF Elapse
  <1>12. CASE UNCHANGED vars
    BY <1>12 DEF vars
  <1> QED
    BY <1>1, <1>2, <1>3, <1>4, <1>5, <1>6, <1>7, <1>8, <1>9, <1>10, <1>11, <1>12
    DEF Next, TickStep

(* Store.batch brackets every write of a tick: outside of it no process     *)
(* holds the lock or is bound to what it has read, over failed writes,      *)
(* crashes and restarts of either process.                                  *)
THEOREM LockAlwaysInBatch == Spec => []LockIsInBatch
  BY InitShape, NextShape, NextLock, PTL DEF Spec

-----------------------------------------------------------------------------
(* What last_ok confirms *)

\* As long as collect_once has not run, the daemon is alone with the store.
OnlyWriter == alone => pc["once"] = "off" /\ view["daemon"] # "stale"

DraftIsStore == lock = "none" => draft = store

CursorIsEnabled == \A p \in Process : pc[p] = "cursor" => "cursor" \in cfg

\* What the daemon remembers of the agents is the row it has written, or would commit.
RowIsRemembered ==
    alone /\ "cursor" \notin cfg =>
        /\ store.ok # NoAge => store.honest = TRUE
        /\ draft.ok # NoAge => draft.honest = TRUE
        /\ mem["daemon"].agents # Nothing => draft.agents = mem["daemon"].agents

IInv == /\ Shape /\ LockIsInBatch
        /\ OnlyWriter /\ DraftIsStore /\ CursorIsEnabled /\ RowIsRemembered

LEMMA TwoProcesses == "daemon" \in Process /\ "once" \in Process /\ "none" \notin Process
                      /\ \A p \in Process : p = "daemon" \/ p = "once"
  BY DEF Process

\* A daemon that is alone is the one that takes the step, and finds no lock but its own.
LEMMA AloneWithTheStore ==
    ASSUME IInv, alone, NEW p \in Process, pc[p] # "off"
    PROVE  p = "daemon" /\ lock # "once"
  BY TwoProcesses DEF IInv, OnlyWriter, LockIsInBatch

LEMMA NextAlone == IInv /\ [Next]_vars => OnlyWriter'
  <1> SUFFICES ASSUME IInv, [Next]_vars, alone'
               PROVE  pc'["once"] = "off" /\ view'["daemon"] # "stale"
    BY DEF OnlyWriter
  <1> USE TwoProcesses DEF IInv, Shape, OnlyWriter, worldVars, dbVars, Goes
  <1>1. ASSUME NEW p \in Process, Start(p)
        PROVE  pc'["once"] = "off" /\ view'["daemon"] # "stale"
    BY <1>1, OutdatedKeeps DEF Start, AutoCommit
  <1>2. ASSUME NEW p \in Process, StatRegistry(p) \/ ParseRegistry(p)
        PROVE  pc'["once"] = "off" /\ view'["daemon"] # "stale"
    BY <1>2 DEF StatRegistry, ParseRegistry
  <1>3. ASSUME NEW p \in Process, AgentsTick(p)
        PROVE  pc'["once"] = "off" /\ view'["daemon"] # "stale"
    BY <1>3 DEF AgentsTick
  <1>4. ASSUME NEW p \in Process, CursorTick(p) \/ ScanTick(p) \/ HerdrTick(p)
        PROVE  pc'["once"] = "off" /\ view'["daemon"] # "stale"
    BY <1>4 DEF CursorTick, ScanTick, HerdrTick
  <1>5. ASSUME NEW p \in Process, Commit(p)
        PROVE  pc'["once"] = "off" /\ view'["daemon"] # "stale"
    BY <1>5, OutdatedKeeps DEF Commit, Begin
  <1>6. ASSUME NEW p \in Process, LastTick(p)
        PROVE  pc'["once"] = "off" /\ view'["daemon"] # "stale"
    BY <1>6, OutdatedKeeps DEF LastTick, AutoCommit
  <1>7. ASSUME NEW p \in Process, Ends(p)
        PROVE  pc'["once"] = "off" /\ view'["daemon"] # "stale"
    BY <1>7 DEF Ends, Rollback
  <1>8. CASE Poll \/ Rebuild
    BY <1>8 DEF Poll, Rebuild, Begin
  <1>9. CASE FileChanges \/ HerdrChanges \/ FolderChanges \/ ScanChanges \/ Elapse
    BY <1>9 DEF FileChanges, HerdrChanges, FolderChanges, ScanChanges, Elapse
  <1>10. CASE UNCHANGED vars
    BY <1>10 DEF vars
  <1> QED
    BY <1>1, <1>2, <1>3, <1>4, <1>5, <1>6, <1>7, <1>8, <1>9, <1>10 DEF Next, TickStep

\* Only the agents' tick and a first stage lead to the Cursor collector.
LEMMA NextCursor == IInv /\ [Next]_vars => CursorIsEnabled'
  <1> SUFFICES ASSUME IInv, [Next]_vars
               PROVE  CursorIsEnabled'
    OBVIOUS
  <1> USE TwoProcesses DEF IInv, Shape, CursorIsEnabled, worldVars, dbVars, Goes
  <1>1. /\ StageFrom(1) = "cursor" => "cursor" \in cfg
        /\ StageFrom(2) = "cursor" => "cursor" \in cfg
        /\ StageFrom(3) = "cursor" => "cursor" \in cfg
        /\ StageFrom(4) = "cursor" => "cursor" \in cfg
        /\ StageFrom(5) = "cursor" => "cursor" \in cfg
    BY StageFromType
  <1>2. ASSUME NEW p \in Process, Start(p) \/ StatRegistry(p) \/ ParseRegistry(p) \/ Ends(p)
        PROVE  CursorIsEnabled'
    BY <1>1, <1>2 DEF Start, StatRegistry, ParseRegistry, Ends
  <1>3. ASSUME NEW p \in Process, AgentsTick(p)
        PROVE  CursorIsEnabled'
    BY <1>1, <1>3 DEF AgentsTick
  <1>4. ASSUME NEW p \in Process, CursorTick(p) \/ ScanTick(p) \/ HerdrTick(p)
        PROVE  CursorIsEnabled'
    BY <1>1, <1>4 DEF CursorTick, ScanTick, HerdrTick
  <1>5. ASSUME NEW p \in Process, Commit(p) \/ LastTick(p)
        PROVE  CursorIsEnabled'
    BY <1>5 DEF Commit, LastTick
  <1>6. CASE Poll \/ Rebuild
    BY <1>1, <1>6 DEF Poll, Rebuild
  <1>7. CASE FileChanges \/ HerdrChanges \/ FolderChanges \/ ScanChanges \/ Elapse
    BY <1>7 DEF FileChanges, HerdrChanges, FolderChanges, ScanChanges, Elapse
  <1>8. CASE UNCHANGED vars
    BY <1>8 DEF vars
  <1> QED
    BY <1>2, <1>3, <1>4, <1>5, <1>6, <1>7, <1>8 DEF Next, TickStep

LEMMA NextDraft == IInv /\ [Next]_vars => DraftIsStore'
  <1> SUFFICES ASSUME IInv, [Next]_vars
               PROVE  DraftIsStore'
    OBVIOUS
  <1> USE TwoProcesses DEF IInv, DraftIsStore, worldVars, dbVars
  <1>1. ASSUME NEW p \in Process, Start(p) \/ StatRegistry(p) \/ ParseRegistry(p)
        PROVE  DraftIsStore'
    BY <1>1 DEF Start, StatRegistry, ParseRegistry
  <1>2. ASSUME NEW p \in Process, AgentsTick(p)
        PROVE  DraftIsStore'
    BY <1>2 DEF AgentsTick, NoWrite, Write
  <1>3. ASSUME NEW p \in Process, CursorTick(p) \/ ScanTick(p) \/ HerdrTick(p)
        PROVE  DraftIsStore'
    BY <1>3 DEF CursorTick, ScanTick, HerdrTick, NoWrite, Write
  <1>4. ASSUME NEW p \in Process, Commit(p)
        PROVE  DraftIsStore'
    BY <1>4 DEF Commit
  <1>5. ASSUME NEW p \in Process, LastTick(p)
        PROVE  DraftIsStore'
    BY <1>5 DEF LastTick
  <1>6. ASSUME NEW p \in Process, Ends(p)
        PROVE  DraftIsStore'
    BY <1>6 DEF Ends, Rollback
  <1>7. CASE Poll \/ Rebuild
    BY <1>7 DEF Poll, Rebuild
  <1>8. CASE FileChanges \/ HerdrChanges \/ FolderChanges \/ ScanChanges \/ Elapse
    BY <1>8 DEF FileChanges, HerdrChanges, FolderChanges, ScanChanges, Elapse
  <1>9. CASE UNCHANGED vars
    BY <1>9 DEF vars
  <1> QED
    BY <1>1, <1>2, <1>3, <1>4, <1>5, <1>6, <1>7, <1>8, <1>9 DEF Next, TickStep

\* The tick compares what it sees with what it remembers, and only without a memory with the
\* row of the store: the row it confirms is the one it sees.
LEMMA AgentsTickConfirms ==
    ASSUME IInv, alone, "cursor" \notin cfg, AgentsTick("daemon")
    PROVE  /\ UNCHANGED store
           /\ draft'.ok # NoAge => draft'.honest = TRUE
           /\ draft'.agents = mem'["daemon"].agents
  <1> DEFINE db        == Visible("daemon")
             known     == IF mem["daemon"].agents # Nothing THEN mem["daemon"].agents
                          ELSE db.agents
             list      == <<Sessions("daemon")>>
             row       == IF known = list /\ db.agents # Nothing THEN db.agents ELSE list
  <1> USE TwoProcesses
  <1>1. pc["daemon"] = "agents" /\ UNCHANGED store
    BY DEF AgentsTick
  <1>2. lock # "once" /\ lock # "daemon" /\ view["daemon"] # "stale"
    BY <1>1, AloneWithTheStore DEF IInv, OnlyWriter, LockIsInBatch
  <1>3. db = draft
    <2>1. CASE lock = "none"
      BY <1>2, <2>1 DEF Visible, IInv, DraftIsStore
    <2>2. CASE lock # "none"
      BY <1>2, <2>2 DEF IInv, Shape
    <2> QED
      BY <2>1, <2>2
  <1>4. mem'["daemon"].agents = list
    BY MemoryFields DEF AgentsTick, IInv, Shape
  <1>5. \/ known = list /\ draft' = draft
        \/ draft' = Confirmed("daemon", draft, row)
    <2>1. ~ MayFail("daemon")
      BY <1>2 DEF MayFail, IInv, Shape
    <2>2. \/ known = list /\ NoWrite
          \/ Write("daemon", Confirmed("daemon", db, row))
      BY <2>1 DEF AgentsTick
    <2> QED
      BY <1>3, <2>2 DEF NoWrite, Write
  <1>6. known = list => draft.agents = list \/ db.agents = list
    BY <1>3 DEF IInv, RowIsRemembered
  <1>7. CASE known = list /\ draft' = draft
    BY <1>1, <1>3, <1>4, <1>6, <1>7 DEF IInv, RowIsRemembered
  <1>8. CASE draft' = Confirmed("daemon", draft, row)
    <2>1. row = list
      BY <1>3, <1>6
    <2>2. draft'.agents = row /\ draft'.honest = (row = list)
      BY <1>8 DEF Confirmed, IInv, Shape
    <2> QED
      BY <1>1, <1>4, <2>1, <2>2
  <1> QED
    BY <1>5, <1>7, <1>8

LEMMA NextRow == IInv /\ [Next]_vars => RowIsRemembered'
  <1> SUFFICES ASSUME IInv, [Next]_vars, alone', "cursor" \notin cfg'
               PROVE  /\ store'.ok # NoAge => store'.honest = TRUE
                      /\ draft'.ok # NoAge => draft'.honest = TRUE
                      /\ mem'["daemon"].agents # Nothing
                            => draft'.agents = mem'["daemon"].agents
    BY DEF RowIsRemembered
  <1> DEFINE Goal == /\ store'.ok # NoAge => store'.honest = TRUE
                     /\ draft'.ok # NoAge => draft'.honest = TRUE
                     /\ mem'["daemon"].agents # Nothing
                           => draft'.agents = mem'["daemon"].agents
  <1> USE TwoProcesses, MemoryFields DEF IInv, Shape, RowIsRemembered, worldVars, dbVars
  <1>1. ASSUME NEW p \in Process, Start(p)
        PROVE  Goal
    BY <1>1 DEF Start
  <1>2. ASSUME NEW p \in Process, StatRegistry(p) \/ ParseRegistry(p)
        PROVE  Goal
    <2>1. mem'["daemon"].agents = mem["daemon"].agents
      <3>1. CASE StatRegistry(p)
        BY <3>1 DEF StatRegistry
      <3>2. CASE ParseRegistry(p)
        BY <3>2 DEF ParseRegistry
      <3> QED
        BY <1>2, <3>1, <3>2
    <2> QED
      BY <1>2, <2>1 DEF StatRegistry, ParseRegistry
  <1>3. ASSUME NEW p \in Process, AgentsTick(p)
        PROVE  Goal
    <2>1. p = "daemon" /\ alone /\ "cursor" \notin cfg
      BY <1>3, AloneWithTheStore DEF AgentsTick
    <2> QED
      BY <1>3, <2>1, AgentsTickConfirms
  \* The Cursor collector is off, and the others write rows of other kinds.
  <1>4. ASSUME NEW p \in Process, CursorTick(p)
        PROVE  Goal
    BY <1>4 DEF CursorTick, CursorIsEnabled
  <1>5. ASSUME NEW p \in Process, ScanTick(p) \/ HerdrTick(p)
        PROVE  Goal
    <2>1. p = "daemon" /\ alone
      BY <1>5, AloneWithTheStore DEF ScanTick, HerdrTick
    <2>2. lock # "once"
      BY <1>5, AloneWithTheStore DEF ScanTick, HerdrTick
    <2>3. Visible(p) \in {store, draft}
      BY DEF Visible
    <2>4. Visible(p) = draft
      BY <2>1, <2>2, <2>3, <1>5 DEF Visible, DraftIsStore, ScanTick, HerdrTick, Write,
         CanWrite, MayFail
    <2>5. UNCHANGED store /\ (draft' = draft \/ (draft'.ok = draft.ok
             /\ draft'.honest = draft.honest /\ draft'.agents = draft.agents))
      BY <1>5, <2>4 DEF ScanTick, HerdrTick, NoWrite, Write
    <2>6. mem'["daemon"].agents = mem["daemon"].agents /\ UNCHANGED cfg
      <3>1. CASE ScanTick(p)
        BY <3>1 DEF ScanTick
      <3>2. CASE HerdrTick(p)
        BY <3>2 DEF HerdrTick
      <3> QED
        BY <1>5, <3>1, <3>2
    <2> QED
      BY <2>1, <2>5, <2>6
  <1>6. ASSUME NEW p \in Process, Commit(p)
        PROVE  Goal
    BY <1>6 DEF Commit
  <1>7. ASSUME NEW p \in Process, LastTick(p)
        PROVE  Goal
    BY <1>7 DEF LastTick
  <1>8. ASSUME NEW p \in Process, Ends(p)
        PROVE  Goal
    <2>1. p = "daemon" /\ alone
      BY <1>8, AloneWithTheStore DEF Ends
    <2> QED
      BY <1>8, <2>1 DEF Ends, Rollback
  <1>9. CASE Poll \/ Rebuild
    BY <1>9 DEF Poll, Rebuild
  <1>10. CASE FileChanges \/ HerdrChanges \/ ScanChanges
    <2>1. mem'["daemon"].agents = mem["daemon"].agents
      <3>1. CASE FileChanges
        BY <3>1 DEF FileChanges, Unmatched
      <3>2. CASE HerdrChanges \/ ScanChanges
        BY <3>2 DEF HerdrChanges, ScanChanges
      <3> QED
        BY <1>10, <3>1, <3>2
    <2> QED
      BY <1>10, <2>1 DEF FileChanges, HerdrChanges, ScanChanges
  <1>11. CASE FolderChanges
    BY <1>11 DEF FolderChanges
  <1>12. CASE Elapse
    <2>1. lock = "none"
      BY <1>12 DEF Elapse, LockIsInBatch
    <2>2. draft = store
      BY <2>1 DEF DraftIsStore
    <2>3. store.ok = NoAge => store'.ok = NoAge
      BY <1>12 DEF Elapse, Older
    <2>4. store'.honest = store.honest /\ store'.agents = store.agents /\ draft' = store'
      BY <1>12 DEF Elapse
    <2>5. mem'["daemon"].agents = mem["daemon"].agents /\ UNCHANGED <<cfg, alone>>
      BY <1>12 DEF Elapse
    <2> QED
      BY <2>2, <2>3, <2>4, <2>5
  <1>13. CASE UNCHANGED vars
    BY <1>13 DEF vars
  <1> QED
    BY <1>1, <1>2, <1>3, <1>4, <1>5, <1>6, <1>7, <1>8, <1>9, <1>10, <1>11, <1>12, <1>13
    DEF Next, TickStep

LEMMA InitIInv == Init => IInv
  BY InitShape, MemoryFields, TwoProcesses
  DEF Init, IInv, OnlyWriter, DraftIsStore, CursorIsEnabled, RowIsRemembered

LEMMA IInvHolds == Spec => []IInv
  <1>1. IInv /\ [Next]_vars => IInv'
    BY NextShape, NextLock, NextAlone, NextCursor, NextDraft, NextRow DEF IInv
  <1> QED
    BY InitIInv, <1>1, PTL DEF Spec

(* agent_sessions_last_ok confirms the list that was seen when it was       *)
(* written, for a daemon that is the only writer of the kind: whatever it   *)
(* remembers, and whatever row a daemon before it left in the store.        *)
THEOREM ConfirmedRowAlwaysSeen == Spec => []ConfirmedRowWasSeen
  <1>1. IInv => ConfirmedRowWasSeen
    BY DEF IInv, RowIsRemembered, ConfirmedRowWasSeen
  <1> QED
    BY <1>1, IInvHolds, PTL

-----------------------------------------------------------------------------
(* Types *)

\* What the sources list has ids that exist.
LEMMA SeenTypes ==
    ASSUME TypeOK
    PROVE  /\ \A f \in Files : Parsed(f) \in SUBSET Ids
           /\ \A p \in Process : Sessions(p) \in Listed
           /\ CursorRows(folder) \in Listed
           /\ <<herdr>> \in Option(Panes) /\ Seen \in Option(Scans)
  <1>1. /\ \A f \in Files : Parsed(f) \subseteq Ids
        /\ herdr \subseteq Ids /\ folder \subseteq Ids
    BY DEF Ids, TypeOK
  <1>2. \A p \in Process : mem[p].rows \subseteq Ids
    BY DEF TypeOK, Memory
  <1>3. \A p \in Process : Sessions(p) \in Listed
    BY <1>1, <1>2 DEF Sessions, MergeHerdr, HerdrRows, Listed
  <1>4. CursorRows(folder) \in Listed
    BY <1>1 DEF CursorRows, Listed
  <1> QED
    BY <1>1, <1>3, <1>4 DEF Option, Seen, TypeOK

LEMMA MemoryTypes == NoMemory \in Memory /\ NewMemory \in Memory
  BY DEF NoMemory, NewMemory, Memory, Option, Age, Nothing

LEMMA BoundTypes == /\ MaxOk \in Nat /\ MaxHerdr \in Nat /\ Keyframe \in Nat
                    /\ PollEvery \in Nat \ {0}
  BY JournalAssumption DEF MaxOk, MaxHerdr

LEMMA OlderType ==
    ASSUME NEW most \in Nat, NEW a \in Age(most)
    PROVE  Older(a, most) \in Age(most)
  BY DEF Older, Age, NoAge

LEMMA StageTypes ==
    ASSUME NEW i \in 1 .. 5
    PROVE  StageFrom(i) \in Stage
  BY StageFromType DEF InBatch, Stage

LEMMA VisibleType ==
    ASSUME TypeOK, NEW p \in Process
    PROVE  Visible(p) \in Store
  BY DEF TypeOK, Visible

LEMMA UpdateTypes ==
    ASSUME NEW db \in Store, NEW row \in Option(Listed), NEW h \in BOOLEAN,
           NEW s \in Option(Scans), NEW panes \in Option(Panes)
    PROVE  /\ [db EXCEPT !.agents = row, !.ok = 0, !.honest = h] \in Store
           /\ [db EXCEPT !.agents = row, !.honest = h] \in Store
           /\ [db EXCEPT !.scan = s] \in Store
           /\ [db EXCEPT !.herdr = panes, !.herdrAge = 0] \in Store
  <1>1. 0 \in Age(MaxOk) /\ 0 \in Age(MaxHerdr)
    BY BoundTypes DEF Age
  <1> QED
    BY <1>1 DEF Store

\* What a collector writes, or does not, leaves a draft of its type.
LEMMA WriteType ==
    ASSUME TypeOK, NEW p \in Process, NEW db \in Store, NoWrite \/ Write(p, db)
    PROVE  draft' \in Store /\ lock' \in Process \cup {"none"}
  BY DEF TypeOK, NoWrite, Write

LEMMA MemoryUpdate ==
    ASSUME TypeOK, NEW p \in Process, NEW m \in Memory
    PROVE  [mem EXCEPT ![p] = m] \in [Process -> Memory]
  BY DEF TypeOK

LEMMA OutdatedType ==
    ASSUME TypeOK, NEW p \in Process
    PROVE  Outdated(p) \in [Process -> {"none", "fresh", "stale"}]
  BY DEF TypeOK, Outdated

LEMMA InitType == Init => TypeOK
  <1> SUFFICES ASSUME Init
               PROVE  TypeOK
    OBVIOUS
  <1>1. store \in Store
    BY DEF Init, Store, Option, Age, Nothing
  <1>2. /\ file \in Files /\ herdr \in Panes /\ folder \in Folders /\ scan \in Scans
        /\ pollIn \in 0 .. PollEvery
    BY JournalAssumption DEF Init
  <1> QED
    BY <1>1, <1>2, MemoryTypes DEF Init, TypeOK

LEMMA NextType == TypeOK /\ [Next]_vars => TypeOK'
  <1> SUFFICES ASSUME TypeOK, [Next]_vars
               PROVE  TypeOK'
    OBVIOUS
  <1> USE BoundTypes DEF worldVars, dbVars, Goes
  <1>1. ASSUME NEW p \in Process, Start(p)
        PROVE  TypeOK'
    BY <1>1, StageTypes, MemoryTypes, OutdatedType DEF Start, AutoCommit, TypeOK
  <1>2. ASSUME NEW p \in Process, StatRegistry(p)
        PROVE  TypeOK'
    <2>1. mem' \in [Process -> Memory]
      BY <1>2 DEF StatRegistry, TypeOK, Memory
    <2> QED
      BY <1>2, <2>1 DEF StatRegistry, TypeOK, Stage
  <1>3. ASSUME NEW p \in Process, ParseRegistry(p)
        PROVE  TypeOK'
    <2>1. mem' \in [Process -> Memory]
      BY <1>3, SeenTypes DEF ParseRegistry, TypeOK, Memory
    <2> QED
      BY <1>3, <2>1 DEF ParseRegistry, TypeOK, Stage
  <1>4. ASSUME NEW p \in Process, AgentsTick(p)
        PROVE  TypeOK'
    <2>1. mem' \in [Process -> Memory]
      <3>1. mem' = [mem EXCEPT ![p].agents = <<Sessions(p)>>]
        BY <1>4 DEF AgentsTick
      <3> QED
        BY <3>1, SeenTypes DEF TypeOK, Memory, Option
    <2>2. draft' \in Store /\ lock' \in Process \cup {"none"}
      <3>1. ASSUME NEW row \in Option(Listed)
            PROVE  Confirmed(p, Visible(p), row) \in Store
        <4>1. (row = <<Sessions(p)>>) \in BOOLEAN
          OBVIOUS
        <4>2. Visible(p) \in Store /\ <<scan>> \in Option(Scans) /\ <<herdr>> \in Option(Panes)
          BY VisibleType, SeenTypes DEF Seen
        <4> QED
          BY <4>1, <4>2, UpdateTypes DEF Confirmed
      <3>2. Visible(p).agents \in Option(Listed) /\ <<Sessions(p)>> \in Option(Listed)
        BY VisibleType, SeenTypes DEF Store, Option
      <3> QED
        BY <1>4, <3>1, <3>2 DEF AgentsTick, NoWrite, Write, TypeOK
    <2>3. pc' \in [Process -> Stage \cup {"off", "wait"}]
      BY <1>4, StageTypes DEF AgentsTick, TypeOK
    <2> QED
      BY <1>4, <2>1, <2>2, <2>3 DEF AgentsTick, TypeOK
  <1>5. ASSUME NEW p \in Process, CursorTick(p)
        PROVE  TypeOK'
    <2>1. mem' = mem \/ mem' = [mem EXCEPT ![p].cursor = TRUE]
      BY <1>5 DEF CursorTick
    <2>2. mem' \in [Process -> Memory]
      <3>1. [mem[p] EXCEPT !.cursor = TRUE] \in Memory
        BY SeenTypes DEF TypeOK, Memory, Age
      <3> QED
        BY <2>1, <3>1, MemoryUpdate DEF TypeOK
    <2>3. [Visible(p) EXCEPT !.agents = <<CursorRows(folder)>>, !.honest = FALSE] \in Store
      <3>1. Visible(p) \in Store /\ <<CursorRows(folder)>> \in Option(Listed)
            /\ <<herdr>> \in Option(Panes) /\ Seen \in Option(Scans)
        BY VisibleType, SeenTypes DEF Option
      <3> QED
        BY <3>1, UpdateTypes
    <2>4. NoWrite \/ Write(p, [Visible(p) EXCEPT !.agents = <<CursorRows(folder)>>, !.honest = FALSE])
      BY <1>5 DEF CursorTick
    <2>5. draft' \in Store /\ lock' \in Process \cup {"none"}
      BY <2>3, <2>4, WriteType
    <2>6. pc' \in [Process -> Stage \cup {"off", "wait"}]
      <3>1. StageFrom(3) \in Stage
        BY StageTypes
      <3> QED
        BY <1>5, <3>1 DEF CursorTick, TypeOK
    <2> QED
      BY <1>5, <2>2, <2>5, <2>6 DEF CursorTick, TypeOK
  <1>6. ASSUME NEW p \in Process, ScanTick(p)
        PROVE  TypeOK'
    <2>1. mem' = mem \/ mem' = [mem EXCEPT ![p].scan = Seen]
      BY <1>6 DEF ScanTick
    <2>2. mem' \in [Process -> Memory]
      <3>1. [mem[p] EXCEPT !.scan = Seen] \in Memory
        BY SeenTypes DEF TypeOK, Memory, Age
      <3> QED
        BY <2>1, <3>1, MemoryUpdate DEF TypeOK
    <2>3. [Visible(p) EXCEPT !.scan = Seen] \in Store
      <3>1. Visible(p) \in Store /\ <<CursorRows(folder)>> \in Option(Listed)
            /\ <<herdr>> \in Option(Panes) /\ Seen \in Option(Scans)
        BY VisibleType, SeenTypes DEF Option
      <3> QED
        BY <3>1, UpdateTypes
    <2>4. NoWrite \/ Write(p, [Visible(p) EXCEPT !.scan = Seen])
      BY <1>6 DEF ScanTick
    <2>5. draft' \in Store /\ lock' \in Process \cup {"none"}
      BY <2>3, <2>4, WriteType
    <2>6. pc' \in [Process -> Stage \cup {"off", "wait"}]
      <3>1. StageFrom(4) \in Stage
        BY StageTypes
      <3> QED
        BY <1>6, <3>1 DEF ScanTick, TypeOK
    <2> QED
      BY <1>6, <2>2, <2>5, <2>6 DEF ScanTick, TypeOK
  <1>7. ASSUME NEW p \in Process, HerdrTick(p)
        PROVE  TypeOK'
    <2>1. mem' = mem \/ mem' = [mem EXCEPT ![p].herdr = <<herdr>>, ![p].since = 0]
      BY <1>7 DEF HerdrTick
    <2>2. mem' \in [Process -> Memory]
      <3>1. mem[p] \in Memory /\ 0 \in Age(Keyframe) /\ <<herdr>> \in Option(Panes)
        BY SeenTypes DEF TypeOK, Age
      <3>2. [mem[p] EXCEPT !.herdr = <<herdr>>, !.since = 0] \in Memory
        BY <3>1 DEF Memory
      <3>3. mem[p] = [mem[p] EXCEPT !.herdr = mem[p].herdr] /\ DOMAIN mem = Process
        BY <3>1 DEF Memory, TypeOK
      <3>4. [mem EXCEPT ![p].herdr = <<herdr>>, ![p].since = 0]
                = [mem EXCEPT ![p] = [mem[p] EXCEPT !.herdr = <<herdr>>, !.since = 0]]
        BY <3>3
      <3> QED
        BY <2>1, <3>2, <3>4, MemoryUpdate DEF TypeOK
    <2>3. [Visible(p) EXCEPT !.herdr = <<herdr>>, !.herdrAge = 0] \in Store
      <3>1. Visible(p) \in Store /\ <<CursorRows(folder)>> \in Option(Listed)
            /\ <<herdr>> \in Option(Panes) /\ Seen \in Option(Scans)
        BY VisibleType, SeenTypes DEF Option
      <3> QED
        BY <3>1, UpdateTypes
    <2>4. NoWrite \/ Write(p, [Visible(p) EXCEPT !.herdr = <<herdr>>, !.herdrAge = 0])
      BY <1>7 DEF HerdrTick
    <2>5. draft' \in Store /\ lock' \in Process \cup {"none"}
      BY <2>3, <2>4, WriteType
    <2>6. pc' \in [Process -> Stage \cup {"off", "wait"}]
      <3>1. StageFrom(5) \in Stage
        BY StageTypes
      <3> QED
        BY <1>7, <3>1 DEF HerdrTick, TypeOK
    <2> QED
      BY <1>7, <2>2, <2>5, <2>6 DEF HerdrTick, TypeOK
  <1>8. ASSUME NEW p \in Process, Commit(p)
        PROVE  TypeOK'
    BY <1>8, OutdatedType DEF Commit, Begin, TypeOK, Stage
  <1>9. ASSUME NEW p \in Process, LastTick(p)
        PROVE  TypeOK'
    BY <1>9, OutdatedType, MemoryTypes DEF LastTick, AutoCommit, TypeOK
  <1>10. ASSUME NEW p \in Process, Ends(p)
         PROVE  TypeOK'
    BY <1>10, MemoryTypes DEF Ends, Rollback, TypeOK
  <1>11. CASE Poll
    BY <1>11, StageTypes DEF Poll, Begin, TypeOK, Process
  <1>12. CASE Rebuild
    BY <1>12, MemoryTypes DEF Rebuild, TypeOK
  <1>13. CASE FileChanges
    <2>1. mem' \in [Process -> Memory]
      BY <1>13 DEF FileChanges, Unmatched, TypeOK, Memory
    <2> QED
      BY <1>13, <2>1 DEF FileChanges, TypeOK
  <1>14. CASE HerdrChanges \/ ScanChanges
    BY <1>14 DEF HerdrChanges, ScanChanges, TypeOK
  <1>15. CASE FolderChanges
    <2>1. mem' \in [Process -> Memory]
      BY <1>15 DEF FolderChanges, TypeOK, Memory
    <2> QED
      BY <1>15, <2>1 DEF FolderChanges, TypeOK
  <1>16. CASE Elapse
    <2>1. mem' \in [Process -> Memory]
      <3>1. \A p \in Process : Older(mem[p].since, Keyframe) \in Age(Keyframe)
        BY OlderType DEF TypeOK, Memory
      <3> QED
        BY <1>16, <3>1 DEF Elapse, TypeOK, Memory
    <2>2. store' \in Store
      <3>1. Older(store.ok, MaxOk) \in Age(MaxOk) /\ Older(store.herdrAge, MaxHerdr) \in Age(MaxHerdr)
        BY OlderType DEF TypeOK, Store
      <3> QED
        BY <1>16, <3>1 DEF Elapse, TypeOK, Store
    <2>3. pollIn' \in 0 .. PollEvery
      BY <1>16 DEF Elapse, TypeOK
    <2> QED
      BY <1>16, <2>1, <2>2, <2>3 DEF Elapse, TypeOK
  <1>17. CASE UNCHANGED vars
    BY <1>17 DEF vars, TypeOK
  <1> QED
    BY <1>1, <1>2, <1>3, <1>4, <1>5, <1>6, <1>7, <1>8, <1>9, <1>10, <1>11, <1>12, <1>13, <1>14,
       <1>15, <1>16, <1>17 DEF Next, TickStep

(* Every reachable state of the store and of the two processes has its      *)
(* types: an age stays within its bound, a row lists what a source can      *)
(* list, and a process is at a stage of its tick (daemon_collectors.py,     *)
(* store/db.py).                                                            *)
THEOREM TypeCorrect == Spec => []TypeOK
  BY InitType, NextType, PTL DEF Spec

-----------------------------------------------------------------------------
(* The ages of what a polling daemon has stored *)

\* With the agents enabled, no row of the kind is older than last_ok, and a tick that has
\* passed its agents' stage has seen to it that last_ok is young.
Confirms(db) == db.ok = NoAge => db.agents = Nothing
AgentsAreYoung ==
    alone /\ "agents" \in cfg =>
        /\ Confirms(store) /\ Confirms(draft)
        /\ pc["daemon"] \in InBatch => draft.ok \in 0 .. Refresh
        /\ pc["daemon"] = "meta" => store.ok \in 0 .. Refresh
        /\ pc["daemon"] = "wait" => store.ok \in 0 .. Refresh + (PollEvery - pollIn)

\* The collector counts the age of the row it has written, as long as it needs it.
HerdrIsYoung ==
    alone /\ "herdr" \in cfg =>
        /\ mem["daemon"].since # NoAge /\ mem["daemon"].since < Keyframe
               => draft.herdrAge = mem["daemon"].since
        /\ pc["daemon"] = "commit" => draft.herdrAge \in 0 .. Keyframe
        /\ pc["daemon"] = "meta" => store.herdrAge \in 0 .. Keyframe
        /\ pc["daemon"] = "wait" => store.herdrAge \in 0 .. Keyframe + (PollEvery - pollIn)

QInv == IInv /\ TypeOK /\ AgentsAreYoung /\ HerdrIsYoung

LEMMA AgeTypes ==
    ASSUME TypeOK
    PROVE  /\ store.ok \in Age(MaxOk) /\ draft.ok \in Age(MaxOk)
           /\ store.herdrAge \in Age(MaxHerdr) /\ draft.herdrAge \in Age(MaxHerdr)
           /\ mem["daemon"].since \in Age(Keyframe)
           /\ pollIn \in 0 .. PollEvery
           /\ store \in Store /\ draft \in Store /\ mem["daemon"] \in Memory
           /\ DOMAIN mem = Process /\ DOMAIN pc = Process
  BY TwoProcesses DEF TypeOK, Store, Memory

LEMMA ConfigStays ==
    ASSUME [Next]_vars
    PROVE  cfg' = cfg /\ (alone' => alone)
  <1> USE DEF worldVars
  <1>1. ASSUME NEW p \in Process, Start(p) \/ TickStep(p) \/ Ends(p)
        PROVE  cfg' = cfg /\ (alone' => alone)
    <2>1. CASE Start(p)
      BY <2>1 DEF Start
    <2>2. CASE Ends(p)
      BY <2>2 DEF Ends
    <2>3. CASE StatRegistry(p) \/ ParseRegistry(p) \/ Commit(p) \/ LastTick(p)
      BY <2>3 DEF StatRegistry, ParseRegistry, Commit, LastTick
    <2>4. CASE AgentsTick(p)
      BY <2>4 DEF AgentsTick
    <2>5. CASE CursorTick(p) \/ ScanTick(p) \/ HerdrTick(p)
      BY <2>5 DEF CursorTick, ScanTick, HerdrTick
    <2> QED
      BY <1>1, <2>1, <2>2, <2>3, <2>4, <2>5 DEF TickStep
  <1>2. CASE Poll \/ Rebuild \/ FileChanges \/ HerdrChanges \/ FolderChanges \/ ScanChanges
             \/ Elapse
    BY <1>2 DEF Poll, Rebuild, FileChanges, HerdrChanges, FolderChanges, ScanChanges, Elapse
  <1>3. CASE UNCHANGED vars
    BY <1>3 DEF vars
  <1> QED
    BY <1>1, <1>2, <1>3 DEF Next

\* A daemon that is alone reads its own draft, and no write of it is refused.
LEMMA AloneWrites ==
    ASSUME IInv, alone, pc["daemon"] # "off"
    PROVE  /\ Visible("daemon") = draft
           /\ ~ MayFail("daemon")
  <1>1. lock \in {"none", "daemon"} /\ view["daemon"] # "stale"
    BY AloneWithTheStore, TwoProcesses DEF IInv, Shape, OnlyWriter, Process
  <1> QED
    BY <1>1 DEF Visible, MayFail, IInv, DraftIsStore

\* Alone, the process that takes a step of a tick is the daemon.
LEMMA AloneSteps ==
    ASSUME IInv, alone, NEW p \in Process, pc[p] # "off"
    PROVE  p = "daemon"
  BY AloneWithTheStore

LEMMA AgentsTickIsYoung ==
    ASSUME QInv, alone, "agents" \in cfg, AgentsTick("daemon")
    PROVE  /\ draft'.ok \in 0 .. Refresh
           /\ store' = store
  <1>1. pc["daemon"] = "agents" /\ store' = store
    BY DEF AgentsTick
  <1>2. Visible("daemon") = draft /\ ~ MayFail("daemon")
    BY <1>1, AloneWrites DEF QInv
  <1>3. PICK isStale \in BOOLEAN :
            /\ MayBeStale(draft, isStale)
            /\ \/ ~isStale /\ NoWrite
               \/ \E row : Write("daemon", Confirmed("daemon", draft, row))
    BY <1>2 DEF AgentsTick
  <1>4. Confirms(draft) /\ draft.ok \in Age(MaxOk) /\ draft \in Store /\ Refresh \in Nat
    BY AgeTypes, JournalAssumption DEF QInv, AgentsAreYoung
  <1>5. CASE ~isStale /\ NoWrite
    <2>1. draft.ok # NoAge
      BY <1>3, <1>4, <1>5 DEF MayBeStale, Confirms
    <2>2. ~(draft.ok > Refresh)
      <3>1. isStale = FALSE
        BY <1>5
      <3>2. MayBeStale(draft, FALSE)
        BY <1>3, <3>1
      <3> QED
        BY <2>1, <3>2 DEF MayBeStale
    <2> QED
      BY <1>1, <1>4, <1>5, <2>1, <2>2, BoundTypes DEF NoWrite, Age
  <1>6. CASE \E row : Write("daemon", Confirmed("daemon", draft, row))
    <2>1. PICK row : draft' = Confirmed("daemon", draft, row)
      BY <1>6 DEF Write
    <2>2. "ok" \in DOMAIN draft
      BY <1>4 DEF Store
    <2>3. draft'.ok = 0
      BY <2>1, <2>2 DEF Confirmed
    <2> QED
      BY <1>1, <1>4, <2>3
  <1> QED
    BY <1>3, <1>5, <1>6

\* The ticks after the agents' leave last_ok, and the Cursor rows the kind, as they are.
LEMMA LaterTicksKeepOk ==
    ASSUME QInv, alone, NEW p \in Process, CursorTick(p) \/ ScanTick(p) \/ HerdrTick(p)
    PROVE  /\ p = "daemon" /\ pc["daemon"] \in {"cursor", "scan", "herdr"}
           /\ pc'["daemon"] \in InBatch
           /\ draft'.ok = draft.ok /\ store' = store
  <1>1. pc[p] \in {"cursor", "scan", "herdr"}
    BY DEF CursorTick, ScanTick, HerdrTick
  <1>2. p = "daemon"
    BY <1>1, AloneSteps DEF QInv
  <1>3. Visible(p) = draft /\ draft \in Store
    BY <1>1, <1>2, AloneWrites, AgeTypes DEF QInv
  <1>4. StageFrom(3) \in InBatch /\ StageFrom(4) \in InBatch /\ StageFrom(5) \in InBatch
    BY StageFromType
  <1>5. pc'["daemon"] \in InBatch
    BY <1>2, <1>4, AgeTypes DEF CursorTick, ScanTick, HerdrTick, Goes, QInv
  <1>6. ASSUME CursorTick(p)
        PROVE  draft'.ok = draft.ok
    <2>1. draft' = draft \/ draft' = [draft EXCEPT !.agents = <<CursorRows(folder)>>, !.honest = FALSE]
      BY <1>3, <1>6 DEF CursorTick, NoWrite, Write
    <2>2. DOMAIN draft = {"agents", "ok", "honest", "scan", "herdr", "herdrAge"}
      BY <1>3 DEF Store
    <2> QED
      BY <2>1, <2>2
  <1>7. ASSUME ScanTick(p)
        PROVE  draft'.ok = draft.ok
    <2>1. draft' = draft \/ draft' = [draft EXCEPT !.scan = Seen]
      BY <1>3, <1>7 DEF ScanTick, NoWrite, Write
    <2>2. DOMAIN draft = {"agents", "ok", "honest", "scan", "herdr", "herdrAge"}
      BY <1>3 DEF Store
    <2> QED
      BY <2>1, <2>2
  <1>8. ASSUME HerdrTick(p)
        PROVE  draft'.ok = draft.ok
    <2>1. draft' = draft \/ draft' = [draft EXCEPT !.herdr = <<herdr>>, !.herdrAge = 0]
      BY <1>3, <1>8 DEF HerdrTick, NoWrite, Write
    <2>2. DOMAIN draft = {"agents", "ok", "honest", "scan", "herdr", "herdrAge"}
      BY <1>3 DEF Store
    <2> QED
      BY <2>1, <2>2
  <1>9. draft'.ok = draft.ok
    BY <1>6, <1>7, <1>8
  <1>10. store' = store
    BY DEF CursorTick, ScanTick, HerdrTick
  <1> QED
    BY <1>1, <1>2, <1>5, <1>9, <1>10

LEMMA NextAgents == QInv /\ [Next]_vars => AgentsAreYoung'
  <1> SUFFICES ASSUME QInv, [Next]_vars, alone', "agents" \in cfg'
               PROVE  /\ Confirms(store)' /\ Confirms(draft)'
                      /\ pc'["daemon"] \in InBatch => draft'.ok \in 0 .. Refresh
                      /\ pc'["daemon"] = "meta" => store'.ok \in 0 .. Refresh
                      /\ pc'["daemon"] = "wait" =>
                             store'.ok \in 0 .. Refresh + (PollEvery - pollIn')
    BY DEF AgentsAreYoung, InBatch
  <1> DEFINE Goal == /\ Confirms(store)' /\ Confirms(draft)'
                     /\ pc'["daemon"] \in InBatch => draft'.ok \in 0 .. Refresh
                     /\ pc'["daemon"] = "meta" => store'.ok \in 0 .. Refresh
                     /\ pc'["daemon"] = "wait" =>
                             store'.ok \in 0 .. Refresh + (PollEvery - pollIn')
  <1>a. alone /\ "agents" \in cfg /\ DOMAIN pc = Process
    BY ConfigStays, AgeTypes DEF QInv
  <1>b. /\ Confirms(store) /\ Confirms(draft)
        /\ pc["daemon"] \in InBatch => draft.ok \in 0 .. Refresh
        /\ pc["daemon"] = "meta" => store.ok \in 0 .. Refresh
        /\ pc["daemon"] = "wait" => store.ok \in 0 .. Refresh + (PollEvery - pollIn)
    BY <1>a DEF QInv, AgentsAreYoung
  <1>c. StageFrom(1) = "stat"
    BY <1>a, StageFromType
  <1>d. /\ Refresh \in Nat /\ PollEvery \in Nat /\ pollIn \in 0 .. PollEvery
        /\ MaxOk = Refresh + PollEvery + 1
    BY JournalAssumption, AgeTypes DEF QInv, MaxOk
  <1> USE TwoProcesses DEF Goes, InBatch
  <1>1. ASSUME NEW p \in Process, Start(p)
        PROVE  Goal
    BY <1>1, <1>a, <1>b, <1>c DEF Start, Confirms
  <1>2. ASSUME NEW p \in Process, StatRegistry(p) \/ ParseRegistry(p)
        PROVE  Goal
    <2>1. p = "daemon"
      BY <1>2, <1>a, AloneSteps DEF StatRegistry, ParseRegistry, QInv
    <2> QED
      BY <1>2, <1>a, <1>b, <2>1 DEF StatRegistry, ParseRegistry, dbVars, Confirms
  <1>3. ASSUME NEW p \in Process, AgentsTick(p)
        PROVE  Goal
    <2>1. p = "daemon"
      BY <1>3, <1>a, AloneSteps DEF AgentsTick, QInv
    <2>2. draft'.ok \in 0 .. Refresh /\ store' = store
      BY <1>3, <1>a, <2>1, AgentsTickIsYoung
    <2>3. pc'["daemon"] \in InBatch
      BY <1>3, <1>a, <2>1, StageFromType DEF AgentsTick
    <2>4. draft'.ok # NoAge
      BY <1>d, <2>2 DEF NoAge
    <2> QED
      BY <1>b, <2>2, <2>3, <2>4 DEF Confirms
  <1>4. ASSUME NEW p \in Process, CursorTick(p) \/ ScanTick(p) \/ HerdrTick(p)
        PROVE  Goal
    <2>1. /\ pc["daemon"] \in {"cursor", "scan", "herdr"}
          /\ pc'["daemon"] \in InBatch /\ draft'.ok = draft.ok /\ store' = store
      BY <1>4, <1>a, LaterTicksKeepOk
    <2>2. draft'.ok \in 0 .. Refresh /\ draft'.ok # NoAge
      BY <1>b, <1>d, <2>1 DEF NoAge
    <2> QED
      BY <1>b, <2>1, <2>2 DEF Confirms
  <1>5. ASSUME NEW p \in Process, Commit(p)
        PROVE  Goal
    <2>1. p = "daemon" /\ pc["daemon"] = "commit" /\ pc'["daemon"] = "meta" /\ draft' = draft
      BY <1>5, <1>a, AloneSteps DEF Commit, QInv
    <2>2. store' = draft
      BY <1>5, <1>a, <2>1, AloneWithTheStore DEF Commit, QInv, IInv, DraftIsStore, Shape, Process
    <2> QED
      BY <1>b, <2>1, <2>2 DEF Confirms
  <1>6. ASSUME NEW p \in Process, LastTick(p)
        PROVE  Goal
    <2>1. p = "daemon"
      BY <1>6, <1>a, AloneSteps DEF LastTick, QInv
    <2>2. /\ pc["daemon"] = "meta" /\ pc'["daemon"] = "wait"
          /\ store' = store /\ draft' = draft /\ pollIn' = pollIn
      BY <1>6, <1>a, <2>1 DEF LastTick
    <2> QED
      BY <1>b, <1>d, <2>2 DEF Confirms
  <1>7. ASSUME NEW p \in Process, Ends(p)
        PROVE  Goal
    <2>1. p = "daemon"
      BY <1>7, <1>a, AloneSteps DEF Ends, QInv
    <2>2. pc'["daemon"] = "off" /\ store' = store /\ (draft' = store \/ draft' = draft)
      BY <1>7, <1>a, <2>1 DEF Ends, Rollback
    <2> QED
      BY <1>b, <2>2 DEF Confirms
  <1>8. CASE Poll
    BY <1>8, <1>a, <1>b, <1>c DEF Poll, Confirms
  <1>9. CASE Rebuild \/ FileChanges \/ HerdrChanges \/ FolderChanges \/ ScanChanges
    BY <1>9, <1>b DEF Rebuild, FileChanges, HerdrChanges, FolderChanges, ScanChanges, dbVars,
                      Confirms
  <1>10. CASE Elapse
    <2>1. /\ pc' = pc /\ draft' = store'
          /\ pc["daemon"] \in {"off", "wait"}
          /\ pc["daemon"] = "wait" => pollIn > 0 /\ pollIn' = pollIn - 1
      BY <1>10 DEF Elapse
    <2>2. store'.ok = Older(store.ok, MaxOk) /\ store'.agents = store.agents
      BY <1>10, AgeTypes DEF Elapse, QInv, Store
    <2>3. Confirms(store)'
      BY <1>b, <1>d, <2>2, AgeTypes DEF Confirms, Older, QInv, Age, NoAge
    <2>4. pc["daemon"] = "wait" => store'.ok \in 0 .. Refresh + (PollEvery - pollIn')
      BY <1>b, <1>d, <2>1, <2>2 DEF Older, NoAge
    <2> QED
      BY <2>1, <2>3, <2>4 DEF Confirms
  <1>11. CASE UNCHANGED vars
    BY <1>11, <1>b DEF vars, Confirms
  <1> QED
    BY <1>1, <1>2, <1>3, <1>4, <1>5, <1>6, <1>7, <1>8, <1>9, <1>10, <1>11 DEF Next, TickStep

\* The collector writes at the latest when the row it remembers has come of age.
LEMMA HerdrTickIsYoung ==
    ASSUME QInv, alone, "herdr" \in cfg, HerdrTick("daemon")
    PROVE  /\ mem'["daemon"].since # NoAge /\ mem'["daemon"].since < Keyframe
                  => draft'.herdrAge = mem'["daemon"].since
           /\ draft'.herdrAge \in 0 .. Keyframe
           /\ pc'["daemon"] \in InBatch
  <1>1. pc["daemon"] = "herdr" /\ pc'["daemon"] = StageFrom(5)
    BY AgeTypes, TwoProcesses DEF HerdrTick, Goes, QInv
  <1>2. Visible("daemon") = draft /\ ~ MayFail("daemon")
    BY <1>1, AloneWrites DEF QInv
  <1>3. /\ mem["daemon"].since # NoAge /\ mem["daemon"].since < Keyframe
               => draft.herdrAge = mem["daemon"].since
        /\ mem["daemon"].since \in Age(Keyframe) /\ Keyframe \in Nat
    BY AgeTypes, BoundTypes DEF QInv, HerdrIsYoung
  <1>4. CASE mem["daemon"].herdr = <<herdr>> /\ Fresh(mem["daemon"])
    <2>1. draft' = draft /\ mem' = mem
      BY <1>4 DEF HerdrTick, NoWrite
    <2>2. draft.herdrAge = mem["daemon"].since
      BY <1>3, <1>4 DEF Fresh
    <2> QED
      BY <1>1, <1>3, <1>4, <2>1, <2>2, StageFromType DEF Fresh, Age, NoAge
  <1>5. CASE ~(mem["daemon"].herdr = <<herdr>> /\ Fresh(mem["daemon"]))
    <2>1. /\ draft' = [draft EXCEPT !.herdr = <<herdr>>, !.herdrAge = 0]
          /\ mem' = [mem EXCEPT !["daemon"].herdr = <<herdr>>, !["daemon"].since = 0]
      BY <1>2, <1>5 DEF HerdrTick, Write
    <2>2. draft \in Store /\ mem["daemon"] \in Memory /\ DOMAIN mem = Process
      BY AgeTypes DEF QInv
    <2>3. draft'.herdrAge = 0
      BY <2>1, <2>2 DEF Store
    <2>4. mem'["daemon"].since = 0
      BY <2>1, <2>2, TwoProcesses DEF Memory
    <2> QED
      BY <1>1, <1>3, <2>3, <2>4, StageFromType
  <1> QED
    BY <1>4, <1>5

\* The ticks before it leave its row, and what it remembers of it.
LEMMA OtherTicksKeepHerdr ==
    ASSUME QInv, alone, "herdr" \in cfg, NEW p \in Process,
           AgentsTick(p) \/ CursorTick(p) \/ ScanTick(p)
    PROVE  /\ p = "daemon" /\ pc'["daemon"] \in InBatch \ {"commit"}
           /\ draft'.herdrAge = draft.herdrAge
           /\ mem'["daemon"].since = mem["daemon"].since
  <1>1. pc[p] \in {"agents", "cursor", "scan"}
    BY DEF AgentsTick, CursorTick, ScanTick
  <1>2. p = "daemon"
    BY <1>1, AloneSteps DEF QInv
  <1>3. /\ Visible(p) = draft /\ draft \in Store /\ mem["daemon"] \in Memory
        /\ DOMAIN mem = Process
    BY <1>1, <1>2, AloneWrites, AgeTypes DEF QInv
  <1>4. /\ StageFrom(2) \in InBatch \ {"commit"} /\ StageFrom(3) \in InBatch \ {"commit"}
        /\ StageFrom(4) \in InBatch \ {"commit"}
    BY StageFromType
  <1>5. pc'["daemon"] \in InBatch \ {"commit"}
    BY <1>2, <1>4, AgeTypes DEF AgentsTick, CursorTick, ScanTick, Goes, QInv
  <1>6. DOMAIN draft = {"agents", "ok", "honest", "scan", "herdr", "herdrAge"}
        /\ DOMAIN mem[p] = {"match", "rows", "agents", "cursor", "scan", "herdr", "since"}
    BY <1>2, <1>3 DEF Store, Memory
  <1>7. CASE AgentsTick(p)
    <2>1. \/ draft' = draft
          \/ \E row : draft' = Confirmed(p, draft, row)
      BY <1>3, <1>7 DEF AgentsTick, NoWrite, Write
    <2>2. draft'.herdrAge = draft.herdrAge
      BY <1>6, <2>1 DEF Confirmed
    <2>3. mem' = [mem EXCEPT ![p].agents = <<Sessions(p)>>]
      BY <1>7 DEF AgentsTick
    <2> QED
      BY <1>2, <1>3, <1>5, <1>6, <2>2, <2>3
  <1>8. CASE CursorTick(p)
    <2>1. /\ \/ draft' = draft
             \/ draft' = [draft EXCEPT !.agents = <<CursorRows(folder)>>, !.honest = FALSE]
          /\ mem' = mem \/ mem' = [mem EXCEPT ![p].cursor = TRUE]
      BY <1>3, <1>8 DEF CursorTick, NoWrite, Write
    <2>2. draft'.herdrAge = draft.herdrAge
      BY <1>6, <2>1
    <2>3. mem'[p].since = mem[p].since
      BY <1>3, <1>6, <2>1
    <2> QED
      BY <1>2, <1>5, <2>2, <2>3
  <1>9. CASE ScanTick(p)
    <2>1. /\ draft' = draft \/ draft' = [draft EXCEPT !.scan = Seen]
          /\ mem' = mem \/ mem' = [mem EXCEPT ![p].scan = Seen]
      BY <1>3, <1>9 DEF ScanTick, NoWrite, Write
    <2>2. draft'.herdrAge = draft.herdrAge
      BY <1>6, <2>1
    <2>3. mem'[p].since = mem[p].since
      BY <1>3, <1>6, <2>1
    <2> QED
      BY <1>2, <1>5, <2>2, <2>3
  <1> QED
    BY <1>7, <1>8, <1>9

LEMMA NextHerdr == QInv /\ [Next]_vars => HerdrIsYoung'
  <1> DEFINE Goal == /\ mem'["daemon"].since # NoAge /\ mem'["daemon"].since < Keyframe
                            => draft'.herdrAge = mem'["daemon"].since
                     /\ pc'["daemon"] = "commit" => draft'.herdrAge \in 0 .. Keyframe
                     /\ pc'["daemon"] = "meta" => store'.herdrAge \in 0 .. Keyframe
                     /\ pc'["daemon"] = "wait" =>
                            store'.herdrAge \in 0 .. Keyframe + (PollEvery - pollIn')
  <1> SUFFICES ASSUME QInv, [Next]_vars, alone', "herdr" \in cfg'
               PROVE  Goal
    BY DEF HerdrIsYoung
  <1>a. alone /\ "herdr" \in cfg /\ DOMAIN pc = Process /\ DOMAIN mem = Process
    BY ConfigStays, AgeTypes DEF QInv
  <1>b. /\ mem["daemon"].since # NoAge /\ mem["daemon"].since < Keyframe
               => draft.herdrAge = mem["daemon"].since
        /\ pc["daemon"] = "commit" => draft.herdrAge \in 0 .. Keyframe
        /\ pc["daemon"] = "meta" => store.herdrAge \in 0 .. Keyframe
        /\ pc["daemon"] = "wait" => store.herdrAge \in 0 .. Keyframe + (PollEvery - pollIn)
    BY <1>a DEF QInv, HerdrIsYoung
  <1>c. StageFrom(1) \in InBatch \cup {"stat"} /\ StageFrom(1) # "commit"
    BY <1>a, StageFromType
  <1>d. /\ Keyframe \in Nat /\ PollEvery \in Nat /\ pollIn \in 0 .. PollEvery
        /\ MaxHerdr = Keyframe + PollEvery + 1
        /\ NoMemory.since = NoAge /\ NewMemory.since = NoAge
    BY JournalAssumption, AgeTypes DEF QInv, MaxHerdr, NoMemory, NewMemory
  <1>e. DOMAIN mem["daemon"] = {"match", "rows", "agents", "cursor", "scan", "herdr", "since"}
    BY AgeTypes DEF QInv, Memory
  <1> USE TwoProcesses DEF Goes, InBatch
  <1>1. ASSUME NEW p \in Process, Start(p)
        PROVE  Goal
    BY <1>1, <1>a, <1>b, <1>c, <1>d DEF Start
  <1>2. ASSUME NEW p \in Process, StatRegistry(p) \/ ParseRegistry(p)
        PROVE  Goal
    <2>1. p = "daemon"
      BY <1>2, <1>a, AloneSteps DEF StatRegistry, ParseRegistry, QInv
    <2>2. mem'["daemon"].since = mem["daemon"].since
      BY <1>2, <1>a, <1>e, <2>1 DEF StatRegistry, ParseRegistry
    <2> QED
      BY <1>2, <1>a, <1>b, <2>1, <2>2 DEF StatRegistry, ParseRegistry, dbVars
  <1>3. ASSUME NEW p \in Process, AgentsTick(p) \/ CursorTick(p) \/ ScanTick(p)
        PROVE  Goal
    BY <1>3, <1>a, <1>b, OtherTicksKeepHerdr
  <1>4. ASSUME NEW p \in Process, HerdrTick(p)
        PROVE  Goal
    <2>1. p = "daemon"
      BY <1>4, <1>a, AloneSteps DEF HerdrTick, QInv
    <2> QED
      BY <1>4, <1>a, <2>1, HerdrTickIsYoung
  <1>5. ASSUME NEW p \in Process, Commit(p)
        PROVE  Goal
    <2>1. /\ p = "daemon" /\ pc["daemon"] = "commit" /\ pc'["daemon"] = "meta"
          /\ draft' = draft /\ mem' = mem
      BY <1>5, <1>a, AloneSteps DEF Commit, QInv
    <2>2. store' = draft
      BY <1>5, <1>a, <2>1, AloneWithTheStore DEF Commit, QInv, IInv, DraftIsStore, Shape, Process
    <2> QED
      BY <1>b, <2>1, <2>2
  <1>6. ASSUME NEW p \in Process, LastTick(p)
        PROVE  Goal
    <2>1. p = "daemon"
      BY <1>6, <1>a, AloneSteps DEF LastTick, QInv
    <2>2. /\ pc["daemon"] = "meta" /\ pc'["daemon"] = "wait" /\ mem' = mem
          /\ store' = store /\ draft' = draft /\ pollIn' = pollIn
      BY <1>6, <1>a, <2>1 DEF LastTick
    <2> QED
      BY <1>b, <1>d, <2>2
  <1>7. ASSUME NEW p \in Process, Ends(p)
        PROVE  Goal
    <2>1. p = "daemon"
      BY <1>7, <1>a, AloneSteps DEF Ends, QInv
    <2> QED
      BY <1>7, <1>a, <1>d, <2>1 DEF Ends
  <1>8. CASE Poll
    BY <1>8, <1>a, <1>b, <1>c DEF Poll
  <1>9. CASE Rebuild
    BY <1>9, <1>a, <1>b, <1>d DEF Rebuild, dbVars
  <1>10. CASE FileChanges \/ HerdrChanges \/ FolderChanges \/ ScanChanges
    <2>1. mem'["daemon"].since = mem["daemon"].since
      BY <1>10, <1>e DEF FileChanges, Unmatched, HerdrChanges, FolderChanges, ScanChanges
    <2> QED
      BY <1>10, <1>b, <2>1 DEF FileChanges, HerdrChanges, FolderChanges, ScanChanges, dbVars
  <1>11. CASE Elapse
    <2>1. /\ pc' = pc /\ draft' = store'
          /\ pc["daemon"] \in {"off", "wait"}
          /\ pc["daemon"] = "wait" => pollIn > 0 /\ pollIn' = pollIn - 1
      BY <1>11 DEF Elapse
    <2>2. store'.herdrAge = Older(store.herdrAge, MaxHerdr)
      BY <1>11, AgeTypes DEF Elapse, QInv, Store
    <2>3. mem'["daemon"].since = Older(mem["daemon"].since, Keyframe)
      BY <1>11, <1>a, <1>e DEF Elapse
    <2>4. draft = store
      BY <2>1, <1>a, AloneWithTheStore
      DEF QInv, IInv, LockIsInBatch, DraftIsStore, Shape, OnlyWriter, Process
    <2>5. mem["daemon"].since \in Age(Keyframe)
      BY AgeTypes DEF QInv
    <2>6. mem'["daemon"].since # NoAge /\ mem'["daemon"].since < Keyframe
              => draft'.herdrAge = mem'["daemon"].since
      BY <1>b, <1>d, <2>1, <2>2, <2>3, <2>4, <2>5 DEF Older, Age, NoAge
    <2>7. pc["daemon"] = "wait" => store'.herdrAge \in 0 .. Keyframe + (PollEvery - pollIn')
      BY <1>b, <1>d, <2>1, <2>2 DEF Older, NoAge
    <2> QED
      BY <2>1, <2>6, <2>7
  <1>12. CASE UNCHANGED vars
    BY <1>12, <1>b DEF vars
  <1> QED
    BY <1>1, <1>2, <1>3, <1>4, <1>5, <1>6, <1>7, <1>8, <1>9, <1>10, <1>11, <1>12
    DEF Next, TickStep

LEMMA InitYoung == Init => AgentsAreYoung /\ HerdrIsYoung
  BY TwoProcesses DEF Init, AgentsAreYoung, HerdrIsYoung, Confirms, InBatch, NoMemory

LEMMA QInvHolds == Spec => []QInv
  <1>1. Init => QInv
    BY InitIInv, InitType, InitYoung DEF QInv
  <1>2. QInv /\ [Next]_vars => QInv'
    <2>1. IInv /\ [Next]_vars => IInv'
      BY NextShape, NextLock, NextAlone, NextCursor, NextDraft, NextRow DEF IInv
    <2> QED
      BY <2>1, NextType, NextAgents, NextHerdr DEF QInv
  <1> QED
    BY <1>1, <1>2, PTL DEF Spec

(* While a daemon that alone writes the kind waits for its next poll, the   *)
(* age of last_ok is at most _REFRESH_S and the time since its last poll,   *)
(* and that of the herdr row at most KEYFRAME_S and that time: over         *)
(* rebuilds, crashes and restarts, a quiet desktop is never taken for a     *)
(* daemon that is down.                                                     *)
THEOREM QuietNeverLooksDown == Spec => []QuietIsNotDown
  <1>1. QInv => QuietIsNotDown
    <2> SUFFICES ASSUME QInv, alone, pc["daemon"] = "wait"
                 PROVE  /\ "agents" \in cfg => store.ok \in 0 .. Refresh + PollEvery
                        /\ "herdr" \in cfg => store.herdrAge \in 0 .. Keyframe + PollEvery
      BY DEF QuietIsNotDown
    <2>1. /\ Refresh \in Nat /\ Keyframe \in Nat /\ PollEvery \in Nat
          /\ pollIn \in 0 .. PollEvery
      BY JournalAssumption, AgeTypes DEF QInv
    <2> QED
      BY <2>1 DEF QInv, AgentsAreYoung, HerdrIsYoung
  <1> QED
    BY <1>1, QInvHolds, PTL
=============================================================================
