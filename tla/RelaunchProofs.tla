---------------------------- MODULE RelaunchProofs ----------------------------
(***************************************************************************)
(* Whose stamp a capture keeps and whose it drops, for any number of       *)
(* processes and of hooks, deaths and failed calls.                        *)
(*                                                                         *)
(* The argument: a process that is under the pane has been there since it  *)
(* was started, below the same ancestors, for whatever loses its parent    *)
(* goes to init and does not come back.  So what the walk of a hook found  *)
(* above the agent, and what no walk could find any more, stays true until *)
(* the agent ends, whichever hook, capture or process acts in between; and *)
(* a start names one process for good, whatever its pid is given to.       *)
(***************************************************************************)
EXTENDS RelaunchStamp, TLAPS

\* Process tables are forests of living parents, older than their children.
Forest(table, last) ==
    /\ \A q \in All : table[q] # None =>
        /\ table[q].start \in Nat \ {0} /\ table[q].start <= last
        /\ table[q].ppid \in All =>
            /\ table[table[q].ppid] # None /\ table[table[q].ppid].alive
            /\ table[table[q].ppid].start < table[q].start
    /\ \A q, r \in All :
        table[q] # None /\ table[r] # None /\ table[q].start = table[r].start => q = r
    /\ table[PanePid] # None => table[PanePid].ppid = InitPid

TableOK == starts \in Nat /\ Forest(procs, starts)

\* Whatever is named by the start of an agent is that agent.
Ran(agent) ==
    /\ agent <= starts
    /\ \A q \in All : procs[q] # None /\ procs[q].start = agent => procs[q].comm = "agent"

\* o stands above the agent, as long as the agent is under the pane.
Covers(o, agent) == \A q \in Tree : procs[q].start = agent => o \in Lineage(q)

\* What a hook has found out so far.
HookOK(p) ==
    LET h == hooks[p] IN
    /\ procs[p] # None /\ procs[p].alive /\ procs[p].comm = "hook"
    /\ Ran(h.agent)
    /\ h.pc \in {"walk", "stamp"} => h.owner = None /\ h.start = 0
    /\ h.pc = "start" => h.owner # None /\ h.start = 0
    /\ h.pc = "owner" => (h.owner = None <=> h.start = 0)
    /\ h.pc = "walk" /\ h.agent # 0 /\ p \in Tree =>
        \E q \in Lineage(p) : /\ procs[q].start = h.agent
                              /\ h.plain => \A r \in Lineage(q) \ {q} : IsShell(r)
    /\ h.owner # None =>
        /\ Covers(h.owner, h.agent)
        /\ h.pc = "owner" /\ procs[h.owner] # None => procs[h.owner].start = h.start
        /\ h.pc = "start" /\ h.plain /\ procs[h.owner] # None => procs[h.owner].start = h.agent
        /\ h.pc = "owner" /\ h.plain => h.start = h.agent
    /\ h.plain => h.agent # 0
    /\ h.pc = "stamp" /\ ~h.lost /\ ~h.rival => owner.pid = None \/ owner.agent = h.agent

\* The agent a record was written for is under the process it names; no hook
\* writes for a stamp set by hand.
RecordOK(rec) ==
    rec.pid # None =>
        /\ Ran(rec.agent) /\ rec.text # Hand
        /\ rec.plain => rec.start = rec.agent
        /\ \A q \in Tree : procs[q].start = rec.agent =>
            rec.pid \in Lineage(q) /\ procs[rec.pid].start = rec.start

\* A stamp stands beside a record made for the same agent, or beside none.
StampOK(stamp, rec) ==
    /\ Ran(stamp.agent)
    /\ stamp.agent # 0 /\ ~stamp.lost /\ ~stamp.rival => rec.pid = None \/ rec.agent = stamp.agent

\* What a capture has seen does not come back.
CapOK ==
    cap.pc # "done" =>
        /\ StampOK(cap.stamp, cap.rec) /\ RecordOK(cap.rec)
        /\ cap.shell /\ procs[PanePid] # None => procs[PanePid].start # cap.stamp.agent
        /\ cap.pc = "walk" /\ cap.shell /\ ~cap.busy => cap.stamp.agent \notin UpAgents
        /\ cap.rec.pid # None /\ ~cap.up => cap.rec.agent \notin UpAgents

Inv ==
    /\ TypeOK /\ TableOK
    /\ \A p \in Pids : hooks[p] # None => HookOK(p)
    /\ StampOK(relaunch, owner) /\ RecordOK(owner)
    /\ CapOK
------------------------------------------------------------------------------
(* Lineages, in any process table *)

\* What is above p is the least set that goes up from p.
LEMMA AboveLeast ==
    ASSUME NEW table, NEW p \in All
    PROVE  /\ p \in Above(table, p) /\ Above(table, p) \subseteq All
           /\ Upward(table, Above(table, p))
           /\ \A S \in SUBSET All : p \in S /\ Upward(table, S) => Above(table, p) \subseteq S
  BY DEF Above, Upward

\* Up from there is up from p.
LEMMA AboveAbove ==
    ASSUME NEW table, NEW p \in All, NEW q \in Above(table, p)
    PROVE  q \in All /\ Above(table, q) \subseteq Above(table, p)
  BY AboveLeast

\* A process comes before its parent's lineage; init's child has none.
LEMMA AboveParent ==
    ASSUME NEW table, NEW p \in All, table[p] # None
    PROVE  /\ table[p].ppid \in All => Above(table, p) \subseteq {p} \cup Above(table, table[p].ppid)
           /\ table[p].ppid \notin All => Above(table, p) = {p}
  <1>1. ASSUME table[p].ppid \in All
        PROVE  Above(table, p) \subseteq {p} \cup Above(table, table[p].ppid)
    <2> DEFINE S == {p} \cup Above(table, table[p].ppid)
    <2>1. S \in SUBSET All /\ p \in S
      BY <1>1, AboveLeast
    <2>2. Upward(table, S)
      BY <1>1, AboveLeast DEF Upward
    <2> QED
      BY <2>1, <2>2, AboveLeast
  <1>2. ASSUME table[p].ppid \notin All
        PROVE  Above(table, p) = {p}
    <2>1. Upward(table, {p})
      BY <1>2 DEF Upward
    <2> QED
      BY <2>1, AboveLeast
  <1> QED
    BY <1>1, <1>2

\* Of two processes above p, one is above the other.
LEMMA AboveChain ==
    ASSUME NEW table, NEW p \in All, NEW q \in Above(table, p), NEW r \in Above(table, p)
    PROVE  q \in Above(table, r) \/ r \in Above(table, q)
  <1> DEFINE S == {s \in Above(table, p) : q \in Above(table, s) \/ s \in Above(table, q)}
  <1>1. S \in SUBSET All /\ p \in S
    BY AboveLeast
  <1>2. ASSUME NEW s \in S, table[s] # None, table[s].ppid \in All
        PROVE  table[s].ppid \in S
    <2>1. s \in All /\ q \in All
      BY AboveLeast
    <2>2. table[s].ppid \in Above(table, p)
      BY <1>2, AboveLeast DEF Upward
    <2>3. CASE s \in Above(table, q)
      BY <1>2, <2>1, <2>2, <2>3, AboveLeast DEF Upward
    <2>4. CASE q \in Above(table, s) /\ q # s
      BY <1>2, <2>1, <2>2, <2>4, AboveParent
    <2>5. CASE q = s
      BY <2>1, <2>3, <2>5, AboveLeast
    <2> QED
      BY <2>3, <2>4, <2>5
  <1>3. Upward(table, S)
    BY <1>2 DEF Upward
  <1> QED
    BY <1>1, <1>3, AboveLeast

\* Who is above a process lives and is older.
LEMMA AboveOlder ==
    ASSUME NEW table, NEW last \in Nat, Forest(table, last), NEW p \in All, table[p] # None
    PROVE  \A q \in Above(table, p) :
             /\ table[q] # None /\ table[q].start <= table[p].start
             /\ q # p => table[q].alive /\ table[q].start < table[p].start
  <1> DEFINE S == {q \in All : /\ table[q] # None /\ table[q].start <= table[p].start
                               /\ q # p => table[q].alive /\ table[q].start < table[p].start}
  <1>1. S \in SUBSET All /\ p \in S
    BY DEF Forest
  <1>2. ASSUME NEW s \in S, table[s].ppid \in All
        PROVE  table[s].ppid \in S
    BY <1>2 DEF Forest
  <1>3. Upward(table, S)
    BY <1>2 DEF Upward
  <1> QED
    BY <1>1, <1>3, AboveLeast

\* Everything between a process and its pane is under the pane and has a parent
\* there.
LEMMA AboveUnderPane ==
    ASSUME NEW table, NEW last \in Nat, Forest(table, last),
           NEW p \in All, table[p] # None, PanePid \in Above(table, p),
           NEW q \in Above(table, p)
    PROVE  PanePid \in Above(table, q) /\ (q # PanePid => table[q].ppid \in All)
  <1>1. PanePid \in All /\ q \in All /\ InitPid \notin All
    BY AboveLeast, StampAssumption DEF All
  <1>2. table[PanePid] # None /\ table[q] # None
    BY AboveOlder
  <1>3. Above(table, PanePid) = {PanePid}
    BY <1>1, <1>2, AboveParent DEF Forest
  <1>4. PanePid \in Above(table, q)
    BY <1>1, <1>3, AboveChain
  <1> QED
    BY <1>1, <1>2, <1>4, AboveParent

\* Between two tables pids are given out again, processes end, and parents
\* change to init: who is still under the pane has the lineage it had.
LEMMA SameLineage ==
    ASSUME NEW old, NEW new, NEW last \in Nat, NEW later \in Nat,
           Forest(old, last), Forest(new, later),
           \A q \in All : new[q] # None =>
               \/ old[q] = None /\ new[q].start > last
               \/ /\ old[q] # None /\ new[q].start = old[q].start
                  /\ new[q].ppid \in {old[q].ppid, InitPid},
           NEW p \in All, new[p] # None, new[p].start <= last, PanePid \in Above(new, p)
    PROVE  Above(new, p) = Above(old, p)
  <1>1. PanePid \in All /\ InitPid \notin All
    BY StampAssumption DEF All
  <1>2. ASSUME NEW q \in Above(new, p)
        PROVE  /\ q \in All /\ new[q] # None /\ old[q] # None
               /\ new[q].ppid = old[q].ppid
    <2>1. q \in All /\ new[q] # None /\ new[q].start <= new[p].start
      BY AboveLeast, AboveOlder
    <2>2. new[q].start \in Nat /\ new[p].start \in Nat
      BY <2>1 DEF Forest
    <2>3. old[q] # None /\ new[q].ppid \in {old[q].ppid, InitPid}
      BY <2>1, <2>2
    <2>4. CASE q = PanePid
      BY <2>1, <2>3, <2>4 DEF Forest
    <2>5. CASE q # PanePid
      BY <1>1, <2>1, <2>3, <2>5, AboveUnderPane
    <2> QED
      BY <2>1, <2>3, <2>4, <2>5
  <1>3. Above(old, p) \subseteq Above(new, p)
    <2>1. Upward(old, Above(new, p))
      BY <1>2, AboveLeast DEF Upward
    <2> QED
      BY <2>1, AboveLeast
  <1>4. Upward(new, Above(old, p))
    BY <1>2, <1>3, AboveLeast DEF Upward
  <1> QED
    BY <1>3, <1>4, AboveLeast
------------------------------------------------------------------------------
(* What a step of the process table leaves as it was *)

Evolves ==
    /\ starts <= starts'
    /\ \A q \in All : procs'[q] # None =>
        \/ procs[q] = None /\ procs'[q].start > starts /\ q \notin Held
        \/ /\ procs[q] # None /\ procs'[q].start = procs[q].start
           /\ procs'[q].ppid \in {procs[q].ppid, InitPid}
           /\ procs'[q].alive => procs[q].alive
           /\ procs[q].comm \in {"sh", procs'[q].comm}

KeepsComm ==
    \A q \in All : procs[q] # None /\ procs'[q] # None => procs'[q].comm = procs[q].comm

\* Who is under the pane and was there to be, was under it with its lineage.
LEMMA StillUnder ==
    ASSUME TableOK, TableOK', Evolves, NEW q \in Tree', procs'[q].start <= starts
    PROVE  /\ q \in Tree /\ procs[q].start = procs'[q].start
           /\ Lineage(q)' = Lineage(q)
           /\ \A r \in Lineage(q) : /\ r \in Tree' /\ r \in All
                                    /\ procs[r] # None /\ procs'[r] # None
                                    /\ procs'[r].start = procs[r].start
                                    /\ procs[r].comm \in {"sh", procs'[r].comm}
  <1>1. q \in All /\ procs'[q] # None /\ procs'[q].alive /\ PanePid \in Above(procs', q)
    BY DEF Tree, Alive, Lineage
  <1>2. /\ starts \in Nat /\ Forest(procs, starts)
        /\ starts' \in Nat /\ Forest(procs', starts')
    BY DEF TableOK
  <1>3. procs'[q].start \in Nat
    BY <1>1, <1>2 DEF Forest
  <1>4. \A r \in All : procs'[r] # None =>
            \/ procs[r] = None /\ procs'[r].start > starts
            \/ /\ procs[r] # None /\ procs'[r].start = procs[r].start
               /\ procs'[r].ppid \in {procs[r].ppid, InitPid}
    BY DEF Evolves
  <1>5. Above(procs', q) = Above(procs, q)
    BY <1>1, <1>2, <1>4, SameLineage
  <1>6. procs[q] # None /\ procs[q].alive /\ procs[q].start = procs'[q].start
    BY <1>1, <1>2, <1>3 DEF Evolves
  <1>7. ASSUME NEW r \in Above(procs, q)
        PROVE  /\ r \in Tree' /\ r \in All /\ procs[r] # None /\ procs'[r] # None
               /\ procs'[r].start = procs[r].start
               /\ procs[r].comm \in {"sh", procs'[r].comm}
    <2>1. r \in All /\ procs[r] # None /\ procs'[r] # None
      BY <1>1, <1>2, <1>5, <1>6, AboveLeast, AboveOlder
    <2>2. procs'[r].alive /\ PanePid \in Above(procs', r)
      BY <1>1, <1>2, <1>5, AboveOlder, AboveUnderPane
    <2> QED
      BY <2>1, <2>2 DEF Evolves, Tree, Alive, Lineage
  <1> QED
    BY <1>1, <1>5, <1>6, <1>7 DEF Tree, Alive, Lineage

\* Under the pane, everything above is there.
LEMMA TreeLineage ==
    ASSUME TableOK, NEW q \in Tree
    PROVE  /\ q \in All /\ procs[q] # None /\ procs[q].start \in Nat /\ q \in Lineage(q)
           /\ PanePid \in Lineage(q)
           /\ \A r \in Lineage(q) : r \in All /\ procs[r] # None /\ r \in Tree
  <1>1. q \in All /\ procs[q] # None /\ procs[q].alive /\ PanePid \in Above(procs, q)
    BY DEF Tree, Alive, Lineage
  <1>2. starts \in Nat /\ Forest(procs, starts)
    BY DEF TableOK
  <1>3. ASSUME NEW r \in Above(procs, q)
        PROVE  r \in All /\ procs[r] # None /\ procs[r].alive /\ PanePid \in Above(procs, r)
    BY <1>1, <1>2, AboveLeast, AboveOlder, AboveUnderPane
  <1> QED
    BY <1>1, <1>2, <1>3, AboveLeast DEF Tree, Alive, Lineage, Forest

LEMMA RanStill ==
    ASSUME TableOK, TableOK', Evolves, NEW agent \in Nat, Ran(agent)
    PROVE  Ran(agent)'
  BY DEF TableOK, Forest, Evolves, Ran

LEMMA CoversStill ==
    ASSUME TableOK, TableOK', Evolves, NEW agent \in Nat, agent <= starts,
           NEW o, Covers(o, agent)
    PROVE  Covers(o, agent)'
  <1> SUFFICES ASSUME NEW q \in Tree', procs'[q].start = agent
               PROVE  o \in Lineage(q)'
    BY DEF Covers
  <1> QED
    BY StillUnder DEF Covers

LEMMA RecordStill ==
    ASSUME TableOK, TableOK', Evolves, NEW rec \in Record, RecordOK(rec)
    PROVE  RecordOK(rec)'
  <1> SUFFICES ASSUME rec.pid # None
               PROVE  RecordOK(rec)'
    BY DEF RecordOK
  <1>1. Ran(rec.agent) /\ rec.agent \in Nat /\ rec.agent <= starts
    BY DEF RecordOK, Record, Starts, Ran
  <1>2. Ran(rec.agent)'
    BY <1>1, RanStill
  <1>3. ASSUME NEW q \in Tree', procs'[q].start = rec.agent
        PROVE  rec.pid \in Lineage(q)' /\ procs'[rec.pid].start = rec.start
    BY <1>1, <1>3, StillUnder DEF RecordOK
  <1> QED
    BY <1>2, <1>3 DEF RecordOK

\* An agent that is not under the pane any more does not come back.
LEMMA NotUpStill ==
    ASSUME TableOK, TableOK', Evolves, NEW agent \in Nat, Ran(agent), agent \notin UpAgents
    PROVE  agent \notin UpAgents'
  <1> SUFFICES ASSUME NEW q \in Tree', procs'[q].start = agent
               PROVE  FALSE
    BY DEF UpAgents
  <1>1. q \in Tree /\ procs[q].start = agent
    BY StillUnder DEF Ran
  <1>2. procs[q].comm = "agent"
    BY <1>1, TreeLineage DEF Ran
  <1> QED
    BY <1>1, <1>2 DEF UpAgents
------------------------------------------------------------------------------
(* The steps of the process table *)

LEMMA StartSteps ==
    ASSUME TypeOK, TableOK, NEW p \in Pids, NEW parent \in Tree,
           NEW comm \in {"sh", "agent", "other", "hook"}, NEW sid \in Ids \cup {None},
           Start(p, parent, comm, sid)
    PROVE  /\ TableOK' /\ Evolves /\ KeepsComm
           /\ procs' \in [All -> Proc \cup {None}] /\ starts' \in Starts
           /\ procs'[p] \in Proc /\ procs'[p].comm = comm /\ procs'[p].alive
           /\ procs'[p].ppid = parent /\ procs'[p].start = starts' /\ procs'[p].start > starts
           /\ p \in All /\ procs[p] = None /\ p # PanePid /\ p # parent
           /\ \A q \in All \ {p} : procs'[q] = procs[q]
  <1> DEFINE new == [ppid |-> parent, start |-> starts + 1, comm |-> comm, sid |-> sid, alive |-> TRUE]
  <1>1. /\ starts \in Starts /\ starts < MaxStart /\ MaxStart \in Nat
        /\ procs \in [All -> Proc \cup {None}]
        /\ p \in All /\ procs[p] = None /\ p \notin Held /\ p # PanePid
        /\ procs' = [procs EXCEPT ![p] = new] /\ starts' = starts + 1
    BY StampAssumption DEF TypeOK, Start, All
  <1>2. parent \in All /\ procs[parent] # None /\ procs[parent].alive
    BY DEF Tree, Alive
  <1>3. new \in Proc /\ new # None
    <2>1. starts + 1 \in 1..MaxStart
      BY <1>1 DEF Starts
    <2>2. new \in Proc
      BY <1>2, <2>1 DEF Proc
    <2> QED
      BY <2>2, NoneAssumption
  <1>4. procs'[p] = new /\ \A q \in All \ {p} : procs'[q] = procs[q]
    BY <1>1
  <1>5. procs' \in [All -> Proc \cup {None}] /\ starts' \in Starts
    BY <1>1, <1>3 DEF Starts
  <1>6. Forest(procs', starts')
    <2>1. starts \in Nat /\ Forest(procs, starts)
      BY DEF TableOK
    <2>2. ASSUME NEW q \in All, procs'[q] # None
          PROVE  /\ procs'[q].start \in Nat \ {0} /\ procs'[q].start <= starts'
                 /\ procs'[q].ppid \in All =>
                     /\ procs'[procs'[q].ppid] # None /\ procs'[procs'[q].ppid].alive
                     /\ procs'[procs'[q].ppid].start < procs'[q].start
      <3>1. CASE q = p
        BY <1>1, <1>2, <1>4, <2>1, <3>1 DEF Forest
      <3>2. CASE q # p
        BY <1>1, <1>4, <2>1, <2>2, <3>2 DEF Forest
      <3> QED
        BY <3>1, <3>2
    <2>3. ASSUME NEW q \in All, NEW r \in All, procs'[q] # None, procs'[r] # None,
                 procs'[q].start = procs'[r].start
          PROVE  q = r
      BY <1>1, <1>4, <2>1, <2>3 DEF Forest
    <2>4. procs'[PanePid] # None => procs'[PanePid].ppid = InitPid
      BY <1>1, <1>4, <2>1 DEF Forest, All
    <2> QED
      BY <2>2, <2>3, <2>4 DEF Forest
  <1>7. Evolves
    BY <1>1, <1>4 DEF Evolves, Starts
  <1>8. KeepsComm
    BY <1>1, <1>4 DEF KeepsComm
  <1> QED
    BY <1>1, <1>2, <1>3, <1>4, <1>5, <1>6, <1>7, <1>8 DEF TableOK, Starts

LEMMA GoneSteps ==
    ASSUME TypeOK, TableOK, NEW p \in All, Alive(p), NEW zombie \in BOOLEAN,
           Gone(p, zombie), starts' = starts
    PROVE  /\ TableOK' /\ Evolves /\ KeepsComm
           /\ procs' \in [All -> Proc \cup {None}] /\ starts' \in Starts
           /\ \A q \in All : q # p /\ procs[q] # None /\ procs[q].alive =>
                procs'[q] # None /\ procs'[q].alive /\ procs'[q].comm = procs[q].comm
           /\ p = PanePid => ~Alive(PanePid)'
  <1>1. procs \in [All -> Proc \cup {None}] /\ procs[p] \in Proc /\ procs[p] # None
    BY DEF TypeOK, Alive
  <1>2. starts \in Nat /\ Forest(procs, starts) /\ starts \in Starts
    BY DEF TableOK, TypeOK
  <1>3. ASSUME NEW q \in All, procs[q] # None
        PROVE  procs[q] \in Proc
    BY <1>1, <1>3
  <1>4. procs'[p] = IF zombie THEN [procs[p] EXCEPT !.alive = FALSE] ELSE None
    BY DEF Gone
  <1>5. ASSUME NEW q \in All \ {p}, procs[q] # None, procs[q].ppid = p
        PROVE  procs'[q] = IF procs[q].alive THEN [procs[q] EXCEPT !.ppid = InitPid] ELSE None
    BY <1>5 DEF Gone, Children
  <1>6. ASSUME NEW q \in All \ {p}, procs[q] = None \/ procs[q].ppid # p
        PROVE  procs'[q] = procs[q]
    BY <1>6 DEF Gone, Children
  <1>7. ASSUME NEW q \in All, procs'[q] # None
        PROVE  /\ procs[q] # None /\ procs'[q] \in Proc
               /\ procs'[q].start = procs[q].start /\ procs'[q].comm = procs[q].comm
               /\ procs'[q].alive => procs[q].alive /\ q # p
               /\ procs'[q].ppid # p
               /\ procs'[q].ppid = procs[q].ppid \/ (procs'[q].ppid = InitPid /\ q # p)
    <2>1. InitPid \notin All
      BY StampAssumption DEF All
    <2>2. CASE q = p
      <3>1. procs[p].ppid # p
        BY <1>1, <1>2 DEF Forest
      <3>2. procs'[p] = [procs[p] EXCEPT !.alive = FALSE]
        BY <1>4, <1>7, <2>2
      <3>3. /\ procs'[p] \in Proc /\ ~procs'[p].alive
            /\ procs'[p].start = procs[p].start /\ procs'[p].comm = procs[p].comm
            /\ procs'[p].ppid = procs[p].ppid
        BY <1>1, <3>2 DEF Proc
      <3> QED
        BY <1>1, <2>2, <3>1, <3>3
    <2>3. CASE q # p /\ procs[q] # None /\ procs[q].ppid = p
      <3>1. procs[q].alive /\ procs'[q] = [procs[q] EXCEPT !.ppid = InitPid] /\ procs[q] \in Proc
        BY <1>3, <1>5, <1>7, <2>3
      <3>2. /\ procs'[q] \in Proc /\ procs'[q].ppid = InitPid
            /\ procs'[q].start = procs[q].start /\ procs'[q].comm = procs[q].comm
        BY <3>1 DEF Proc
      <3> QED
        BY <2>1, <2>3, <3>1, <3>2
    <2>4. CASE q # p /\ (procs[q] = None \/ procs[q].ppid # p)
      BY <1>3, <1>6, <1>7, <2>4 DEF Proc
    <2> QED
      BY <2>2, <2>3, <2>4
  <1>8. ASSUME NEW q \in All, q # p, procs[q] # None, procs[q].alive
        PROVE  procs'[q] # None /\ procs'[q].alive /\ procs'[q].comm = procs[q].comm
    <2>1. CASE procs[q].ppid = p
      <3>1. procs'[q] = [procs[q] EXCEPT !.ppid = InitPid] /\ procs[q] \in Proc
        BY <1>3, <1>5, <1>8, <2>1
      <3>2. procs'[q] \in Proc
        BY <3>1 DEF Proc
      <3> QED
        BY <1>8, <3>1, <3>2, NoneAssumption DEF Proc
    <2>2. CASE procs[q].ppid # p
      BY <1>6, <1>8, <2>2
    <2> QED
      BY <2>1, <2>2
  <1>9. procs' \in [All -> Proc \cup {None}]
    <2>1. \A q \in All : procs'[q] \in Proc \cup {None}
      BY <1>7
    <2> QED
      BY <2>1 DEF Gone
  <1>10. Forest(procs', starts')
    <2>1. ASSUME NEW q \in All, procs'[q] # None
          PROVE  /\ procs'[q].start \in Nat \ {0} /\ procs'[q].start <= starts'
                 /\ procs'[q].ppid \in All =>
                     /\ procs'[procs'[q].ppid] # None /\ procs'[procs'[q].ppid].alive
                     /\ procs'[procs'[q].ppid].start < procs'[q].start
      <3>1. procs'[q].start \in Nat \ {0} /\ procs'[q].start <= starts'
        BY <1>2, <1>7, <2>1 DEF Forest
      <3>2. ASSUME NEW u \in All, u = procs'[q].ppid
            PROVE  procs'[u] # None /\ procs'[u].alive /\ procs'[u].start < procs'[q].start
        <4>1. u # p /\ u = procs[q].ppid
          BY <1>7, <2>1, <3>2, StampAssumption DEF All
        <4>2. procs[u] # None /\ procs[u].alive /\ procs[u].start < procs[q].start
          BY <1>2, <1>7, <2>1, <4>1 DEF Forest
        <4>3. procs'[u] # None /\ procs'[u].alive
          BY <1>8, <4>1, <4>2
        <4> QED
          BY <1>7, <2>1, <4>2, <4>3
      <3> QED
        BY <3>1, <3>2
    <2>2. \A q, r \in All :
            procs'[q] # None /\ procs'[r] # None /\ procs'[q].start = procs'[r].start => q = r
      BY <1>2, <1>7 DEF Forest
    <2>3. procs'[PanePid] # None => procs'[PanePid].ppid = InitPid
      BY <1>2, <1>7 DEF Forest, All
    <2> QED
      BY <2>1, <2>2, <2>3 DEF Forest
  <1>11. Evolves
    BY <1>2, <1>7 DEF Evolves
  <1>12. KeepsComm
    BY <1>7 DEF KeepsComm
  <1>13. p = PanePid => ~Alive(PanePid)'
    BY <1>7 DEF Alive
  <1> QED
    BY <1>2, <1>8, <1>9, <1>10, <1>11, <1>12, <1>13 DEF TableOK

LEMMA ReapSteps ==
    ASSUME TypeOK, TableOK, NEW p \in All, procs[p] # None, ~procs[p].alive,
           procs' = [procs EXCEPT ![p] = None], starts' = starts
    PROVE  /\ TableOK' /\ Evolves /\ KeepsComm
           /\ procs' \in [All -> Proc \cup {None}]
           /\ \A q \in All : q # p => procs'[q] = procs[q]
  <1>1. procs \in [All -> Proc \cup {None}] /\ starts \in Nat /\ Forest(procs, starts)
    BY DEF TypeOK, TableOK
  <1>2. procs'[p] = None /\ \A q \in All : q # p => procs'[q] = procs[q]
    BY <1>1
  <1>3. Forest(procs', starts')
    BY <1>1, <1>2 DEF Forest
  <1> QED
    BY <1>1, <1>2, <1>3 DEF TableOK, Evolves, KeepsComm

LEMMA ExecSteps ==
    ASSUME TypeOK, TableOK, NEW p \in All, Alive(p), IsShell(p), NEW sid \in Ids \cup {None},
           NEW comm \in {"agent", "other"},
           procs' = [procs EXCEPT ![p].comm = comm, ![p].sid = sid], starts' = starts
    PROVE  /\ TableOK' /\ Evolves
           /\ procs' \in [All -> Proc \cup {None}]
           /\ \A q \in All : q # p => procs'[q] = procs[q]
  <1>1. /\ procs \in [All -> Proc \cup {None}] /\ starts \in Nat /\ Forest(procs, starts)
        /\ procs[p] # None /\ procs[p] \in Proc /\ procs[p].comm = "sh"
    BY DEF TypeOK, TableOK, Alive, IsShell
  <1>2. /\ procs'[p] = [procs[p] EXCEPT !.comm = comm, !.sid = sid]
        /\ \A q \in All : q # p => procs'[q] = procs[q]
    BY <1>1
  <1>3. /\ procs'[p] \in Proc /\ procs'[p] # None
        /\ procs'[p].start = procs[p].start /\ procs'[p].ppid = procs[p].ppid
        /\ procs'[p].alive = procs[p].alive
    <2>1. procs'[p] \in Proc
      BY <1>1, <1>2 DEF Proc
    <2>2. /\ procs'[p].start = procs[p].start /\ procs'[p].ppid = procs[p].ppid
          /\ procs'[p].alive = procs[p].alive
      BY <1>1, <1>2 DEF Proc
    <2> QED
      BY <2>1, <2>2, NoneAssumption
  <1>4. \A q \in All : /\ procs'[q] = None <=> procs[q] = None
                       /\ procs[q] # None => /\ procs'[q].start = procs[q].start
                                             /\ procs'[q].ppid = procs[q].ppid
                                             /\ procs'[q].alive = procs[q].alive
    BY <1>1, <1>2, <1>3
  <1>5. Forest(procs', starts')
    <2>1. \A q \in All : procs'[q] # None =>
            /\ procs'[q].start \in Nat \ {0} /\ procs'[q].start <= starts'
            /\ procs'[q].ppid \in All =>
                /\ procs'[procs'[q].ppid] # None /\ procs'[procs'[q].ppid].alive
                /\ procs'[procs'[q].ppid].start < procs'[q].start
      BY <1>1, <1>4 DEF Forest
    <2>2. \A q, r \in All :
            procs'[q] # None /\ procs'[r] # None /\ procs'[q].start = procs'[r].start => q = r
      BY <1>1, <1>4 DEF Forest
    <2>3. procs'[PanePid] # None => procs'[PanePid].ppid = InitPid
      BY <1>1, <1>4 DEF Forest, All
    <2> QED
      BY <2>1, <2>2, <2>3 DEF Forest
  <1>6. Evolves
    BY <1>1, <1>2, <1>4 DEF Evolves
  <1>7. procs' \in [All -> Proc \cup {None}]
    BY <1>1, <1>3
  <1> QED
    BY <1>1, <1>2, <1>5, <1>6, <1>7 DEF TableOK

LEMMA NoSteps ==
    ASSUME TableOK, UNCHANGED <<procs, starts>>
    PROVE  TableOK' /\ Evolves /\ KeepsComm
  BY DEF TableOK, Forest, Evolves, KeepsComm
------------------------------------------------------------------------------
(* What hooks, options and a capture know stays true *)

\* A hook goes on where it was; another one's record may have made it a rival.
HookKept(p) ==
    LET h == hooks[p]
        k == hooks'[p]
    IN  /\ h # None /\ k.agent = h.agent /\ k.pc = h.pc
        /\ k.owner = h.owner /\ k.start = h.start /\ k.lost = h.lost
        /\ h.rival => k.rival
        /\ k.plain => h.plain /\ KeepsComm
        /\ procs'[p] # None /\ procs'[p].alive /\ procs'[p].comm = "hook"
        /\ h.pc = "stamp" /\ ~k.lost /\ ~k.rival => owner'.pid = None \/ owner'.agent = h.agent

LEMMA HookStill ==
    ASSUME TypeOK, TableOK, TableOK', Evolves, NEW p \in Pids, HookKept(p), HookOK(p)
    PROVE  HookOK(p)'
  <1> DEFINE h == hooks[p]
             k == hooks'[p]
  <1>1. h \in Hook /\ p \in All /\ h.agent \in Nat /\ h.agent <= starts
    BY DEF TypeOK, HookKept, HookOK, Hook, Ran, All, Starts
  <1>2. PICK agent \in Nat : agent = h.agent
    BY <1>1
  <1>3. PICK o : o = h.owner
    OBVIOUS
  <1>4. Ran(agent) /\ Ran(agent)'
    BY <1>2, RanStill DEF HookOK
  <1>5. ASSUME h.pc = "walk", agent # 0, p \in Tree'
        PROVE  \E q \in Lineage(p)' : /\ procs'[q].start = agent
                                      /\ k.plain => \A r \in Lineage(q)' \ {q} : IsShell(r)'
    <2>1. procs'[p].start <= starts
      BY <1>1 DEF HookKept, HookOK, TableOK, Forest, Evolves
    <2>2. p \in Tree /\ Lineage(p)' = Lineage(p)
      BY <1>5, <2>1, StillUnder
    <2>3. PICK q \in Lineage(p) : /\ procs[q].start = agent
                                  /\ h.plain => \A r \in Lineage(q) \ {q} : IsShell(r)
      BY <1>2, <1>5, <2>2 DEF HookOK
    <2>4. q \in Tree' /\ procs'[q].start = agent
      BY <1>5, <2>1, <2>2, <2>3, StillUnder
    <2>5. /\ Lineage(q)' = Lineage(q)
          /\ \A r \in Lineage(q) : r \in All /\ procs[r] # None /\ procs'[r] # None
      BY <1>1, <1>2, <2>4, StillUnder
    <2>6. k.plain => \A r \in Lineage(q)' \ {q} : IsShell(r)'
      BY <2>3, <2>5 DEF HookKept, KeepsComm, IsShell
    <2> QED
      BY <2>2, <2>3, <2>4, <2>6
  <1>6. ASSUME o # None
        PROVE  /\ Covers(o, agent)'
               /\ procs'[o] # None => procs[o] # None /\ procs'[o].start = procs[o].start
    <2>1. Covers(o, agent)'
      BY <1>1, <1>2, <1>3, <1>6, CoversStill DEF HookOK
    <2>2. o \in All /\ o \in Held
      BY <1>1, <1>3, <1>6 DEF Held, HookKept, Hook
    <2> QED
      BY <2>1, <2>2 DEF Evolves
  <1>7. /\ k.owner = o /\ k.agent = agent /\ k.pc = h.pc /\ k.start = h.start
        /\ k.lost = h.lost /\ (k.plain => h.plain) /\ (h.rival => k.rival)
    BY <1>2, <1>3 DEF HookKept
  <1>8. o # None =>
            /\ Covers(o, agent)'
            /\ k.pc = "owner" /\ procs'[o] # None => procs'[o].start = k.start
            /\ k.pc = "start" /\ k.plain /\ procs'[o] # None => procs'[o].start = agent
            /\ k.pc = "owner" /\ k.plain => k.start = agent
    BY <1>2, <1>3, <1>6, <1>7 DEF HookOK
  <1>9. /\ k.pc \in {"walk", "stamp"} => o = None /\ k.start = 0
        /\ k.pc = "start" => o # None /\ k.start = 0
        /\ k.pc = "owner" => (o = None <=> k.start = 0)
        /\ k.plain => agent # 0
    BY <1>2, <1>3, <1>7 DEF HookOK
  <1>10. k.pc = "walk" /\ agent # 0 /\ p \in Tree' =>
          \E q \in Lineage(p)' : /\ procs'[q].start = agent
                                 /\ k.plain => \A r \in Lineage(q)' \ {q} : IsShell(r)'
    BY <1>5, <1>7
  <1>11. /\ procs'[p] # None /\ procs'[p].alive /\ procs'[p].comm = "hook"
         /\ k.pc = "stamp" /\ ~k.lost /\ ~k.rival => owner'.pid = None \/ owner'.agent = agent
    BY <1>2, <1>7 DEF HookKept
  <1> QED
    BY <1>4, <1>7, <1>8, <1>9, <1>10, <1>11 DEF HookOK

LEMMA StampStill ==
    ASSUME TableOK, TableOK', Evolves, NEW stamp \in Stamp, NEW rec, StampOK(stamp, rec)
    PROVE  StampOK(stamp, rec)'
  <1>1. stamp.agent \in Nat
    BY DEF Stamp, Starts
  <1> QED
    BY <1>1, RanStill DEF StampOK

LEMMA CapStill ==
    ASSUME TypeOK, TableOK, TableOK', Evolves, CapOK, cap' = cap
    PROVE  CapOK'
  <1> SUFFICES ASSUME cap.pc # "done"
               PROVE  CapOK'
    BY DEF CapOK
  <1>1. PICK stamp \in Stamp, rec \in Record : stamp = cap.stamp /\ rec = cap.rec
    BY DEF TypeOK
  <1>2. stamp.agent \in Nat /\ rec.agent \in Nat
    BY DEF Stamp, Record, Starts
  <1>3. StampOK(stamp, rec)' /\ RecordOK(rec)' /\ Ran(stamp.agent)
    BY <1>1, StampStill, RecordStill DEF CapOK, StampOK
  <1>4. procs'[PanePid] # None => procs'[PanePid].start # stamp.agent \/ ~cap.shell
    BY <1>1, <1>2, <1>3 DEF CapOK, Evolves, Ran, All, TableOK, Forest
  <1>5. stamp.agent \notin UpAgents => stamp.agent \notin UpAgents'
    BY <1>2, <1>3, NotUpStill
  <1>6. rec.pid # None /\ rec.agent \notin UpAgents => rec.agent \notin UpAgents'
    BY <1>1, <1>2, NotUpStill DEF CapOK, RecordOK
  <1> QED
    BY <1>1, <1>3, <1>4, <1>5, <1>6 DEF CapOK
------------------------------------------------------------------------------
(* The steps, one by one: processes *)

LEMMA OptionsStill ==
    ASSUME Inv, TableOK', Evolves, UNCHANGED options
    PROVE  StampOK(relaunch, owner)' /\ RecordOK(owner)'
  <1>1. PICK stamp \in Stamp, rec \in Record : stamp = relaunch /\ rec = owner
    BY DEF Inv, TypeOK
  <1>2. StampOK(stamp, rec)' /\ RecordOK(rec)'
    BY <1>1, StampStill, RecordStill DEF Inv
  <1> QED
    BY <1>1, <1>2 DEF options

LEMMA HooksTyped ==
    ASSUME Inv, NEW p \in Pids, hooks[p] # None
    PROVE  /\ hooks[p] \in Hook /\ HookOK(p) /\ p \in All /\ p # PanePid
           /\ procs[p] # None /\ procs[p].alive /\ procs[p].comm = "hook"
  BY StampAssumption DEF Inv, TypeOK, HookOK, All

\* A step that only adds, ends or changes processes that are no hooks.
LEMMA OthersKept ==
    ASSUME Inv, TableOK', Evolves, KeepsComm, NEW p \in Pids, hooks[p] # None,
           hooks'[p] = hooks[p],
           procs'[p] # None, procs'[p].alive, procs'[p].comm = "hook",
           owner' = owner \/ owner'.pid = None
    PROVE  HookOK(p)'
  <1>1. HookOK(p) /\ TypeOK /\ TableOK
    BY DEF Inv
  <1>2. HookKept(p)
    BY <1>1 DEF HookKept, HookOK
  <1> QED
    BY <1>1, <1>2, HookStill

LEMMA InitInv ==
    ASSUME Init
    PROVE  Inv
  <1>1. PICK c \in {"sh", "agent", "other"}, i \in Ids :
            procs = [p \in All |->
                IF p = PanePid
                THEN [ppid |-> InitPid, start |-> 1, comm |-> c,
                      sid |-> IF c = "agent" THEN i ELSE None, alive |-> TRUE]
                ELSE None]
    BY DEF Init
  <1> DEFINE pane == [ppid |-> InitPid, start |-> 1, comm |-> c,
                      sid |-> IF c = "agent" THEN i ELSE None, alive |-> TRUE]
  <1>2. PanePid \in All /\ InitPid \notin All
    BY StampAssumption DEF All
  <1>3. pane \in Proc
    BY StampAssumption DEF Proc
  <1>4. procs[PanePid] = pane /\ procs[PanePid] # None /\ \A q \in All : q # PanePid => procs[q] = None
    BY <1>1, <1>2, <1>3, NoneAssumption
  <1>5. starts = 1 /\ relaunch = NoStamp /\ owner = NoRecord /\ cap = NoCap
        /\ hooks = [p \in Pids |-> None] /\ deaths = 0 /\ faults = 0
    BY DEF Init
  <1>6. TableOK
    BY <1>2, <1>4, <1>5 DEF TableOK, Forest
  <1>7. procs \in [All -> Proc \cup {None}]
    BY <1>1, <1>3
  <1>8. NoStamp \in Stamp /\ NoRecord \in Record
    BY StampAssumption DEF NoStamp, NoRecord, Stamp, Record, Texts, Starts
  <1>9. NoCap \in [pc : {"count", "walk", "done"}, keep : BOOLEAN, busy : BOOLEAN, shell : BOOLEAN,
                   stamp : Stamp, rec : Record, up : BOOLEAN, failed : BOOLEAN]
    BY <1>8 DEF NoCap
  <1>10. starts \in Starts /\ deaths \in 0..MaxDeaths /\ faults \in 0..MaxFaults
    BY <1>5, StampAssumption DEF Starts
  <1>11. owner \in Record /\ (owner.pid = None <=> owner.start = 0)
    BY <1>5, <1>8 DEF NoRecord
  <1>12. TypeOK
    BY <1>5, <1>7, <1>8, <1>9, <1>10, <1>11 DEF TypeOK
  <1>13. Ran(0)
    BY <1>6 DEF TableOK, Forest, Ran
  <1>14. StampOK(relaunch, owner) /\ RecordOK(owner) /\ CapOK
    BY <1>5, <1>13 DEF StampOK, RecordOK, CapOK, NoStamp, NoRecord, NoCap
  <1> QED
    BY <1>5, <1>6, <1>12, <1>14 DEF Inv

LEMMA SpawnInv ==
    ASSUME Inv, NEW p \in Pids, NEW parent \in Tree, NEW comm \in {"sh", "agent", "other"},
           NEW sid \in Ids \cup {None}, Spawn(p, parent, comm, sid)
    PROVE  Inv'
  <1>1. /\ TypeOK /\ TableOK /\ Start(p, parent, comm, sid)
        /\ UNCHANGED <<hooks, options, cap, counts>>
    BY DEF Inv, Spawn
  <1>2. /\ TableOK' /\ Evolves /\ KeepsComm
        /\ procs' \in [All -> Proc \cup {None}] /\ starts' \in Starts
        /\ procs[p] = None /\ \A q \in All \ {p} : procs'[q] = procs[q]
    BY <1>1, StartSteps
  <1>3. ASSUME NEW q \in Pids, hooks[q] # None
        PROVE  procs'[q] # None /\ procs'[q].alive /\ procs'[q].comm = "hook" /\ HookOK(q)'
    <2>1. procs'[q] # None /\ procs'[q].alive /\ procs'[q].comm = "hook"
      BY <1>2, <1>3, HooksTyped
    <2> QED
      BY <1>1, <1>2, <1>3, <2>1, OthersKept DEF options
  <1>4. TypeOK'
    BY <1>1, <1>2, <1>3 DEF TypeOK, options, counts
  <1>5. CapOK'
    BY <1>1, <1>2, CapStill DEF Inv
  <1> QED
    BY <1>1, <1>2, <1>3, <1>4, <1>5, OptionsStill DEF Inv

LEMMA ExecInv ==
    ASSUME Inv, NEW p \in All, NEW comm \in {"agent", "other"},
           NEW sid \in Ids \cup {None}, Exec(p, comm, sid)
    PROVE  Inv'
  <1>1. /\ TypeOK /\ TableOK /\ Alive(p) /\ IsShell(p)
        /\ procs' = [procs EXCEPT ![p].comm = comm, ![p].sid = sid]
        /\ hooks' = [q \in Pids |->
                IF hooks[q] = None THEN None ELSE [hooks[q] EXCEPT !.plain = FALSE]]
        /\ UNCHANGED <<starts, options, cap, counts>>
    BY DEF Inv, Exec
  <1>2. /\ TableOK' /\ Evolves /\ procs' \in [All -> Proc \cup {None}]
        /\ \A q \in All : q # p => procs'[q] = procs[q]
    BY <1>1, ExecSteps
  <1>3. ASSUME NEW q \in Pids, hooks'[q] # None
        PROVE  /\ hooks'[q] \in Hook /\ procs'[q] # None /\ procs'[q].comm = "hook"
               /\ HookOK(q)'
    <2>1. hooks[q] # None /\ hooks'[q] = [hooks[q] EXCEPT !.plain = FALSE]
      BY <1>1, <1>3
    <2>2. hooks[q] \in Hook /\ HookOK(q) /\ q # p /\ q \in All
      BY <1>1, <2>1, HooksTyped DEF IsShell
    <2>3. procs'[q] # None /\ procs'[q].alive /\ procs'[q].comm = "hook"
      BY <1>2, <2>1, <2>2, HooksTyped
    <2>4. /\ hooks'[q] \in Hook /\ ~hooks'[q].plain
          /\ hooks'[q].agent = hooks[q].agent /\ hooks'[q].pc = hooks[q].pc
          /\ hooks'[q].owner = hooks[q].owner /\ hooks'[q].start = hooks[q].start
          /\ hooks'[q].lost = hooks[q].lost /\ hooks'[q].rival = hooks[q].rival
      BY <2>1, <2>2 DEF Hook
    <2>5. HookKept(q)
      BY <1>1, <2>1, <2>2, <2>3, <2>4 DEF HookKept, HookOK, options
    <2> QED
      BY <1>1, <1>2, <2>2, <2>3, <2>4, <2>5, HookStill
  <1>4. hooks' \in [Pids -> Hook \cup {None}]
    BY <1>1, <1>3
  <1>5. TypeOK'
    BY <1>1, <1>2, <1>3, <1>4 DEF TypeOK, options, counts
  <1>6. CapOK'
    BY <1>1, <1>2, CapStill DEF Inv
  <1> QED
    BY <1>1, <1>2, <1>3, <1>5, <1>6, OptionsStill DEF Inv

LEMMA DieInv ==
    ASSUME Inv, NEW p \in All, Die(p)
    PROVE  Inv'
  <1>1. /\ TypeOK /\ TableOK /\ Alive(p) /\ UNCHANGED <<starts, cap, faults>>
        /\ deaths < MaxDeaths /\ deaths' = deaths + 1
        /\ hooks' = IF p \in Pids THEN [hooks EXCEPT ![p] = None] ELSE hooks
        /\ relaunch' = IF p = PanePid THEN NoStamp ELSE relaunch
        /\ owner' = IF p = PanePid THEN NoRecord ELSE owner
    BY DEF Inv, Die
  <1>2. PICK zombie \in BOOLEAN : Gone(p, zombie)
    BY DEF Die
  <1>3. /\ TableOK' /\ Evolves /\ KeepsComm
        /\ procs' \in [All -> Proc \cup {None}] /\ starts' \in Starts
        /\ \A q \in All : q # p /\ procs[q] # None /\ procs[q].alive =>
             procs'[q] # None /\ procs'[q].alive /\ procs'[q].comm = procs[q].comm
    BY <1>1, <1>2, GoneSteps
  <1>4. hooks' \in [Pids -> Hook \cup {None}]
        /\ \A q \in Pids : hooks'[q] # None => q # p /\ hooks'[q] = hooks[q]
    BY <1>1 DEF TypeOK
  <1>5. NoStamp \in Stamp /\ NoRecord \in Record /\ NoRecord.pid = None /\ NoRecord.start = 0
        /\ NoStamp.agent = 0
    BY StampAssumption DEF NoStamp, NoRecord, Stamp, Record, Texts, Starts
  <1>6. ASSUME NEW q \in Pids, hooks'[q] # None
        PROVE  procs'[q] # None /\ procs'[q].comm = "hook" /\ HookOK(q)'
    <2>1. hooks[q] # None /\ hooks'[q] = hooks[q] /\ q # p
      BY <1>4, <1>6
    <2>2. procs'[q] # None /\ procs'[q].alive /\ procs'[q].comm = "hook"
      BY <1>3, <2>1, HooksTyped
    <2>3. owner' = owner \/ owner'.pid = None
      BY <1>1, <1>5
    <2> QED
      BY <1>3, <2>1, <2>2, <2>3, OthersKept
  <1>7. deaths' \in 0..MaxDeaths
    BY <1>1, StampAssumption DEF TypeOK
  <1>8. owner' \in Record /\ (owner'.pid = None <=> owner'.start = 0) /\ relaunch' \in Stamp
    BY <1>1, <1>5 DEF TypeOK
  <1>9. TypeOK'
    BY <1>1, <1>3, <1>4, <1>6, <1>7, <1>8 DEF TypeOK
  <1>10. CapOK'
    BY <1>1, <1>3, CapStill DEF Inv
  <1>11. StampOK(relaunch, owner)' /\ RecordOK(owner)'
    <2>1. CASE p = PanePid
      <3>1. Ran(0)'
        BY <1>3 DEF TableOK, Forest, Ran
      <3>2. relaunch' = NoStamp /\ owner' = NoRecord
        BY <1>1, <2>1
      <3> QED
        BY <1>5, <3>1, <3>2 DEF StampOK, RecordOK
    <2>2. CASE p # PanePid
      BY <1>1, <1>3, <2>2, OptionsStill DEF options
    <2> QED
      BY <2>1, <2>2
  <1> QED
    BY <1>3, <1>6, <1>9, <1>10, <1>11 DEF Inv

LEMMA ReapInv ==
    ASSUME Inv, NEW p \in All, Reap(p)
    PROVE  Inv'
  <1>1. /\ TypeOK /\ TableOK /\ procs[p] # None /\ ~procs[p].alive
        /\ procs' = [procs EXCEPT ![p] = None]
        /\ UNCHANGED <<starts, hooks, options, cap, counts>>
    BY DEF Inv, Reap
  <1>2. /\ TableOK' /\ Evolves /\ KeepsComm /\ procs' \in [All -> Proc \cup {None}]
        /\ \A q \in All : q # p => procs'[q] = procs[q]
    BY <1>1, ReapSteps
  <1>3. ASSUME NEW q \in Pids, hooks[q] # None
        PROVE  procs'[q] # None /\ procs'[q].alive /\ procs'[q].comm = "hook" /\ HookOK(q)'
    <2>1. procs'[q] # None /\ procs'[q].alive /\ procs'[q].comm = "hook"
      BY <1>1, <1>2, <1>3, HooksTyped
    <2> QED
      BY <1>1, <1>2, <1>3, <2>1, OthersKept DEF options
  <1>4. TypeOK'
    BY <1>1, <1>2, <1>3 DEF TypeOK, options, counts
  <1>5. CapOK'
    BY <1>1, <1>2, CapStill DEF Inv
  <1> QED
    BY <1>1, <1>2, <1>3, <1>4, <1>5, OptionsStill DEF Inv
------------------------------------------------------------------------------
(* The steps, one by one: relaunch-stamp *)

\* Without a step of the table, everything is where it was.
LEMMA SameTree ==
    ASSUME UNCHANGED procs
    PROVE  /\ Tree' = Tree /\ UpAgents' = UpAgents
           /\ \A q : Lineage(q)' = Lineage(q) /\ IsShell(q)' = IsShell(q)
  BY DEF Tree, UpAgents, Lineage, Alive, IsShell

\* The agents above a process are one, or none; it is called an agent for good.
LEMMA AgentOfOne ==
    ASSUME Inv, NEW p \in Tree, NEW a \in AgentOf(p)
    PROVE  /\ a \in Lineage(p) /\ a \in All /\ procs[a] # None /\ procs[a].comm = "agent"
           /\ procs[a].start \in Starts \ {0} /\ procs[a].sid \in Ids \cup {None}
           /\ Ran(procs[a].start)
           /\ \A b \in AgentOf(p) : b = a
  <1>1. TableOK /\ procs \in [All -> Proc \cup {None}]
    BY DEF Inv, TypeOK
  <1>2. a \in Lineage(p) /\ procs[a].comm = "agent" /\ a \in All /\ procs[a] # None
    BY <1>1, TreeLineage DEF AgentOf, Youngest
  <1>3. procs[a] \in Proc
    BY <1>1, <1>2
  <1>4. Ran(procs[a].start)
    BY <1>1, <1>2 DEF Ran, TableOK, Forest
  <1>5. ASSUME NEW b \in AgentOf(p)
        PROVE  b = a
    <2>1. b \in Lineage(p) /\ b \in All /\ procs[b] # None
      BY <1>1, TreeLineage DEF AgentOf, Youngest
    <2>2. procs[a].start <= procs[b].start /\ procs[b].start <= procs[a].start
      BY DEF AgentOf, Youngest
    <2>3. procs[a].start = procs[b].start
      BY <1>1, <1>2, <2>1, <2>2 DEF TableOK, Forest
    <2> QED
      BY <1>1, <1>2, <2>1, <2>3 DEF TableOK, Forest
  <1> QED
    BY <1>2, <1>3, <1>4, <1>5, StampAssumption DEF Proc, Starts

LEMMA RunHookInv ==
    ASSUME Inv, NEW p \in Pids, NEW parent \in Tree, NEW clear \in BOOLEAN,
           NEW sid \in Ids \cup {None}, RunHook(p, parent, clear, sid)
    PROVE  Inv'
  <1> DEFINE as == AgentOf(parent)
  <1>0. PICK agent, plain, h :
            /\ agent = IF as = {} THEN 0 ELSE procs[CHOOSE a \in as : TRUE].start
            /\ plain = (as # {} /\ as \subseteq Jobs)
            /\ h = [clear |-> clear, text |-> sid, agent |-> agent, plain |-> plain,
                    pc |-> IF clear THEN "owner" ELSE "walk",
                    owner |-> None, start |-> 0, lost |-> FALSE, rival |-> FALSE]
    OBVIOUS
  <1>1. /\ TypeOK /\ TableOK /\ Start(p, parent, "hook", None)
        /\ hooks' = [hooks EXCEPT ![p] = h]
        /\ UNCHANGED <<options, cap, counts>>
    BY <1>0 DEF Inv, RunHook
  <1>2. /\ TableOK' /\ Evolves /\ KeepsComm
        /\ procs' \in [All -> Proc \cup {None}] /\ starts' \in Starts
        /\ procs'[p] \in Proc /\ procs'[p].comm = "hook" /\ procs'[p].alive
        /\ procs'[p].ppid = parent
        /\ procs[p] = None /\ p \in All
        /\ \A q \in All \ {p} : procs'[q] = procs[q]
    BY <1>1, StartSteps
  <1>3. ASSUME NEW a \in as
        PROVE  /\ a \in Lineage(parent) /\ agent = procs[a].start /\ Ran(agent)
               /\ agent \in Starts \ {0} /\ procs[a].comm = "agent" /\ a \in All
    BY <1>0, AgentOfOne
  <1>4. agent \in Starts /\ agent \in Nat /\ Ran(agent)
    <2>1. CASE as = {}
      BY <1>0, <1>1, <2>1, StampAssumption DEF Starts, Ran, TableOK, Forest
    <2>2. CASE as # {}
      BY <1>3, <2>2 DEF Starts
    <2> QED
      BY <2>1, <2>2
  <1>5. h \in Hook /\ procs'[p] # None
    <2>1. plain \in BOOLEAN
      BY <1>0
    <2>2. h \in Hook
      BY <1>0, <1>4, <2>1, StampAssumption DEF Hook, Starts
    <2> QED
      BY <1>2, <2>2, NoneAssumption
  <1>6. hooks'[p] = h /\ \A q \in Pids \ {p} : hooks'[q] = hooks[q]
    BY <1>1 DEF TypeOK
  <1>7. Ran(agent)'
    BY <1>1, <1>2, <1>4, RanStill
  <1>8. ASSUME p \in Tree', as # {}
        PROVE  \E q \in Lineage(p)' : /\ procs'[q].start = agent
                                      /\ plain => \A r \in Lineage(q)' \ {q} : IsShell(r)'
    <2>1. PICK a \in as : TRUE
      BY <1>8
    <2>2. /\ starts' \in Nat /\ Forest(procs', starts') /\ starts \in Nat /\ Forest(procs, starts)
      BY <1>1, <1>2 DEF TableOK
    <2>3. parent \in All /\ procs[parent] # None /\ PanePid \in Above(procs', p) /\ p # parent
      BY <1>1, <1>2, <1>8, TreeLineage DEF Tree, Lineage
    <2>4. parent \in Above(procs', p)
      BY <1>2, <1>5, <2>3, AboveLeast DEF Upward
    <2>5. PanePid \in Above(procs', parent) /\ Above(procs', parent) \subseteq Above(procs', p)
      BY <1>2, <1>5, <2>2, <2>3, <2>4, AboveUnderPane, AboveAbove
    <2>6. parent \in Tree' /\ procs'[parent].start <= starts
      BY <1>2, <2>2, <2>3, <2>5 DEF Tree, Alive, Lineage, Forest
    <2>7. a \in Tree' /\ Lineage(parent)' = Lineage(parent) /\ procs'[a] # None /\ a # p
      BY <1>1, <1>2, <1>3, <2>1, <2>6, StillUnder
    <2>8. procs'[a].start <= starts /\ a \in All /\ procs'[a] = procs[a]
      BY <1>2, <1>3, <1>4, <2>1, <2>7 DEF Ran
    <2>9. /\ Lineage(a)' = Lineage(a)
          /\ \A r \in Lineage(a) : r \in All /\ procs[r] # None /\ procs'[r] # None
      BY <1>1, <1>2, <2>7, <2>8, StillUnder
    <2>10. plain => \A r \in Lineage(a)' \ {a} : IsShell(r)'
      <3> SUFFICES ASSUME plain, NEW r \in Lineage(a) \ {a}
                   PROVE  IsShell(r)'
        BY <2>9
      <3>1. a \in Jobs
        BY <1>0, <2>1
      <3>2. IsShell(r)
        BY <3>1 DEF Jobs
      <3> QED
        BY <1>2, <2>9, <3>2 DEF IsShell, KeepsComm
    <2>11. a \in Lineage(p)'
      BY <1>3, <2>1, <2>5, <2>7 DEF Lineage
    <2> QED
      BY <1>3, <2>1, <2>8, <2>10, <2>11
  <1>9. HookOK(p)'
    <2>1. /\ hooks'[p].agent = agent /\ hooks'[p].plain = plain /\ hooks'[p].owner = None
          /\ hooks'[p].start = 0 /\ hooks'[p].pc \in {"owner", "walk"}
      BY <1>0, <1>6
    <2>2. agent # 0 <=> as # {}
      BY <1>0, <1>3
    <2>3. plain => agent # 0
      BY <1>0, <2>2
    <2>4. p \in Tree' /\ agent # 0 =>
            \E q \in Lineage(p)' : /\ procs'[q].start = agent
                                   /\ plain => \A r \in Lineage(q)' \ {q} : IsShell(r)'
      BY <1>8, <2>2
    <2> QED
      BY <1>2, <1>5, <1>7, <2>1, <2>3, <2>4 DEF HookOK
  <1>10. ASSUME NEW q \in Pids, hooks'[q] # None
         PROVE  procs'[q] # None /\ procs'[q].comm = "hook" /\ HookOK(q)'
    <2>1. CASE q = p
      BY <1>2, <1>5, <1>9, <2>1
    <2>2. CASE q # p
      <3>1. hooks'[q] = hooks[q] /\ hooks[q] # None /\ q \in All
        BY <1>6, <1>10, <2>2, HooksTyped
      <3>2. procs'[q] # None /\ procs'[q].alive /\ procs'[q].comm = "hook"
        BY <1>2, <2>2, <3>1, HooksTyped
      <3> QED
        BY <1>1, <1>2, <3>1, <3>2, OthersKept DEF options
    <2> QED
      BY <2>1, <2>2
  <1>11. hooks' \in [Pids -> Hook \cup {None}]
    BY <1>1, <1>5 DEF TypeOK
  <1>12. TypeOK'
    BY <1>1, <1>2, <1>10, <1>11 DEF TypeOK, options, counts
  <1>13. CapOK'
    BY <1>1, <1>2, CapStill DEF Inv
  <1> QED
    BY <1>1, <1>2, <1>10, <1>12, <1>13, OptionsStill DEF Inv

\* A hook takes a step of its own that touches nothing else.
LEMMA HookAlone ==
    ASSUME Inv, NEW p \in Pids, hooks[p] # None, NEW k \in Hook,
           hooks' = [hooks EXCEPT ![p] = k], HookOK(p)',
           UNCHANGED <<procs, starts, options, cap, deaths>>, faults' \in 0..MaxFaults
    PROVE  Inv'
  <1>1. TypeOK /\ TableOK /\ TableOK' /\ Evolves /\ KeepsComm
    BY NoSteps DEF Inv
  <1>2. hooks' \in [Pids -> Hook \cup {None}] /\ \A q \in Pids \ {p} : hooks'[q] = hooks[q]
    BY <1>1 DEF TypeOK
  <1>3. ASSUME NEW q \in Pids, hooks'[q] # None
        PROVE  procs'[q] # None /\ procs'[q].comm = "hook" /\ HookOK(q)'
    <2>1. hooks[q] # None
      BY <1>2, <1>3
    <2>2. procs'[q] # None /\ procs'[q].alive /\ procs'[q].comm = "hook"
      BY <2>1, HooksTyped
    <2>3. CASE q # p
      BY <1>1, <1>2, <2>1, <2>2, <2>3, OthersKept DEF options
    <2> QED
      BY <2>2, <2>3
  <1>4. TypeOK'
    BY <1>1, <1>2, <1>3 DEF TypeOK, options
  <1>5. CapOK'
    BY <1>1, CapStill DEF Inv
  <1> QED
    BY <1>1, <1>3, <1>4, <1>5, OptionsStill DEF Inv

\* A hook that has found no owner knows nothing that could be wrong.
LEMMA OwnerlessInv ==
    ASSUME Inv, NEW p \in Pids, hooks[p] # None, Ownerless(p),
           UNCHANGED <<procs, starts, options, cap, deaths>>, faults' \in 0..MaxFaults
    PROVE  Inv'
  <1>1. hooks[p] \in Hook /\ HookOK(p) /\ hooks \in [Pids -> Hook \cup {None}]
    BY HooksTyped DEF Inv, TypeOK
  <1>2. PICK k : k = [hooks[p] EXCEPT !.pc = "owner", !.owner = None, !.start = 0]
    OBVIOUS
  <1>3. k \in Hook /\ k.pc = "owner" /\ k.owner = None /\ k.start = 0
        /\ k.agent = hooks[p].agent /\ k.plain = hooks[p].plain
    <2>1. None \in All \cup {None} /\ 0 \in Starts /\ "owner" \in {"walk", "start", "owner", "stamp"}
      BY StampAssumption DEF Starts
    <2> QED
      BY <1>1, <1>2, <2>1 DEF Hook
  <1>4. hooks' = [hooks EXCEPT ![p] = k] /\ hooks'[p] = k
    BY <1>1, <1>2 DEF Ownerless
  <1>5. Ran(k.agent)
    BY <1>1, <1>3 DEF HookOK
  <1>6. Ran(k.agent)'
    BY <1>5 DEF Ran
  <1>7. HookOK(p)'
    BY <1>1, <1>3, <1>4, <1>6 DEF HookOK
  <1> QED
    BY <1>3, <1>4, <1>7, HookAlone

LEMMA HookFailsInv ==
    ASSUME Inv, NEW p \in Pids, HookFails(p)
    PROVE  Inv'
  <1>1. hooks[p] # None /\ Ownerless(p) /\ UNCHANGED <<procs, starts, options, cap, deaths>>
    BY DEF HookFails, At
  <1>2. faults' \in 0..MaxFaults
    BY StampAssumption DEF HookFails, MayFail, Inv, TypeOK
  <1> QED
    BY <1>1, <1>2, OwnerlessInv

\* The walk finds a process above the agent; if nothing but shells stands above
\* the agent, the agent.
LEMMA WalkFinds ==
    ASSUME Inv, NEW p \in Pids, hooks[p] # None, hooks[p].pc = "walk", p \in Tree,
           NEW o \in PickOwner(p, Lineage(p) \ {PanePid})
    PROVE  /\ o \in All /\ o # None
           /\ Covers(o, hooks[p].agent)
           /\ hooks[p].plain => procs[o].start = hooks[p].agent
  <1>1. /\ TableOK /\ hooks[p] \in Hook /\ HookOK(p) /\ procs[p].comm = "hook"
        /\ p # PanePid /\ p \in All
    BY HooksTyped DEF Inv
  <1>2. /\ PanePid \in Lineage(p)
        /\ \A r \in Lineage(p) : r \in All /\ procs[r] # None /\ r \in Tree
    BY <1>1, TreeLineage
  <1>3. IF IsShell(PanePid)
        THEN /\ o \in Lineage(p) \ {p, PanePid} /\ ~IsShell(o)
             /\ \A q \in Lineage(p) \ {p, PanePid} : ~IsShell(q) => procs[o].start <= procs[q].start
        ELSE o = PanePid
    BY DEF PickOwner, Oldest
  <1>4. o \in Lineage(p) /\ ~IsShell(o) /\ o \in All /\ o # None /\ procs[o] # None
    BY <1>2, <1>3, StampAssumption DEF All
  <1>5. ASSUME NEW a \in Lineage(p), procs[a].start = hooks[p].agent, hooks[p].agent # 0
        PROVE  o \in Lineage(a)
    <2>1. procs[a].comm = "agent" /\ a # p /\ ~IsShell(a)
      BY <1>1, <1>2, <1>5 DEF HookOK, Ran, IsShell
    <2>2. CASE ~IsShell(PanePid)
      BY <1>1, <1>2, <1>3, <2>2, TreeLineage
    <2>3. CASE IsShell(PanePid)
      <3>1. procs[o].start <= procs[a].start
        BY <1>3, <2>1, <2>3
      <3>2. o \in Lineage(a) \/ a \in Lineage(o)
        BY <1>1, <1>4, AboveChain DEF Lineage
      <3>3. ASSUME a \in Lineage(o), a # o
            PROVE  FALSE
        <4>1. procs[a].start < procs[o].start
          BY <1>1, <1>4, <3>3, AboveOlder DEF Lineage, TableOK
        <4> QED
          BY <1>1, <1>2, <1>4, <3>1, <4>1 DEF TableOK, Forest
      <3> QED
        BY <1>4, <3>2, <3>3
    <2> QED
      BY <2>2, <2>3
  <1>6. PICK a \in Lineage(p) \cup {p} :
            hooks[p].agent # 0 =>
                /\ a \in Lineage(p) /\ procs[a].start = hooks[p].agent
                /\ hooks[p].plain => \A r \in Lineage(a) \ {a} : IsShell(r)
    BY <1>1 DEF HookOK
  <1>7. Covers(o, hooks[p].agent)
    <2> SUFFICES ASSUME NEW q \in Tree, procs[q].start = hooks[p].agent
                 PROVE  o \in Lineage(q)
      BY DEF Covers
    <2>1. hooks[p].agent # 0 /\ q \in All /\ procs[q] # None
      BY <1>1, TreeLineage DEF TableOK, Forest
    <2>2. q = a
      BY <1>1, <1>2, <1>6, <2>1 DEF TableOK, Forest
    <2> QED
      BY <1>5, <1>6, <2>1, <2>2
  <1>8. ASSUME hooks[p].plain
        PROVE  procs[o].start = hooks[p].agent
    <2>1. hooks[p].agent # 0
      BY <1>1, <1>8 DEF HookOK
    <2> QED
      BY <1>4, <1>5, <1>6, <1>8, <2>1
  <1> QED
    BY <1>4, <1>7, <1>8

LEMMA WalkUpInv ==
    ASSUME Inv, NEW p \in Pids, WalkUp(p)
    PROVE  Inv'
  <1> DEFINE found == IF p \in Tree THEN PickOwner(p, Lineage(p) \ {PanePid}) ELSE {}
  <1>1. /\ hooks[p] # None /\ hooks[p].pc = "walk"
        /\ UNCHANGED <<procs, starts, options, cap, deaths, faults>>
    BY DEF WalkUp, At, counts
  <1>2. faults' \in 0..MaxFaults
    BY <1>1 DEF Inv, TypeOK
  <1>3. CASE found = {}
    <2>1. Ownerless(p)
      BY <1>3 DEF WalkUp
    <2> QED
      BY <1>1, <1>2, <2>1, OwnerlessInv
  <1>4. CASE found # {}
    <2>1. PICK o \in found : hooks' = [hooks EXCEPT ![p].pc = "start", ![p].owner = o]
      BY <1>4 DEF WalkUp
    <2>2. /\ o \in All /\ o # None /\ Covers(o, hooks[p].agent)
          /\ hooks[p].plain => procs[o].start = hooks[p].agent
      BY <1>1, <1>4, WalkFinds
    <2>3. hooks[p] \in Hook /\ HookOK(p) /\ hooks \in [Pids -> Hook \cup {None}]
      BY <1>1, HooksTyped DEF Inv, TypeOK
    <2>4. PICK k : k = [hooks[p] EXCEPT !.pc = "start", !.owner = o]
      OBVIOUS
    <2>5. k \in Hook /\ k.pc = "start" /\ k.owner = o /\ k.start = 0
          /\ k.agent = hooks[p].agent /\ k.plain = hooks[p].plain
      BY <1>1, <2>2, <2>3, <2>4 DEF Hook, HookOK
    <2>6. hooks' = [hooks EXCEPT ![p] = k] /\ hooks'[p] = k
      BY <2>1, <2>3, <2>4
    <2>7. Ran(k.agent) /\ Covers(o, k.agent) /\ (k.plain => procs[o].start = k.agent)
      BY <2>2, <2>3, <2>5 DEF HookOK
    <2>8. Ran(k.agent)' /\ Covers(o, k.agent)'
      BY <1>1, <2>7, SameTree DEF Ran, Covers
    <2>9. HookOK(p)'
      BY <1>1, <2>2, <2>3, <2>5, <2>6, <2>7, <2>8 DEF HookOK
    <2> QED
      BY <1>1, <1>2, <2>5, <2>6, <2>9, HookAlone
  <1> QED
    BY <1>3, <1>4

LEMMA OwnerStartInv ==
    ASSUME Inv, NEW p \in Pids, OwnerStart(p)
    PROVE  Inv'
  <1>1. /\ hooks[p] # None /\ hooks[p].pc = "start"
        /\ UNCHANGED <<procs, starts, options, cap, deaths, faults>>
    BY DEF OwnerStart, At, counts
  <1>2. faults' \in 0..MaxFaults
    BY <1>1 DEF Inv, TypeOK
  <1>3. PICK o : o = hooks[p].owner
    OBVIOUS
  <1>4. CASE ~Alive(o)
    <2>1. Ownerless(p)
      BY <1>3, <1>4 DEF OwnerStart
    <2> QED
      BY <1>1, <1>2, <2>1, OwnerlessInv
  <1>5. CASE Alive(o)
    <2>1. hooks[p] \in Hook /\ HookOK(p) /\ hooks \in [Pids -> Hook \cup {None}]
      BY <1>1, HooksTyped DEF Inv, TypeOK
    <2>2. o \in All /\ procs[o] # None /\ procs[o] \in Proc /\ o # None
      BY <1>5, StampAssumption DEF Alive, Inv, TypeOK, All
    <2>3. PICK k : k = [hooks[p] EXCEPT !.pc = "owner", !.start = procs[o].start]
      OBVIOUS
    <2>4. procs[o].start \in Starts \ {0}
      BY <2>2, StampAssumption DEF Proc, Starts
    <2>5. k \in Hook /\ k.pc = "owner" /\ k.owner = o /\ k.start = procs[o].start
          /\ k.agent = hooks[p].agent /\ k.plain = hooks[p].plain
      BY <1>3, <2>1, <2>3, <2>4 DEF Hook
    <2>6. hooks' = [hooks EXCEPT ![p] = k] /\ hooks'[p] = k
      BY <1>3, <1>5, <2>1, <2>3 DEF OwnerStart
    <2>7. Ran(k.agent) /\ Covers(o, k.agent) /\ (k.plain => k.start = k.agent /\ k.agent # 0)
      BY <1>1, <1>3, <2>1, <2>2, <2>5 DEF HookOK
    <2>8. Ran(k.agent)' /\ Covers(o, k.agent)'
      BY <1>1, <2>7, SameTree DEF Ran, Covers
    <2>9. HookOK(p)'
      BY <1>1, <2>1, <2>2, <2>4, <2>5, <2>6, <2>7, <2>8 DEF HookOK
    <2> QED
      BY <1>1, <1>2, <2>5, <2>6, <2>9, HookAlone
  <1> QED
    BY <1>4, <1>5

\* A record that reaches tmux is true, and makes rivals of the hooks and of the
\* stamp it is not for.
LEMMA SetOwnerInv ==
    ASSUME Inv, NEW p \in Pids, SetOwner(p)
    PROVE  Inv'
  <1>1. PICK h : h = hooks[p]
    OBVIOUS
  <1>2. /\ h # None /\ h.pc = "owner" /\ UNCHANGED <<procs, starts, cap, deaths>>
        /\ hooks \in [Pids -> Hook \cup {None}]
    BY <1>1 DEF SetOwner, At, Inv, TypeOK
  <1>3. /\ h \in Hook /\ HookOK(p)
        /\ Ran(h.agent) /\ (h.owner = None <=> h.start = 0)
        /\ h.plain => h.agent # 0
        /\ h.owner # None =>
            /\ Covers(h.owner, h.agent)
            /\ procs[h.owner] # None => procs[h.owner].start = h.start
            /\ h.plain => h.start = h.agent
    BY <1>1, <1>2, HooksTyped DEF HookOK
  <1>4. TypeOK /\ TableOK /\ TableOK' /\ Evolves /\ KeepsComm
    BY <1>2, NoSteps DEF Inv
  <1>5. Ran(h.agent)'
    BY <1>2, <1>3 DEF Ran
  <1>6. CASE /\ owner' = RecordOf(h)
             /\ relaunch' = [relaunch EXCEPT !.rival = @ \/ relaunch.agent \notin {0, h.agent}]
             /\ hooks' = [q \in Pids |->
                   IF q = p THEN [h EXCEPT !.pc = "stamp", !.owner = None, !.start = 0]
                   ELSE IF At(q, "stamp") /\ hooks[q].agent # h.agent
                        THEN [hooks[q] EXCEPT !.rival = TRUE] ELSE hooks[q]]
             /\ UNCHANGED faults
    <2>1. /\ owner' \in Record /\ owner'.pid = h.owner /\ owner'.start = h.start
          /\ owner'.agent = h.agent /\ owner'.plain = h.plain /\ owner'.text # Hand
      BY <1>3, <1>6, StampAssumption DEF RecordOf, Record, Hook, Texts
    <2>2. hooks'[p] = [h EXCEPT !.pc = "stamp", !.owner = None, !.start = 0]
      BY <1>6
    <2>3. /\ hooks'[p] \in Hook /\ hooks'[p].pc = "stamp" /\ hooks'[p].owner = None
          /\ hooks'[p].start = 0 /\ hooks'[p].agent = h.agent /\ hooks'[p].plain = h.plain
      <3>1. None \in All \cup {None} /\ 0 \in Starts
        BY StampAssumption DEF Starts
      <3> QED
        BY <1>3, <2>2, <3>1 DEF Hook
    <2>4. HookOK(p)'
      BY <1>1, <1>2, <1>3, <1>5, <2>1, <2>3, HooksTyped DEF HookOK
    <2>5. ASSUME NEW q \in Pids, q # p, hooks'[q] # None
          PROVE  hooks'[q] \in Hook /\ HookOK(q)'
      <3>1. hooks[q] # None
        BY <1>6, <2>5 DEF At
      <3>2. hooks[q] \in Hook /\ HookOK(q)
        BY <3>1, HooksTyped
      <3>3. CASE hooks[q].pc = "stamp" /\ hooks[q].agent # h.agent
        <4>1. hooks'[q] = [hooks[q] EXCEPT !.rival = TRUE]
          BY <1>6, <2>5, <3>1, <3>3 DEF At
        <4>2. /\ hooks'[q] \in Hook /\ hooks'[q].rival
              /\ hooks'[q].agent = hooks[q].agent /\ hooks'[q].pc = hooks[q].pc
              /\ hooks'[q].owner = hooks[q].owner /\ hooks'[q].start = hooks[q].start
              /\ hooks'[q].lost = hooks[q].lost /\ hooks'[q].plain = hooks[q].plain
          BY <3>2, <4>1 DEF Hook
        <4>3. HookKept(q)
          BY <1>2, <1>4, <3>1, <3>2, <4>2 DEF HookKept, HookOK
        <4> QED
          BY <1>4, <3>2, <4>2, <4>3, HookStill
      <3>4. CASE ~(hooks[q].pc = "stamp" /\ hooks[q].agent # h.agent)
        <4>1. hooks'[q] = hooks[q]
          BY <1>6, <2>5, <3>4 DEF At
        <4>2. HookKept(q)
          BY <1>2, <1>4, <2>1, <3>1, <3>2, <3>4, <4>1 DEF HookKept, HookOK
        <4> QED
          BY <1>4, <3>2, <4>1, <4>2, HookStill
      <3> QED
        BY <3>3, <3>4
    <2>6. hooks' \in [Pids -> Hook \cup {None}]
      <3>1. \A q \in Pids : hooks'[q] \in Hook \cup {None}
        BY <2>3, <2>5
      <3> QED
        BY <1>6, <3>1
    <2>7. PICK stamp \in Stamp : stamp = relaunch
      BY <1>4 DEF TypeOK
    <2>8. /\ relaunch' \in Stamp /\ relaunch'.agent = stamp.agent
          /\ relaunch'.lost = stamp.lost
          /\ ~relaunch'.rival => stamp.agent \in {0, h.agent}
      BY <1>6, <2>7 DEF Stamp
    <2>9. Ran(stamp.agent)'
      BY <1>2, <2>7 DEF Inv, StampOK, Ran
    <2>10. StampOK(relaunch, owner)'
      BY <2>1, <2>8, <2>9 DEF StampOK
    <2>11. RecordOK(owner)'
      <3> SUFFICES ASSUME h.owner # None
                   PROVE  RecordOK(owner)'
        BY <2>1 DEF RecordOK
      <3>1. ASSUME NEW q \in Tree, procs[q].start = h.agent
            PROVE  h.owner \in Lineage(q) /\ procs[h.owner].start = h.start
        <4>1. h.owner \in Lineage(q) /\ procs[h.owner] # None
          BY <1>3, <1>4, <3>1, TreeLineage DEF Covers
        <4> QED
          BY <1>3, <4>1
      <3>2. \A q \in Tree' : procs'[q].start = h.agent =>
                h.owner \in Lineage(q)' /\ procs'[h.owner].start = h.start
        BY <1>2, <3>1, SameTree
      <3> QED
        BY <1>3, <1>5, <2>1, <3>2 DEF RecordOK
    <2>12. CapOK'
      BY <1>2, <1>4, CapStill DEF Inv
    <2>13. TypeOK'
      <3>1. \A q \in Pids : hooks'[q] # None => hooks[q] # None
        BY <1>1, <1>2, <1>6 DEF At
      <3>2. \A q \in Pids : hooks'[q] # None => procs'[q] # None /\ procs'[q].comm = "hook"
        BY <1>2, <3>1, HooksTyped
      <3>3. owner'.pid = None <=> owner'.start = 0
        BY <1>3, <2>1
      <3> QED
        BY <1>2, <1>4, <1>6, <2>1, <2>6, <2>8, <3>2, <3>3 DEF TypeOK
    <2> QED
      BY <1>4, <2>4, <2>5, <2>10, <2>11, <2>12, <2>13 DEF Inv
  <1>7. CASE /\ hooks' = [hooks EXCEPT ![p].pc = "stamp", ![p].lost = TRUE,
                                       ![p].owner = None, ![p].start = 0]
             /\ MayFail /\ UNCHANGED options
    <2>1. PICK k : k = [h EXCEPT !.pc = "stamp", !.lost = TRUE, !.owner = None, !.start = 0]
      OBVIOUS
    <2>2. k \in Hook /\ k.pc = "stamp" /\ k.lost /\ k.owner = None /\ k.start = 0
          /\ k.agent = h.agent /\ k.plain = h.plain
      <3>1. None \in All \cup {None} /\ 0 \in Starts
        BY StampAssumption DEF Starts
      <3> QED
        BY <1>3, <2>1, <3>1 DEF Hook
    <2>3. hooks' = [hooks EXCEPT ![p] = k] /\ hooks'[p] = k
      BY <1>1, <1>2, <1>7, <2>1
    <2>4. HookOK(p)'
      BY <1>1, <1>2, <1>3, <1>5, <2>2, <2>3, HooksTyped DEF HookOK
    <2>5. faults' \in 0..MaxFaults
      BY <1>4, <1>7, StampAssumption DEF MayFail, TypeOK
    <2> QED
      BY <1>1, <1>2, <1>7, <2>2, <2>3, <2>4, <2>5, HookAlone
  <1> QED
    BY <1>1, <1>2, <1>6, <1>7 DEF SetOwner

LEMMA SetStampInv ==
    ASSUME Inv, NEW p \in Pids, SetStamp(p)
    PROVE  Inv'
  <1>1. PICK h : h = hooks[p]
    OBVIOUS
  <1>2. /\ h # None /\ h.pc = "stamp" /\ Gone(p, FALSE)
        /\ hooks' = [hooks EXCEPT ![p] = None]
        /\ UNCHANGED <<starts, owner, cap, deaths>>
        /\ hooks \in [Pids -> Hook \cup {None}]
    BY <1>1 DEF SetStamp, At, Inv, TypeOK
  <1>3. /\ h \in Hook /\ HookOK(p) /\ Ran(h.agent) /\ Alive(p) /\ p \in All
        /\ ~h.lost /\ ~h.rival => owner.pid = None \/ owner.agent = h.agent
    BY <1>1, <1>2, HooksTyped DEF HookOK, Alive
  <1>4. TypeOK /\ TableOK
    BY DEF Inv
  <1>5. /\ TableOK' /\ Evolves /\ KeepsComm
        /\ procs' \in [All -> Proc \cup {None}] /\ starts' \in Starts
        /\ \A q \in All : q # p /\ procs[q] # None /\ procs[q].alive =>
             procs'[q] # None /\ procs'[q].alive /\ procs'[q].comm = procs[q].comm
    BY <1>2, <1>3, <1>4, GoneSteps
  <1>6. hooks' \in [Pids -> Hook \cup {None}]
        /\ \A q \in Pids : hooks'[q] # None => q # p /\ hooks'[q] = hooks[q]
    BY <1>2
  <1>7. ASSUME NEW q \in Pids, hooks'[q] # None
        PROVE  procs'[q] # None /\ procs'[q].comm = "hook" /\ HookOK(q)'
    <2>1. hooks[q] # None /\ hooks'[q] = hooks[q] /\ q # p
      BY <1>6, <1>7
    <2>2. procs'[q] # None /\ procs'[q].alive /\ procs'[q].comm = "hook"
      BY <1>5, <2>1, HooksTyped
    <2> QED
      BY <1>2, <1>5, <2>1, <2>2, OthersKept
  <1>8. /\ relaunch' \in Stamp /\ faults' \in 0..MaxFaults
        /\ StampOK(relaunch, owner)' /\ RecordOK(owner)'
    <2>1. CASE UNCHANGED relaunch /\ MayFail
      BY <1>2, <1>4, <1>5, <2>1, OptionsStill, StampAssumption DEF options, MayFail, TypeOK
    <2>2. CASE /\ relaunch' = [text |-> h.text, agent |-> h.agent, lost |-> h.lost, rival |-> h.rival]
               /\ UNCHANGED faults
      <3>1. PICK stamp \in Stamp, rec \in Record : stamp = relaunch' /\ rec = owner
        BY <1>3, <1>4, <2>2 DEF Hook, Stamp, Texts, TypeOK
      <3>2. StampOK(stamp, rec) /\ RecordOK(rec)
        BY <1>3, <2>2, <3>1 DEF StampOK, Inv
      <3>3. StampOK(stamp, rec)' /\ RecordOK(rec)'
        BY <1>4, <1>5, <3>2, StampStill, RecordStill
      <3> QED
        BY <1>2, <1>4, <2>2, <3>1, <3>3 DEF TypeOK
    <2> QED
      BY <1>1, <2>1, <2>2 DEF SetStamp
  <1>9. TypeOK'
    BY <1>2, <1>4, <1>5, <1>6, <1>7, <1>8 DEF TypeOK
  <1>10. CapOK'
    BY <1>2, <1>4, <1>5, CapStill DEF Inv
  <1> QED
    BY <1>5, <1>7, <1>8, <1>9, <1>10 DEF Inv

LEMMA SetByHandInv ==
    ASSUME Inv, SetByHand
    PROVE  Inv'
  <1>1. /\ relaunch' = [NoStamp EXCEPT !.text = Hand]
        /\ UNCHANGED <<procs, starts, hooks, owner, cap, counts>>
    BY DEF SetByHand
  <1>2. TypeOK /\ TableOK /\ TableOK' /\ Evolves /\ KeepsComm
    BY <1>1, NoSteps DEF Inv
  <1>3. ASSUME NEW q \in Pids, hooks[q] # None
        PROVE  HookOK(q)'
    BY <1>1, <1>2, <1>3, HooksTyped, OthersKept
  <1>4. relaunch' \in Stamp /\ relaunch'.agent = 0
    <2>1. relaunch' = [text |-> Hand, agent |-> 0, lost |-> FALSE, rival |-> FALSE]
      BY <1>1 DEF NoStamp
    <2> QED
      BY <2>1, StampAssumption DEF Stamp, Texts, Starts
  <1>5. Ran(0)'
    BY <1>2 DEF TableOK, Forest, Ran
  <1>6. PICK rec \in Record : rec = owner
    BY <1>2 DEF TypeOK
  <1>7. RecordOK(rec)'
    BY <1>2, <1>6, RecordStill DEF Inv
  <1>8. StampOK(relaunch, owner)' /\ RecordOK(owner)'
    BY <1>1, <1>4, <1>5, <1>6, <1>7 DEF StampOK
  <1>9. TypeOK'
    BY <1>1, <1>2, <1>4 DEF TypeOK, counts
  <1>10. CapOK'
    BY <1>1, <1>2, CapStill DEF Inv
  <1> QED
    BY <1>1, <1>2, <1>3, <1>8, <1>9, <1>10 DEF Inv
------------------------------------------------------------------------------
(* The steps, one by one: the capture *)

CapTypes == [pc : {"count", "walk", "done"}, keep : BOOLEAN, busy : BOOLEAN, shell : BOOLEAN,
             stamp : Stamp, rec : Record, up : BOOLEAN, failed : BOOLEAN]

LEMMA NoCapTyped == NoCap \in CapTypes
  <1>1. NoStamp \in Stamp /\ NoRecord \in Record
    BY StampAssumption DEF NoStamp, NoRecord, Stamp, Record, Texts, Starts
  <1> QED
    BY <1>1 DEF NoCap, CapTypes

\* A capture only looks.
LEMMA CapAlone ==
    ASSUME Inv, UNCHANGED <<procs, starts, hooks, options, deaths>>, faults' \in 0..MaxFaults,
           cap' \in CapTypes, CapOK'
    PROVE  Inv'
  <1>1. TypeOK /\ TableOK /\ TableOK' /\ Evolves /\ KeepsComm
    BY NoSteps DEF Inv
  <1>2. ASSUME NEW q \in Pids, hooks[q] # None
        PROVE  HookOK(q)'
    BY <1>1, <1>2, HooksTyped, OthersKept DEF options
  <1>3. TypeOK'
    BY <1>1 DEF TypeOK, options, CapTypes
  <1> QED
    BY <1>1, <1>2, <1>3, OptionsStill DEF Inv

LEMMA ListPaneInv ==
    ASSUME Inv, ListPane
    PROVE  Inv'
  <1>1. PICK job \in Jobs :
            cap' = [NoCap EXCEPT !.pc = "count", !.shell = IsShell(job), !.stamp = relaunch,
                                 !.rec = owner, !.up = owner.agent \in UpAgents]
    BY DEF ListPane
  <1>2. UNCHANGED <<procs, starts, hooks, options, deaths, faults>>
    BY DEF ListPane, counts
  <1>3. TypeOK /\ TableOK
    BY DEF Inv
  <1>4. /\ cap' \in CapTypes /\ cap'.pc = "count" /\ cap'.stamp = relaunch /\ cap'.rec = owner
        /\ cap'.shell = IsShell(job) /\ cap'.up = (owner.agent \in UpAgents)
    <2>1. NoCap \in CapTypes /\ relaunch \in Stamp /\ owner \in Record
      BY <1>3, NoCapTyped DEF TypeOK
    <2>2. PICK shell \in BOOLEAN, up \in BOOLEAN :
            shell = IsShell(job) /\ up = (owner.agent \in UpAgents)
      <3>1. IsShell(job) \in BOOLEAN /\ (owner.agent \in UpAgents) \in BOOLEAN
        BY DEF IsShell
      <3> QED
        BY <3>1
    <2>3. cap' = [NoCap EXCEPT !.pc = "count", !.shell = shell, !.stamp = relaunch,
                               !.rec = owner, !.up = up]
      BY <1>1, <2>2
    <2>4. /\ cap' \in CapTypes /\ cap'.pc = "count" /\ cap'.stamp = relaunch /\ cap'.rec = owner
          /\ cap'.shell = shell /\ cap'.up = up
      BY <2>1, <2>3 DEF CapTypes
    <2> QED
      BY <2>2, <2>4
  <1>5. StampOK(relaunch, owner)' /\ RecordOK(owner)'
    BY <1>2, <1>3, NoSteps, OptionsStill
  <1>6. ASSUME IsShell(job), procs[PanePid] # None
        PROVE  procs[PanePid].start # relaunch.agent
    <2> SUFFICES ASSUME procs[PanePid].start = relaunch.agent
                 PROVE  FALSE
      OBVIOUS
    <2>1. procs[PanePid].comm = "agent"
      BY <1>6 DEF Inv, StampOK, Ran, All
    <2>2. job \in Tree /\ \A q \in Lineage(job) \ {job} : IsShell(q)
      BY DEF Jobs
    <2>3. PanePid \in Lineage(job)
      BY <1>3, <2>2, TreeLineage
    <2> QED
      BY <1>6, <2>1, <2>2, <2>3 DEF IsShell
  <1>7. CapOK'
    BY <1>2, <1>4, <1>5, <1>6, SameTree DEF CapOK, options
  <1> QED
    BY <1>2, <1>3, <1>4, <1>7, CapAlone DEF TypeOK

\* Someone stands under the pane: it has a child.
LEMMA TreeChildren ==
    ASSUME TableOK, NEW q \in Tree, q # PanePid
    PROVE  Children(PanePid) # {}
  <1> SUFFICES ASSUME Children(PanePid) = {}
               PROVE  FALSE
    OBVIOUS
  <1>1. q \in All /\ PanePid \in Lineage(q)
    BY TreeLineage
  <1>2. Upward(procs, All \ {PanePid})
    BY DEF Upward, Children
  <1> QED
    BY <1>1, <1>2, AboveLeast DEF Lineage

LEMMA CountChildrenInv ==
    ASSUME Inv, CountChildren
    PROVE  Inv'
  <1>1. /\ cap.pc = "count" /\ UNCHANGED <<procs, starts, hooks, options, deaths>>
        /\ TypeOK /\ TableOK /\ CapOK /\ cap \in CapTypes
    BY DEF CountChildren, Inv, TypeOK, CapTypes
  <1>2. PICK busy \in BOOLEAN :
            /\ cap' = [cap EXCEPT !.pc = "walk", !.busy = busy]
            /\ ~busy => Children(PanePid) = {}
            /\ UNCHANGED faults \/ MayFail
    BY DEF CountChildren
  <1>3. /\ cap' \in CapTypes /\ cap'.pc = "walk" /\ cap'.busy = busy
        /\ cap'.stamp = cap.stamp /\ cap'.rec = cap.rec /\ cap'.shell = cap.shell /\ cap'.up = cap.up
    BY <1>1, <1>2 DEF CapTypes
  <1>4. PICK stamp \in Stamp, rec \in Record : stamp = cap.stamp /\ rec = cap.rec
    BY <1>1 DEF CapTypes
  <1>5. StampOK(stamp, rec)' /\ RecordOK(rec)'
    BY <1>1, <1>4, NoSteps, StampStill, RecordStill DEF CapOK
  <1>6. ASSUME cap.shell, ~busy
        PROVE  stamp.agent \notin UpAgents
    <2> SUFFICES ASSUME NEW q \in Tree, procs[q].start = stamp.agent
                 PROVE  FALSE
      BY DEF UpAgents
    <2>1. q # PanePid
      BY <1>1, <1>4, <1>6, TreeLineage DEF CapOK
    <2> QED
      BY <1>1, <1>2, <1>6, <2>1, TreeChildren
  <1>7. CapOK'
    BY <1>1, <1>3, <1>4, <1>5, <1>6, SameTree DEF CapOK
  <1>8. faults' \in 0..MaxFaults
    BY <1>1, <1>2, StampAssumption DEF MayFail, TypeOK
  <1> QED
    BY <1>1, <1>3, <1>7, <1>8, CapAlone

LEMMA JudgeInv ==
    ASSUME Inv, Judge \/ JudgeFails
    PROVE  Inv'
  <1>1. PICK keep \in BOOLEAN :
            \/ cap' = [NoCap EXCEPT !.keep = keep]
            \/ cap' = [NoCap EXCEPT !.keep = keep, !.failed = TRUE]
    <2>1. CASE Judge
      <3>1. PICK keep \in BOOLEAN : keep = (~Bound(cap.rec, cap.stamp) \/ ~Stale(cap.rec))
        OBVIOUS
      <3>2. cap' = [NoCap EXCEPT !.keep = keep]
        BY <2>1, <3>1 DEF Judge, Verdict
      <3> QED
        BY <3>2
    <2>2. CASE JudgeFails
      BY <2>2 DEF JudgeFails
    <2> QED
      BY <2>1, <2>2
  <1>2. cap' \in CapTypes /\ cap'.pc = "done"
    <2>1. NoCap.pc = "done"
      BY DEF NoCap
    <2> QED
      BY <1>1, <2>1, NoCapTyped DEF CapTypes
  <1>3. CapOK'
    BY <1>2 DEF CapOK
  <1>4. UNCHANGED <<procs, starts, hooks, options, deaths>> /\ faults' \in 0..MaxFaults
    BY StampAssumption DEF Judge, JudgeFails, counts, MayFail, Inv, TypeOK
  <1> QED
    BY <1>2, <1>3, <1>4, CapAlone
------------------------------------------------------------------------------
(* The theorems *)

LEMMA NextInv ==
    ASSUME Inv, [Next]_vars
    PROVE  Inv'
  <1>1. CASE UNCHANGED vars
    <2>1. cap' \in CapTypes /\ faults' \in 0..MaxFaults
      BY <1>1 DEF vars, Inv, TypeOK, CapTypes
    <2>2. UNCHANGED <<procs, starts, hooks, options, cap, deaths>>
      BY <1>1 DEF vars, options
    <2>3. CapOK'
      BY <2>2, NoSteps, CapStill DEF Inv
    <2> QED
      BY <2>1, <2>2, <2>3, CapAlone
  <1>2. ASSUME NEW parent \in Tree, NEW p \in Pids, NEW comm \in {"sh", "agent", "other"},
               NEW sid \in Ids \cup {None}, Spawn(p, parent, comm, sid)
        PROVE  Inv'
    BY <1>2, SpawnInv
  <1>3. ASSUME NEW parent \in Tree, NEW p \in Pids, NEW clear \in BOOLEAN,
               NEW sid \in Ids \cup {None}, RunHook(p, parent, clear, sid)
        PROVE  Inv'
    BY <1>3, RunHookInv
  <1>4. ASSUME NEW p \in All, NEW comm \in {"agent", "other"}, NEW sid \in Ids \cup {None},
               Exec(p, comm, sid)
        PROVE  Inv'
    BY <1>4, ExecInv
  <1>5. ASSUME NEW p \in All, Die(p) \/ Reap(p)
        PROVE  Inv'
    BY <1>5, DieInv, ReapInv
  <1>6. ASSUME NEW p \in Pids,
               HookFails(p) \/ WalkUp(p) \/ OwnerStart(p) \/ SetOwner(p) \/ SetStamp(p)
        PROVE  Inv'
    BY <1>6, HookFailsInv, WalkUpInv, OwnerStartInv, SetOwnerInv, SetStampInv
  <1>7. CASE SetByHand \/ ListPane \/ CountChildren \/ Judge \/ JudgeFails
    BY <1>7, SetByHandInv, ListPaneInv, CountChildrenInv, JudgeInv
  <1> QED
    BY <1>1, <1>2, <1>3, <1>4, <1>5, <1>6, <1>7 DEF Next

LEMMA InvHolds == Spec => []Inv
  <1>1. Init => Inv
    BY InitInv
  <1>2. Inv /\ [Next]_vars => Inv'
    BY NextInv
  <1> QED
    BY <1>1, <1>2, PTL DEF Spec

\* The process table, the hooks, the options and the capture keep their types;
\* a record names an owner with its start or no owner at all.
THEOREM TypeCorrect == Spec => []TypeOK
  <1>1. Inv => TypeOK
    BY DEF Inv
  <1> QED
    BY <1>1, InvHolds, PTL

\* relaunch_stamp.go:75-89: the owner in the record is there, under the pane, as
\* long as the agent is that it was written for.
THEOREM OwnerCoversAgentCorrect == Spec => []OwnerCoversAgent
  <1>1. ASSUME Inv
        PROVE  OwnerCoversAgent
    <2> SUFFICES ASSUME owner.pid # None, owner.agent \in UpAgents
                 PROVE  owner.pid \in Tree /\ procs[owner.pid].start = owner.start
      BY DEF OwnerCoversAgent
    <2>1. PICK q \in Tree : procs[q].start = owner.agent
      BY DEF UpAgents
    <2> QED
      BY <1>1, <2>1, TreeLineage DEF Inv, RecordOK
  <1> QED
    BY <1>1, InvHolds, PTL

\* Who decides, and on what.
LEMMA Decision ==
    ASSUME Next, Decided
    PROVE  \/ JudgeFails /\ cap'.keep /\ cap'.failed
           \/ /\ cap'.keep = (~Bound(cap.rec, cap.stamp) \/ ~Stale(cap.rec))
              /\ ~cap'.failed
  <1>0. cap'.pc # cap.pc /\ cap.pc # "count" /\ cap'.pc # "count"
    BY DEF Decided
  <1>1. Judge \/ JudgeFails
    <2>1. ASSUME NEW p, NEW q, NEW comm, NEW sid PROVE ~Spawn(p, q, comm, sid)
      BY <1>0 DEF Spawn
    <2>2. ASSUME NEW p, NEW q, NEW clear, NEW sid PROVE ~RunHook(p, q, clear, sid)
      BY <1>0 DEF RunHook
    <2>3. ASSUME NEW p, NEW comm, NEW sid PROVE ~Exec(p, comm, sid)
      BY <1>0 DEF Exec
    <2>4. ASSUME NEW p PROVE ~(Die(p) \/ Reap(p))
      BY <1>0 DEF Die, Reap
    <2>5. ASSUME NEW p PROVE ~(HookFails(p) \/ WalkUp(p) \/ OwnerStart(p) \/ SetOwner(p) \/ SetStamp(p))
      BY <1>0 DEF HookFails, WalkUp, OwnerStart, SetOwner, SetStamp
    <2>6. ~(SetByHand \/ ListPane \/ CountChildren)
      BY <1>0 DEF SetByHand, ListPane, CountChildren, Decided, NoCap
    <2> QED
      BY <2>1, <2>2, <2>3, <2>4, <2>5, <2>6 DEF Next
  <1>2. CASE Judge
    <2>1. cap' = [NoCap EXCEPT !.keep = ~Bound(cap.rec, cap.stamp) \/ ~Stale(cap.rec)]
      BY <1>2 DEF Judge, Verdict
    <2> QED
      BY <2>1 DEF NoCap
  <1>3. CASE JudgeFails
    BY <1>3 DEF JudgeFails, NoCap
  <1> QED
    BY <1>1, <1>2, <1>3

\* A capture, and the restore of its snapshot, keep the stamp of an agent that
\* runs, whatever hooks, deaths and failures come between their steps.
THEOREM LiveStampKeptCorrect == Spec => LiveStampKept
  <1> DEFINE Live == Decided /\ cap.stamp.agent \in UpAgents /\ ~cap.stamp.lost /\ ~cap.stamp.rival
  <1>1. ASSUME Inv, Next, Live
        PROVE  Replayed(cap'.keep)
    <2>1. cap.pc = "walk" /\ CapOK /\ TableOK /\ cap.stamp.agent \in UpAgents
      BY <1>1 DEF Decided, Inv
    <2>2. PICK q \in Tree : procs[q].start = cap.stamp.agent
      BY <2>1 DEF UpAgents
    <2>3. cap.stamp.agent # 0
      BY <2>1, <2>2, TreeLineage DEF TableOK, Forest
    <2>4. cap.busy \/ ~cap.shell
      BY <2>1 DEF CapOK
    <2>5. ASSUME Bound(cap.rec, cap.stamp)
          PROVE  ~Stale(cap.rec)
      <3>1. cap.rec.pid # None /\ cap.rec.agent = cap.stamp.agent
        BY <1>1, <2>1, <2>3, <2>5 DEF Bound, CapOK, StampOK
      <3>2. cap.rec.pid \in Lineage(q) /\ procs[cap.rec.pid].start = cap.rec.start
        BY <2>1, <2>2, <3>1 DEF CapOK, RecordOK
      <3> QED
        BY <2>1, <2>2, <3>2, TreeLineage DEF Stale
    <2>6. cap'.keep
      BY <1>1, <2>5, Decision
    <2> QED
      BY <2>4, <2>6 DEF Replayed
  <1>2. Inv /\ [Next]_vars => [Live => Replayed(cap'.keep)]_vars
    BY <1>1
  <1> QED
    BY <1>2, InvHolds, PTL DEF Spec, LiveStampKept

\* README.md:206: a stamp whose agent was gone when the pane was listed is
\* dropped, though its pid, or that of its owner, was given out again since.
THEOREM GoneDroppedCorrect == Spec => GoneDropped
  <1> DEFINE Over == Decided /\ Bound(cap.rec, cap.stamp) /\ cap.rec.plain /\ ~cap.up /\ ~cap'.failed
  <1>1. ASSUME Inv, Next, Over
        PROVE  ~cap'.keep
    <2>1. cap.pc = "walk" /\ CapOK /\ TableOK /\ cap.rec.pid # None
      BY <1>1 DEF Decided, Inv, Bound
    <2>2. cap.rec.start = cap.rec.agent /\ cap.rec.agent \notin UpAgents /\ Ran(cap.rec.agent)
      BY <1>1, <2>1 DEF CapOK, RecordOK
    <2>3. ASSUME cap.rec.pid \in Tree, procs[cap.rec.pid].start = cap.rec.start
          PROVE  FALSE
      <3>1. procs[cap.rec.pid].comm = "agent"
        BY <2>1, <2>2, <2>3, TreeLineage DEF Ran
      <3> QED
        BY <2>2, <2>3, <3>1 DEF UpAgents
    <2>4. Stale(cap.rec)
      BY <2>3 DEF Stale
    <2> QED
      BY <1>1, <2>4, Decision
  <1>2. Inv /\ [Next]_vars => [Over => ~cap'.keep]_vars
    BY <1>1
  <1> QED
    BY <1>2, InvHolds, PTL DEF Spec, GoneDropped

\* README.md:206: no record of a hook, whenever it was written, judges a stamp
\* that was set by hand.
THEOREM HandKeptCorrect == Spec => HandKept
  <1> DEFINE ByHand == Decided /\ cap.stamp.text = Hand
  <1>1. ASSUME Inv, Next, ByHand
        PROVE  cap'.keep
    <2>1. ~Bound(cap.rec, cap.stamp)
      BY <1>1 DEF Decided, Inv, CapOK, RecordOK, Bound
    <2> QED
      BY <1>1, <2>1, Decision
  <1>2. Inv /\ [Next]_vars => [ByHand => cap'.keep]_vars
    BY <1>1
  <1> QED
    BY <1>2, InvHolds, PTL DEF Spec, HandKept
==============================================================================
