--------------------------- MODULE MigrationRunProofs ---------------------------
(***************************************************************************)
(* Proofs about MigrationRun, for every source, every number of sessions   *)
(* and every bound: the types, the two invariants of extraction and of the *)
(* crosswalk, what a cutover has posted and imported when it relies on it, *)
(* and that every step of a run is a step of Cutover.                      *)
(*                                                                         *)
(* The invariant says of every table what its rows are, and of every       *)
(* session what its local variables still know of the tables it read a     *)
(* transaction ago.  They stay true under the other sessions because the   *)
(* tables only grow: a run, a staged payload, a crosswalk and an opening   *)
(* voucher are never taken back.                                           *)
(*                                                                         *)
(* A second invariant, inductive on top of the first, says what a session  *)
(* has done by the time it gets to a call, and where it is within it: that *)
(* is what an execution relies on when it compares the totals.             *)
(***************************************************************************)
EXTENDS MigrationRun, FiniteSetTheorems, SequenceTheorems, TLAPS

-----------------------------------------------------------------------------
(* The tables.                                                              *)
SpentTyped ==
    /\ spent \in [starts : 0..MaxStarts, changes : 0..MaxChanges]
    /\ source \in [payload : [Records -> Versions], manifest : 0..MaxChanges]
    /\ source.manifest <= spent.changes

RunsNumbered ==
    /\ run \in [Runs -> RunRow \cup {None}]
    /\ \E n \in 0..(Rehearsed + spent.starts) : \A r \in Runs : run[r] # None <=> r <= n

StagedTyped ==
    /\ staged \in [Runs -> [Records -> StagedRow \cup {None}]]
    /\ \A r \in Runs, k \in Records : staged[r][k] # None => run[r] # None

MarksTyped ==
    /\ checkpoint \in [Runs -> [Range(Objects) -> Mark \cup {None}]]
    /\ \A r \in Runs, o \in Range(Objects) :
          checkpoint[r][o] # None => checkpoint[r][o].cursor <= Len(Content[o])

CrosswalkTyped ==
    /\ crosswalk \in [Records -> CrosswalkRow \cup {None}]
    /\ \A k \in Records :
          crosswalk[k] # None /\ crosswalk[k].action # "Insert" => k \in Cancelled

ManifestTyped ==
    /\ DOMAIN manifest = Runs
    /\ \A r \in Runs : IsInjective(manifest[r]) /\ Range(manifest[r]) \subseteq Records

OpeningsTyped ==
    /\ openings \in [Runs -> [stock : {0, 1}, ledger : {0, 1}]]
    /\ \A r \in Runs : run[r] = None => openings[r].stock = 0 /\ openings[r].ledger = 0

Tables ==
    /\ StagedTyped /\ MarksTyped /\ CheckpointCovers /\ CrosswalkTyped /\ ManifestTyped
    /\ effects \in [Records -> Nat] /\ CrosswalkIsTruth

-----------------------------------------------------------------------------
(* The sessions.                                                            *)
StagedUpTo(r, o, n) ==
    \A i \in DOMAIN Content[o] : i <= n => staged[r][Content[o][i]] # None

ToExtract(local) ==
    /\ local = [objects |-> local.objects]
    /\ local.objects \in Seq(Range(Objects))

InObject(r, local) ==
    /\ local.objects \in Seq(Range(Objects)) /\ local.objects # <<>>
    /\ local.cursor \in Nat
    /\ StagedUpTo(r, Head(local.objects), local.cursor)
ToFetch(r, local) ==
    /\ local = [objects |-> local.objects, cursor |-> local.cursor]
    /\ InObject(r, local)
ToStage(r, local) ==
    /\ local = [objects |-> local.objects, cursor |-> local.cursor, page |-> local.page]
    /\ InObject(r, local)
    /\ local.page \in [Page(Head(local.objects), local.cursor) -> Versions]

Entry == [key : Records, payload : Versions, done : BOOLEAN]
InList(r, local) ==
    /\ local.records \in Seq(Entry)
    /\ \A i \in DOMAIN local.records :
          LET x == local.records[i]
          IN  staged[r][x.key] # None /\ staged[r][x.key].payload = x.payload
    /\ local.next \in Nat \ {0}
ToApply(r, local) ==
    /\ local = [records |-> local.records, next |-> local.next, opened |-> local.opened]
    /\ InList(r, local)
ToWrite(r, local) ==
    /\ local = [records |-> local.records, next |-> local.next, opened |-> local.opened,
                found |-> local.found]
    /\ InList(r, local)
    /\ local.next <= Len(local.records)
    /\ local.found # None => crosswalk[local.records[local.next].key] = local.found

Plain == {"begin", "discovering", "validating", "listing", "comparing", "raised", "unwinding"}
CallNames == {"Discover", "Extract", "Scope", "Validate", "Approve", "Apply", "Counts", "Financials"}
OfOpening(controls) == controls = None \/ \A part \in controls : part \in {"stock", "ledger"}
Process(x) ==
    /\ x = [at |-> x.at, run |-> x.run, execute |-> x.execute, prior |-> x.prior,
            controls |-> x.controls, restart |-> x.restart, script |-> x.script,
            local |-> x.local]
    /\ x.run \in Runs /\ OfOpening(x.controls)
    /\ x.script \in Seq(CallNames) /\ x.script # <<>>

Knows(r, at, local) ==
    \/ at \in Plain
    \/ at = "extracting" /\ ToExtract(local)
    \/ at = "fetching" /\ ToFetch(r, local)
    \/ at = "staging" /\ ToStage(r, local)
    \/ at = "keeping" /\ local \in 0..MaxChanges
    \/ at \in {"applying", "opening"} /\ ToApply(r, local)
    \/ at = "writing" /\ ToWrite(r, local)

Sane(s) ==
    \/ session[s] = Idle
    \/ /\ Process(session[s])
       /\ run[session[s].run] # None
       /\ Knows(session[s].run, session[s].at, session[s].local)

SessionsSane == DOMAIN session = Sessions /\ \A s \in Sessions : Sane(s)

Sound == SpentTyped /\ RunsNumbered /\ Tables /\ OpeningsTyped /\ SessionsSane

-----------------------------------------------------------------------------
(* What a step of a session does to the others.                             *)

\* Nothing a session has read is taken back, and a run is recounted honestly.
Grows ==
    /\ \A r \in Runs : run[r] # None =>
          run'[r] # None /\ run'[r].miscounted \in {run[r].miscounted, Uncounted(r)}
    /\ \A r \in Runs, k \in Records : staged[r][k] # None =>
          staged'[r][k] # None /\ staged'[r][k].payload = staged[r][k].payload
    /\ \A k \in Records : crosswalk[k] # None => crosswalk'[k] = crosswalk[k]
    /\ \A r \in Runs : /\ openings[r].stock = 1 => openings'[r].stock = 1
                       /\ openings[r].ledger = 1 => openings'[r].ledger = 1

\* Only one session moves.
Moves(s) ==
    /\ DOMAIN session' = Sessions
    /\ \A q \in Sessions \ {s} : session'[q] = session[q]

(* The objects and their records, as the assumption gives them. *)
LEMMA Source ==
  /\ Objects \in Seq(Range(Objects))
  /\ Content \in [Range(Objects) -> Seq(Records)]
  /\ \A o \in Range(Objects) : /\ Content[o] \in Seq(Records)
                               /\ DOMAIN Content[o] = 1..Len(Content[o])
                               /\ Len(Content[o]) \in Nat
                               /\ \A i \in DOMAIN Content[o] : Content[o][i] \in Records
  /\ PageSize \in Nat \ {0}
  <1>1. /\ Objects \in Seq(Range(Objects)) /\ Content \in [Range(Objects) -> Seq(Records)]
        /\ PageSize \in Nat \ {0}
    BY MigrationAssumption
  <1>2. ASSUME NEW o \in Range(Objects)
        PROVE  /\ Content[o] \in Seq(Records)
               /\ DOMAIN Content[o] = 1..Len(Content[o])
               /\ Len(Content[o]) \in Nat
               /\ \A i \in DOMAIN Content[o] : Content[o][i] \in Records
    <2>1. Content[o] \in Seq(Records)
      BY <1>1
    <2> QED
      BY <2>1
  <1> QED
    BY <1>1, <1>2

(* NULL is no row, and no action. *)
LEMMA NoRow ==
  /\ None \notin RunRow /\ None \notin StagedRow /\ None \notin Mark /\ None \notin CrosswalkRow
  /\ None # "Keep" /\ None # "Archive" /\ None # "Insert" /\ None # "Link"
  <1>1. /\ None \notin RunRow \cup StagedRow \cup Mark \cup CrosswalkRow
        /\ None \notin {"Keep", "Archive", "Insert", "Link"}
    BY MigrationAssumption
  <1> QED
    BY <1>1

(* The numbers of the runs. *)
LEMMA RunNumbers ==
  /\ Rehearsed \in Nat /\ MaxStarts \in Nat /\ MaxChanges \in Nat
  /\ Runs \subseteq Nat
  BY MigrationAssumption DEF Runs

(* The controls of a process are parts of the opening.                      *)
LEMMA ControlsAre == \A c \in Controls \cup {None} : OfOpening(c)
  <1>1. Controls \subseteq SUBSET {"stock", "ledger"}
    BY MigrationAssumption
  <1>2. ASSUME NEW c \in Controls PROVE OfOpening(c)
    BY <1>1 DEF OfOpening
  <1> QED
    BY <1>2 DEF OfOpening

(* What a session knows stays true while the tables grow. *)
LEMMA KnowledgeGrows ==
  ASSUME NEW r \in Runs, NEW at, NEW local, Grows, Knows(r, at, local)
  PROVE  Knows(r, at, local)'
  <1>1. ASSUME NEW o \in Range(Objects), NEW n, StagedUpTo(r, o, n)
        PROVE  StagedUpTo(r, o, n)'
    BY <1>1, Source DEF StagedUpTo, Grows
  <1>2. ASSUME InObject(r, local) PROVE InObject(r, local)'
    <2>1. Head(local.objects) \in Range(Objects)
      BY <1>2 DEF InObject
    <2> QED
      BY <1>1, <1>2, <2>1 DEF InObject
  <1>4. ASSUME InList(r, local) PROVE InList(r, local)'
    <2>1. ASSUME NEW i \in DOMAIN local.records
          PROVE  LET x == local.records[i]
                 IN  staged'[r][x.key] # None /\ staged'[r][x.key].payload = x.payload
      <3>1. /\ local.records[i] \in Entry
            /\ staged[r][local.records[i].key] # None
            /\ staged[r][local.records[i].key].payload = local.records[i].payload
        BY <1>4 DEF InList
      <3>2. local.records[i].key \in Records
        BY <3>1 DEF Entry
      <3> QED
        BY <3>1, <3>2 DEF Grows
    <2> QED
      BY <1>4, <2>1 DEF InList
  <1>5. CASE at \in Plain
    BY <1>5 DEF Knows
  <1>6. CASE at = "extracting" /\ ToExtract(local)
    BY <1>6 DEF Knows, ToExtract
  <1>7. CASE at = "fetching" /\ ToFetch(r, local)
    BY <1>2, <1>7 DEF Knows, ToFetch
  <1>8. CASE at = "staging" /\ ToStage(r, local)
    BY <1>2, <1>8 DEF Knows, ToStage, Page
  <1>9. CASE at \in {"applying", "opening"} /\ ToApply(r, local)
    BY <1>4, <1>9 DEF Knows, ToApply
  <1>10. CASE at = "keeping" /\ local \in 0..MaxChanges
    BY <1>10 DEF Knows
  <1>11. CASE at = "writing" /\ ToWrite(r, local)
    <2>1. InList(r, local)'
      BY <1>4, <1>11 DEF ToWrite
    <2>2. ASSUME local.found # None
          PROVE  crosswalk'[local.records[local.next].key] = local.found
      <3>1. /\ local.records \in Seq(Entry) /\ local.next \in Nat \ {0}
            /\ local.next <= Len(local.records)
        BY <1>11 DEF ToWrite, InList
      <3>2. local.records[local.next] \in Entry
        BY <3>1
      <3>3. local.records[local.next].key \in Records
        BY <3>2 DEF Entry
      <3> QED
        BY <1>11, <2>2, <3>3 DEF ToWrite, Grows
    <2> QED
      BY <1>11, <2>1, <2>2 DEF Knows, ToWrite
  <1> QED
    BY <1>5, <1>6, <1>7, <1>8, <1>9, <1>10, <1>11 DEF Knows

(* The sessions stay sane when the one that moves does. *)
LEMMA OthersStaySane ==
  ASSUME SessionsSane, Grows, NEW s \in Sessions, Moves(s), Sane(s)'
  PROVE  SessionsSane'
  <1>1. ASSUME NEW q \in Sessions \ {s} PROVE Sane(q)'
    <2>1. session'[q] = session[q] /\ Sane(q)
      BY DEF Moves, SessionsSane
    <2>2. CASE session[q] = Idle
      BY <2>1, <2>2 DEF Sane, Idle
    <2>3. CASE session[q] # Idle
      <3>1. /\ Process(session[q]) /\ run[session[q].run] # None
            /\ Knows(session[q].run, session[q].at, session[q].local)
            /\ session[q].run \in Runs
        BY <2>1, <2>3 DEF Sane, Process
      <3>2. run'[session[q].run] # None
        BY <3>1 DEF Grows
      <3>3. \A r \in Runs : \A at, local : Knows(r, at, local) => Knows(r, at, local)'
        BY KnowledgeGrows
      <3>4. Process(session[q])'
        BY <2>1, <3>1 DEF Process
      <3> QED
        BY <2>1, <3>1, <3>2, <3>3, <3>4 DEF Sane
    <2> QED
      BY <2>2, <2>3
  <1> QED
    BY <1>1 DEF Moves, SessionsSane

(* They all stay sane when none moves.                                      *)
LEMMA SessionsStay ==
  ASSUME SessionsSane, Grows, session' = session
  PROVE  SessionsSane'
  <1>1. ASSUME NEW s \in Sessions PROVE Sane(s)'
    <2>1. session'[s] = session[s] /\ Sane(s)
      BY DEF SessionsSane
    <2>2. CASE session[s] = Idle
      BY <2>1, <2>2 DEF Sane, Idle
    <2>3. CASE session[s] # Idle
      <3>1. /\ Process(session[s]) /\ run[session[s].run] # None
            /\ Knows(session[s].run, session[s].at, session[s].local)
            /\ session[s].run \in Runs
        BY <2>1, <2>3 DEF Sane, Process
      <3>2. run'[session[s].run] # None
        BY <3>1 DEF Grows
      <3>3. \A q \in Runs : \A at, local : Knows(q, at, local) => Knows(q, at, local)'
        BY KnowledgeGrows
      <3> QED
        BY <2>1, <3>1, <3>2, <3>3 DEF Sane, Process
    <2> QED
      BY <2>2, <2>3
  <1> QED
    BY <1>1 DEF SessionsSane

(* A session that is not idle is a process, on a run that exists.           *)
LEMMA AtWork ==
  ASSUME SessionsSane, NEW s \in Sessions, ~At(s, "idle")
  PROVE  /\ Process(session[s]) /\ session[s].run \in Runs /\ run[session[s].run] # None
         /\ Knows(session[s].run, session[s].at, session[s].local)
  <1>1. session[s] # Idle
    BY DEF At, Idle
  <1> QED
    BY <1>1 DEF SessionsSane, Sane, Process

(* A call that goes on to a place knows there what it has to.               *)
LEMMA GoesOn ==
  ASSUME SessionsSane, NEW s \in Sessions, ~At(s, "idle"),
         NEW r, r = session[s].run, run'[r] # None,
         NEW place, NEW local, Goto(s, place, local), Knows(r, place, local)'
  PROVE  Moves(s) /\ Sane(s)'
  <1> DEFINE me == session[s]
  <1>1. Process(me) /\ me.run \in Runs
    BY AtWork
  <1>2. session' = [session EXCEPT ![s] = [me EXCEPT !.at = place, !.local = local]]
    BY <1>1 DEF Goto, SessionsSane, Process
  <1>3. Moves(s)
    BY <1>2 DEF Moves, SessionsSane
  <1>4. session'[s] = [at |-> place, run |-> me.run, execute |-> me.execute, prior |-> me.prior,
                       controls |-> me.controls, restart |-> me.restart, script |-> me.script,
                       local |-> local]
    BY <1>1, <1>2 DEF SessionsSane, Process
  <1>5. Process(session'[s]) /\ session'[s].run = r /\ session'[s].at = place
        /\ session'[s].local = local
    BY <1>1, <1>4 DEF Process
  <1>6. Sane(s)'
    BY <1>5 DEF Sane
  <1> QED
    BY <1>3, <1>6

(* A session at the beginning of a script knows all it has to.              *)
LEMMA StartsOver ==
  ASSUME DOMAIN session = Sessions, NEW s \in Sessions,
         NEW r \in Runs, NEW execute, NEW prior, NEW restart, NEW script,
         NEW controls, OfOpening(controls),
         script \in Seq(CallNames), script # <<>>, run'[r] # None,
         session' = [session EXCEPT ![s] = Working(r, execute, prior, controls, restart, script)]
  PROVE  Moves(s) /\ Sane(s)'
  <1>1. Moves(s)
    BY DEF Moves
  <1>2. session'[s] = [at |-> "begin", run |-> r, execute |-> execute, prior |-> prior,
                       controls |-> controls, restart |-> restart, script |-> script,
                       local |-> None]
    BY DEF Working
  <1>3. /\ Process(session'[s]) /\ session'[s].run = r /\ session'[s].at = "begin"
        /\ "begin" \in Plain
    BY <1>2 DEF Process, Plain
  <1>4. Sane(s)'
    BY <1>3 DEF Sane, Knows
  <1> QED
    BY <1>1, <1>4

(* A call that returns or raises leaves the session idle or at a place      *)
(* where it knows nothing.                                                  *)
LEMMA Ends ==
  ASSUME SessionsSane, NEW s \in Sessions, ~At(s, "idle"), run'[session[s].run] # None,
         Return(s) \/ Raise(s) \/ Unwinding(s) \/ session' = [session EXCEPT ![s] = Idle]
  PROVE  Moves(s) /\ Sane(s)'
  <1> DEFINE me == session[s]
  <1>1. Process(me) /\ me.run \in Runs /\ DOMAIN session = Sessions
    BY AtWork DEF SessionsSane
  <1>2. CASE session' = [session EXCEPT ![s] = Idle]
    BY <1>1, <1>2 DEF Moves, Sane
  <1>3. ASSUME NEW place \in Plain, NEW local, Goto(s, place, local) PROVE Moves(s) /\ Sane(s)'
    <2> DEFINE r == me.run
    <2>1. \A q : Knows(q, place, local)'
      BY <1>3 DEF Knows
    <2>2. run'[r] # None
      OBVIOUS
    <2> HIDE DEF r
    <2>3. r = session[s].run
      BY DEF r
    <2> QED
      BY <1>3, <2>1, <2>2, <2>3, GoesOn
  <1>4. ASSUME Unwinding(s) PROVE Moves(s) /\ Sane(s)'
    <2>1. CASE me.execute
      <3>1. session' = [session EXCEPT ![s] = [me EXCEPT !.at = "unwinding", !.local = None]]
        BY <1>1, <1>4, <2>1 DEF Unwinding
      <3>2. Goto(s, "unwinding", None)
        BY <1>1, <3>1 DEF Goto, Process
      <3> QED
        BY <1>3, <3>2 DEF Plain
    <2>2. CASE ~me.execute
      BY <1>1, <1>2, <1>4, <2>2 DEF Unwinding
    <2> QED
      BY <2>1, <2>2
  <1>5. CASE Raise(s)
    BY <1>3, <1>4, <1>5 DEF Raise, Plain
  <1>6. CASE Return(s)
    <2>1. CASE Len(me.script) = 1
      BY <1>1, <1>2, <1>6, <2>1 DEF Return
    <2>2. CASE Len(me.script) # 1
      <3>1. me.script \in Seq(CallNames) /\ me.script # <<>>
        BY <1>1 DEF Process
      <3>2. Tail(me.script) \in Seq(CallNames) /\ Tail(me.script) # <<>>
        <4>1. Len(me.script) \in Nat /\ Len(me.script) # 0
          BY <3>1
        <4>2. /\ Tail(me.script) \in Seq(CallNames)
              /\ Len(Tail(me.script)) = Len(me.script) - 1
          BY <3>1, HeadTailProperties
        <4>3. Len(me.script) - 1 # 0
          BY <2>2, <4>1
        <4> QED
          BY <4>2, <4>3
      <3>3. session' = [session EXCEPT ![s] =
                           Working(me.run, me.execute, me.prior, me.controls, FALSE,
                                   Tail(me.script))]
        BY <1>6, <2>2 DEF Return
      <3>4. OfOpening(me.controls)
        BY <1>1 DEF Process
      <3> QED
        BY <1>1, <3>2, <3>3, <3>4, StartsOver
    <2> QED
      BY <2>1, <2>2
  <1> QED
    BY <1>2, <1>4, <1>5, <1>6

-----------------------------------------------------------------------------
(* Steps that change no table but their own run.                            *)
RunMoves(r) ==
    \/ run' = run
    \/ \E row \in RunRow : /\ run' = [run EXCEPT ![r] = row]
                           /\ row.miscounted \in {run[r].miscounted, Uncounted(r)}

QuietStep(s) ==
    /\ ~At(s, "idle") /\ RunMoves(session[s].run)
    /\ UNCHANGED <<source, records, spent>>
    /\ Moves(s) /\ Sane(s)'

(* A run that changes its row stays a run, and all others what they are.    *)
LEMMA RunsStay ==
  ASSUME RunsNumbered, NEW r \in Runs, run[r] # None, RunMoves(r)
  PROVE  /\ run' \in [Runs -> RunRow \cup {None}]
         /\ \A q \in Runs : run'[q] # None <=> run[q] # None
         /\ \A q \in Runs \ {r} : run'[q] = run[q]
         /\ \A q \in Runs : run[q] # None =>
               run'[q].miscounted \in {run[q].miscounted, Uncounted(q)}
  <1>1. CASE run' = run
    BY <1>1 DEF RunsNumbered
  <1>2. ASSUME NEW row \in RunRow, run' = [run EXCEPT ![r] = row],
               row.miscounted \in {run[r].miscounted, Uncounted(r)}
        PROVE  /\ run' \in [Runs -> RunRow \cup {None}]
               /\ \A q \in Runs : run'[q] # None <=> run[q] # None
               /\ \A q \in Runs \ {r} : run'[q] = run[q]
               /\ \A q \in Runs : run[q] # None =>
                     run'[q].miscounted \in {run[q].miscounted, Uncounted(q)}
    BY <1>2, NoRow DEF RunsNumbered
  <1> QED
    BY <1>1, <1>2 DEF RunMoves

(* Such a step keeps the invariant.                                         *)
LEMMA QuietSound ==
  ASSUME Sound, NEW s \in Sessions, QuietStep(s)
  PROVE  Sound' /\ Grows
  <1> DEFINE r == session[s].run
  <1>1. r \in Runs /\ run[r] # None
    BY AtWork DEF Sound, QuietStep
  <1>2. /\ run' \in [Runs -> RunRow \cup {None}]
        /\ \A q \in Runs : run'[q] # None <=> run[q] # None
        /\ \A q \in Runs \ {r} : run'[q] = run[q]
        /\ \A q \in Runs : run[q] # None =>
              run'[q].miscounted \in {run[q].miscounted, Uncounted(q)}
    BY <1>1, RunsStay DEF Sound, QuietStep
  <1>3. /\ staged' = staged /\ checkpoint' = checkpoint /\ crosswalk' = crosswalk
        /\ manifest' = manifest /\ effects' = effects /\ openings' = openings
        /\ source' = source /\ spent' = spent
    BY DEF QuietStep, records
  <1>4. SpentTyped'
    BY <1>3 DEF Sound, SpentTyped
  <1>5. RunsNumbered'
    BY <1>2, <1>3 DEF Sound, RunsNumbered
  <1>6. Tables'
    BY <1>2, <1>3 DEF Sound, Tables, StagedTyped, MarksTyped, CheckpointCovers, CrosswalkTyped,
                      ManifestTyped, CrosswalkIsTruth
  <1>7. OpeningsTyped'
    BY <1>2, <1>3 DEF Sound, OpeningsTyped
  <1>8. Grows
    BY <1>2, <1>3 DEF Grows
  <1>9. SessionsSane'
    BY <1>8, OthersStaySane DEF Sound, QuietStep
  <1> QED
    BY <1>4, <1>5, <1>6, <1>7, <1>8, <1>9 DEF Sound

(* A step that ends a call, or a process, and at most moves its run.        *)
LEMMA EndsQuietly ==
  ASSUME Sound, NEW s \in Sessions, ~At(s, "idle"), RunMoves(session[s].run),
         UNCHANGED <<source, records, spent>>,
         Return(s) \/ Raise(s) \/ Unwinding(s) \/ session' = [session EXCEPT ![s] = Idle]
  PROVE  QuietStep(s)
  <1>1. session[s].run \in Runs /\ run[session[s].run] # None
    BY AtWork DEF Sound
  <1>2. run'[session[s].run] # None
    BY <1>1, RunsStay DEF Sound
  <1> QED
    BY <1>2, Ends DEF Sound, QuietStep

(* A step that goes on to another place, and at most moves its run.         *)
LEMMA GoesQuietly ==
  ASSUME Sound, NEW s \in Sessions, ~At(s, "idle"), NEW r, r = session[s].run, RunMoves(r),
         UNCHANGED <<source, records, spent>>,
         NEW place, NEW local, Goto(s, place, local), Knows(r, place, local)'
  PROVE  QuietStep(s)
  <1>1. r \in Runs /\ run[r] # None
    BY AtWork DEF Sound
  <1>2. run'[r] # None
    BY <1>1, RunsStay DEF Sound
  <1> QED
    BY <1>2, GoesOn DEF Sound, QuietStep

(* The row of a run with another status.                                    *)
LEMMA RowWithStatus ==
  ASSUME RunsNumbered, NEW r \in Runs, run[r] # None, NEW status \in Statuses
  PROVE  /\ run[r] \in RunRow /\ [run[r] EXCEPT !.status = status] \in RunRow
         /\ [run[r] EXCEPT !.status = status].miscounted = run[r].miscounted
  <1>1. run[r] \in RunRow
    BY DEF RunsNumbered
  <1> QED
    BY <1>1 DEF RunRow

(* The names of the statuses.                                               *)
LEMMA StatusNames ==
  {"Discovering", "Discovered", "Extracting", "Staged", "Validating", "Validated", "Approved",
   "Applying", "Reconciling", "Completed", "Failed", "Created", "RolledBack"} \subseteq Statuses
  BY DEF Statuses, RunTransitions

(* A transition changes the status of its run and nothing else.             *)
LEMMA MovesOn ==
  ASSUME RunsNumbered, NEW r \in Runs, run[r] # None, NEW status \in Statuses,
         run' = [run EXCEPT ![r].status = status]
  PROVE  RunMoves(r)
  <1> DEFINE row == [run[r] EXCEPT !.status = status]
  <1>1. row \in RunRow /\ row.miscounted = run[r].miscounted
    BY RowWithStatus
  <1>2. run' = [run EXCEPT ![r] = row]
    BY DEF RunsNumbered
  <1> QED
    BY <1>1, <1>2 DEF RunMoves

(* Every call that begins with a transition.                                *)
LEMMA BeginsQuietly ==
  ASSUME Sound, NEW s \in Sessions, NEW call, NEW status \in Statuses,
         NEW place, NEW local, Begin(s, call, status, place, local),
         \A r : Knows(r, place, local)'
  PROVE  QuietStep(s)
  <1> DEFINE r == session[s].run
  <1>1. ~At(s, "idle") /\ UNCHANGED <<source, records, spent>>
    BY DEF Begin, Calls, At
  <1>2. r \in Runs /\ run[r] # None
    BY <1>1, AtWork DEF Sound
  <1>3. CASE MayMove(r, status)
    <2>1. run' = [run EXCEPT ![r].status = status] /\ Goto(s, place, local)
      BY <1>3 DEF Begin
    <2>2. RunMoves(r)
      BY <1>2, <2>1, MovesOn DEF Sound
    <2> HIDE DEF r
    <2>3. r = session[s].run
      BY DEF r
    <2> QED
      BY <1>1, <2>1, <2>2, <2>3, GoesQuietly
  <1>4. CASE ~MayMove(r, status)
    BY <1>1, <1>4, EndsQuietly DEF Begin, RunMoves
  <1> QED
    BY <1>3, <1>4

(* discover(), extract(), validate() and apply() begin.                     *)
LEMMA BeginningsQuiet ==
  ASSUME Sound, NEW s \in Sessions,
         BeginDiscover(s) \/ BeginExtract(s) \/ BeginValidate(s) \/ BeginApply(s)
  PROVE  QuietStep(s)
  <1>1. \A place \in Plain : \A r, local : Knows(r, place, local)'
    BY DEF Knows
  <1>2. {"discovering", "validating", "listing"} \subseteq Plain
    BY DEF Plain
  <1>3. \A r : Knows(r, "extracting", [objects |-> Objects])'
    BY Source DEF Knows, ToExtract
  <1>4. CASE BeginDiscover(s)
    BY <1>1, <1>2, <1>4, StatusNames, BeginsQuietly DEF BeginDiscover
  <1>5. CASE BeginExtract(s)
    BY <1>3, <1>5, StatusNames, BeginsQuietly DEF BeginExtract
  <1>6. CASE BeginValidate(s)
    BY <1>1, <1>2, <1>6, StatusNames, BeginsQuietly DEF BeginValidate
  <1>7. CASE BeginApply(s)
    BY <1>1, <1>2, <1>7, StatusNames, BeginsQuietly DEF BeginApply
  <1> QED
    BY <1>4, <1>5, <1>6, <1>7

(* What calls leave behind that raise, and processes that die.              *)
LEMMA FailuresQuiet ==
  ASSUME Sound, NEW s \in Sessions, HandleError(s) \/ Unwind(s) \/ Crash(s)
  PROVE  QuietStep(s)
  <1> DEFINE r == session[s].run
  <1>1. ~At(s, "idle") /\ UNCHANGED <<source, records, spent>>
    BY DEF HandleError, Unwind, Crash, At
  <1>2. r \in Runs /\ run[r] # None /\ run[r] \in RunRow
    BY <1>1, AtWork DEF Sound, RunsNumbered
  <1>3. "Failed" \in Statuses
    BY StatusNames
  <1>4. CASE HandleError(s)
    <2>1. Unwinding(s)
      BY <1>4 DEF HandleError
    <2>2. RunMoves(r)
      <3> DEFINE extracting == Head(session[s].script) = "Extract"
                 row == [run[r] EXCEPT !.status = "Failed", !.errors = @ \/ extracting]
      <3>1. run' = run \/ run' = [run EXCEPT ![r] = row]
        BY <1>2, <1>4 DEF HandleError, Sound, RunsNumbered
      <3>2. row \in RunRow /\ row.miscounted = run[r].miscounted
        BY <1>2, <1>3 DEF RunRow
      <3> QED
        BY <3>1, <3>2 DEF RunMoves
    <2> QED
      BY <1>1, <2>1, <2>2, EndsQuietly
  <1>5. CASE Unwind(s)
    <2>1. RunMoves(r)
      BY <1>2, <1>3, <1>5, MovesOn DEF Unwind, Sound, RunMoves
    <2> QED
      BY <1>1, <1>5, <2>1, EndsQuietly DEF Unwind
  <1>6. CASE Crash(s)
    BY <1>1, <1>6, EndsQuietly DEF Crash, RunMoves
  <1> QED
    BY <1>4, <1>5, <1>6

(* The transaction that ends a call.                                        *)
LEMMA EndMoves ==
  ASSUME Sound, NEW s \in Sessions, ~At(s, "idle"), NEW allowed \in BOOLEAN,
         NEW row \in RunRow, End(s, allowed, row), UNCHANGED <<source, records, spent>>,
         row.miscounted \in {run[session[s].run].miscounted, Uncounted(session[s].run)}
  PROVE  QuietStep(s)
  <1> DEFINE r == session[s].run
  <1>1. CASE allowed /\ MayMove(r, row.status)
    <2>1. run' = [run EXCEPT ![r] = row] /\ Return(s)
      BY <1>1 DEF End
    <2>2. RunMoves(r)
      BY <2>1 DEF RunMoves
    <2> QED
      BY <2>1, <2>2, EndsQuietly
  <1>2. CASE ~(allowed /\ MayMove(r, row.status))
    <2>1. run' = run /\ Raise(s)
      BY <1>2 DEF End
    <2> QED
      BY <2>1, EndsQuietly DEF RunMoves
  <1> QED
    BY <1>1, <1>2

(* discover() stores the capabilities; execute() has still to keep their    *)
(* hash.                                                                    *)
LEMMA EndDiscoverQuiet ==
  ASSUME Sound, NEW s \in Sessions, EndDiscover(s)
  PROVE  QuietStep(s)
  <1>0. PICK r, capabilities : r = session[s].run /\ capabilities = source.manifest
    OBVIOUS
  <1>1. ~At(s, "idle") /\ UNCHANGED <<source, records, spent>>
    BY DEF EndDiscover, At
  <1>2. r \in Runs /\ run[r] # None
    BY <1>0, <1>1, AtWork DEF Sound
  <1>3. CASE /\ run' = [run EXCEPT ![r].status = "Discovered"]
             /\ Goto(s, "keeping", capabilities) \/ Return(s)
    <2>1. RunMoves(r)
      BY <1>2, <1>3, StatusNames, MovesOn DEF Sound
    <2>2. CASE Return(s)
      BY <1>0, <1>1, <2>1, <2>2, EndsQuietly
    <2>3. CASE Goto(s, "keeping", capabilities)
      <3>1. Knows(r, "keeping", capabilities)'
        BY <1>0 DEF Knows, Sound, SpentTyped
      <3> QED
        BY <1>0, <1>1, <2>1, <2>3, <3>1, GoesQuietly
    <2> QED
      BY <1>3, <2>2, <2>3
  <1>4. CASE Raise(s) /\ UNCHANGED run
    BY <1>1, <1>4, EndsQuietly DEF RunMoves
  <1> QED
    BY <1>0, <1>3, <1>4 DEF EndDiscover

(* execute() keeps the hash of the capabilities, or never connects.         *)
LEMMA ExecutionQuiet ==
  ASSUME Sound, NEW s \in Sessions, KeepManifest(s) \/ FailConnection(s)
  PROVE  QuietStep(s)
  <1> DEFINE me == session[s]
             r == me.run
             row == [run[r] EXCEPT !.manifest = me.local]
  <1>1. ~At(s, "idle") /\ UNCHANGED <<source, records, spent>>
    BY DEF KeepManifest, FailConnection, Calls, At
  <1>2. r \in Runs /\ run[r] # None /\ run[r] \in RunRow /\ Knows(r, me.at, me.local)
    BY <1>1, AtWork DEF Sound, RunsNumbered
  <1>3. CASE KeepManifest(s)
    <2>1. run' = [run EXCEPT ![r] = row] /\ (Return(s) \/ Unwinding(s))
      BY <1>2, <1>3 DEF KeepManifest, Sound, RunsNumbered
    <2>2. me.local \in 0..MaxChanges
      BY <1>2, <1>3 DEF KeepManifest, At, Knows, Plain
    <2>3. row \in RunRow /\ row.miscounted = run[r].miscounted
      BY <1>2, <2>2 DEF RunRow
    <2>4. RunMoves(r)
      BY <2>1, <2>3 DEF RunMoves
    <2> QED
      BY <1>1, <2>1, <2>4, EndsQuietly
  <1>4. CASE FailConnection(s)
    BY <1>1, <1>4, EndsQuietly DEF FailConnection, RunMoves
  <1> QED
    BY <1>3, <1>4

(* extract() goes to its next object and knows that what is before the      *)
(* cursor of its checkpoint is staged.                                      *)
LEMMA OpenObjectQuiet ==
  ASSUME Sound, NEW s \in Sessions, OpenObject(s)
  PROVE  QuietStep(s)
  <1>0. PICK r, local, mark, fresh :
            /\ r = session[s].run /\ local = session[s].local
            /\ mark = checkpoint[r][Head(local.objects)]
            /\ fresh = (session[s].restart \/ mark = None)
    OBVIOUS
  <1> DEFINE objects == local.objects
             o == Head(objects)
  <1>1. /\ ~At(s, "idle") /\ UNCHANGED <<source, records, spent>> /\ run' = run
        /\ session[s].at = "extracting" /\ objects # <<>>
    BY <1>0 DEF OpenObject, At
  <1>2. r \in Runs /\ Knows(r, "extracting", local)
    BY <1>0, <1>1, AtWork DEF Sound
  <1>3. objects \in Seq(Range(Objects))
    BY <1>2 DEF Knows, ToExtract, Plain
  <1>4. o \in Range(Objects) /\ Tail(objects) \in Seq(Range(Objects))
    BY <1>1, <1>3, HeadTailProperties
  <1>5. RunMoves(r)
    BY <1>1 DEF RunMoves
  <1>6. staged' = staged
    BY <1>1 DEF records
  <1>7. mark = None \/ mark \in Mark
    BY <1>0, <1>2, <1>4 DEF Sound, Tables, MarksTyped
  <1>8. CASE ~fresh /\ mark.completed
    <2> DEFINE l == [objects |-> Tail(objects)]
    <2>1. Goto(s, "extracting", l)
      BY <1>0, <1>8 DEF OpenObject
    <2>2. Knows(r, "extracting", l)'
      BY <1>4 DEF Knows, ToExtract
    <2> QED
      BY <1>0, <1>1, <1>5, <2>1, <2>2, GoesQuietly
  <1>9. CASE ~(~fresh /\ mark.completed)
    <2>1. PICK cursor : cursor = IF fresh THEN 0 ELSE mark.cursor
      OBVIOUS
    <2> DEFINE l == [objects |-> objects, cursor |-> cursor]
    <2>2. Goto(s, "fetching", l)
      BY <1>0, <1>9, <2>1 DEF OpenObject
    <2>3. cursor \in Nat
      BY <1>0, <1>7, <2>1 DEF Mark
    <2>4. StagedUpTo(r, o, cursor)
      <3>1. CASE fresh
        BY <1>4, <2>1, <3>1, Source DEF StagedUpTo
      <3>2. CASE ~fresh
        BY <1>0, <1>2, <1>4, <2>1, <3>2 DEF Sound, Tables, CheckpointCovers, StagedUpTo
      <3> QED
        BY <3>1, <3>2
    <2>5. StagedUpTo(r, o, cursor)'
      BY <1>6, <2>4 DEF StagedUpTo
    <2>6. InObject(r, l)'
      BY <1>1, <1>3, <2>3, <2>5 DEF InObject
    <2>7. Knows(r, "fetching", l)'
      BY <2>6 DEF Knows, ToFetch
    <2> QED
      BY <1>0, <1>1, <1>5, <2>2, <2>7, GoesQuietly
  <1> QED
    BY <1>8, <1>9

(* A page arrives with a payload for each of its records.                   *)
LEMMA FetchPageQuiet ==
  ASSUME Sound, NEW s \in Sessions, FetchPage(s)
  PROVE  QuietStep(s)
  <1>0. PICK r, local, page :
            /\ r = session[s].run /\ local = session[s].local
            /\ page = [k \in Page(Head(local.objects), local.cursor) |-> source.payload[k]]
    OBVIOUS
  <1> DEFINE o == Head(local.objects)
             l == [objects |-> local.objects, cursor |-> local.cursor, page |-> page]
  <1>1. /\ ~At(s, "idle") /\ UNCHANGED <<source, records, spent>> /\ run' = run
        /\ session[s].at = "fetching"
    BY DEF FetchPage, At
  <1>2. r \in Runs /\ Knows(r, "fetching", local)
    BY <1>0, <1>1, AtWork DEF Sound
  <1>3. InObject(r, local)
    BY <1>2 DEF Knows, ToFetch, Plain
  <1>4. RunMoves(r)
    BY <1>1 DEF RunMoves
  <1>5. CASE Raise(s)
    BY <1>0, <1>1, <1>4, <1>5, EndsQuietly
  <1>6. CASE Goto(s, "staging", l)
    <2>1. o \in Range(Objects) /\ local.cursor \in Nat
      BY <1>3 DEF InObject
    <2>2. Page(o, local.cursor) \subseteq Records
      <3>1. \A i \in (local.cursor + 1)..Smaller(local.cursor + PageSize, Len(Content[o])) :
               i \in DOMAIN Content[o]
        BY <2>1, Source DEF Smaller
      <3> QED
        BY <2>1, <3>1, Source DEF Page
    <2>3. page \in [Page(o, local.cursor) -> Versions]
      BY <1>0, <2>2 DEF Sound, SpentTyped
    <2>4. staged' = staged
      BY <1>1 DEF records
    <2>5. InObject(r, l)'
      BY <1>3, <2>4 DEF InObject, StagedUpTo
    <2>6. Knows(r, "staging", l)'
      BY <2>3, <2>5 DEF Knows, ToStage, Page
    <2> QED
      BY <1>0, <1>1, <1>4, <1>6, <2>6, GoesQuietly
  <1> QED
    BY <1>0, <1>5, <1>6 DEF FetchPage

(* A source has finitely many records.                                      *)
LEMMA RecordsFinite == IsFiniteSet(Records)
  <1>1. ASSUME NEW S, NEW f \in Seq(S) PROVE IsFiniteSet(Range(f))
    <2>1. DOMAIN f = 1..Len(f) /\ Len(f) \in Nat
      BY <1>1
    <2>2. IsFiniteSet(DOMAIN f)
      BY <2>1, FS_Interval
    <2>3. f \in Surjection(DOMAIN f, Range(f))
      BY <1>1 DEF Surjection, Range
    <2> QED
      BY <2>2, <2>3, FS_Surjection
  <1> DEFINE rows == [o \in Range(Objects) |-> Range(Content[o])]
  <1>2. IsFiniteSet(Range(Objects)) /\ \A o \in Range(Objects) : IsFiniteSet(rows[o])
    BY <1>1, Source
  <1>3. rows \in Surjection(Range(Objects), Range(rows))
    BY DEF Surjection, Range
  <1>4. IsFiniteSet(Range(rows))
    BY <1>2, <1>3, FS_Surjection
  <1>5. \A S \in Range(rows) : IsFiniteSet(S)
    BY <1>2 DEF Range
  <1>6. Records = UNION Range(rows)
    <2>1. \A f : Range(f) = {f[x] : x \in DOMAIN f}
      BY DEF Range
    <2>2. Range(rows) = {rows[o] : o \in Range(Objects)}
      BY <2>1
    <2>3. Range(rows) = {Range(Content[o]) : o \in Range(Objects)}
      BY <2>2
    <2> QED
      BY <2>3 DEF Records
  <1> HIDE DEF rows
  <1> QED
    BY <1>4, <1>5, <1>6, FS_UNION

(* extract() and approve() end, and nothing depends on it.                  *)
LEMMA FinishesQuiet ==
  ASSUME Sound, NEW s \in Sessions, FinishExtract(s) \/ Approve(s)
  PROVE  QuietStep(s)
  <1> DEFINE r == session[s].run
  <1>1. ~At(s, "idle") /\ UNCHANGED <<source, records, spent>>
    BY DEF FinishExtract, Approve, Calls, At
  <1>2. r \in Runs /\ run[r] # None /\ run[r] \in RunRow
    BY <1>1, AtWork DEF Sound, RunsNumbered
  <1>3. CASE FinishExtract(s)
    <2> DEFINE row == [run[r] EXCEPT !.status = "Staged"]
    <2>1. row \in RunRow /\ row.miscounted = run[r].miscounted
      BY <1>2, StatusNames DEF RunRow
    <2>2. End(s, TRUE, row)
      BY <1>3 DEF FinishExtract
    <2> HIDE DEF row
    <2> QED
      BY <1>1, <2>1, <2>2, EndMoves
  <1>4. CASE Approve(s)
    <2> DEFINE row == [run[r] EXCEPT !.status = "Approved"]
               allowed == run[r].status = "Validated" /\ ~run[r].issues
    <2>1. row \in RunRow /\ row.miscounted = run[r].miscounted
      BY <1>2, StatusNames DEF RunRow
    <2>2. End(s, allowed, row) /\ allowed \in BOOLEAN
      BY <1>4 DEF Approve
    <2> HIDE DEF row, allowed
    <2> QED
      BY <1>1, <2>1, <2>2, EndMoves
  <1> QED
    BY <1>3, <1>4

(* The records apply() lists are staged with the payloads it has read.      *)
LEMMA ListRecordsQuiet ==
  ASSUME Sound, NEW s \in Sessions, ListRecords(s)
  PROVE  QuietStep(s)
  <1>0. PICK r : r = session[s].run
    OBVIOUS
  <1>1. ~At(s, "idle") /\ UNCHANGED <<source, records, spent>> /\ run' = run
    BY DEF ListRecords, At
  <1>2. r \in Runs
    BY <1>0, <1>1, AtWork DEF Sound
  <1>3. PICK list \in [1..Cardinality(Due(r)) -> Due(r)] :
            Goto(s, "applying", [records |-> Listed(r, list), next |-> 1, opened |-> FALSE])
    BY <1>0 DEF ListRecords
  <1>4. PICK rows : rows = Listed(r, list)
    OBVIOUS
  <1> DEFINE l == [records |-> rows, next |-> 1, opened |-> FALSE]
  <1>5. Cardinality(Due(r)) \in Nat
    <2>1. Due(r) \in SUBSET Records
      BY DEF Due
    <2>2. IsFiniteSet(Due(r))
      BY <2>1, RecordsFinite, FS_Subset
    <2> QED
      BY <2>2, FS_CardinalityType
  <1>6. \A k \in Due(r) : k \in Records /\ staged[r][k] # None /\ staged[r][k] \in StagedRow
    BY <1>2 DEF Due, Sound, Tables, StagedTyped
  <1>7. ASSUME NEW i \in 1..Cardinality(Due(r))
        PROVE  /\ [key |-> list[i], payload |-> staged[r][list[i]].payload,
                   done |-> staged[r][list[i]].status # "Valid"] \in Entry
               /\ staged[r][list[i]] # None
    <2>1. list[i] \in Records /\ staged[r][list[i]] # None /\ staged[r][list[i]] \in StagedRow
      BY <1>6
    <2>2. staged[r][list[i]].payload \in Versions
      BY <2>1 DEF StagedRow
    <2> QED
      BY <2>1, <2>2 DEF Entry
  <1>8. /\ DOMAIN rows = 1..Cardinality(Due(r))
        /\ \A i \in DOMAIN rows : rows[i] \in Entry /\ rows[i].key = list[i]
                                  /\ rows[i].payload = staged[r][list[i]].payload
    BY <1>4, <1>7 DEF Listed
  <1>9. rows \in [1..Cardinality(Due(r)) -> Entry]
    BY <1>4, <1>8 DEF Listed
  <1>10. rows \in Seq(Entry)
    BY <1>5, <1>9
  <1>11. staged' = staged
    BY <1>1 DEF records
  <1>12. InList(r, l)'
    <2>1. \A i \in DOMAIN rows : /\ staged'[r][rows[i].key] # None
                                 /\ staged'[r][rows[i].key].payload = rows[i].payload
      <3>1. ASSUME NEW i \in DOMAIN rows
            PROVE  /\ staged'[r][rows[i].key] # None
                   /\ staged'[r][rows[i].key].payload = rows[i].payload
        <4>1. i \in 1..Cardinality(Due(r)) /\ list[i] \in Due(r)
          BY <1>8
        <4>2. staged[r][list[i]] # None
          BY <1>6, <4>1
        <4> QED
          BY <1>8, <1>11, <4>2
      <3> QED
        BY <3>1
    <2>2. l.records = rows /\ l.next \in Nat \ {0} /\ ~l.opened
      OBVIOUS
    <2> HIDE DEF l
    <2> QED
      BY <1>10, <2>1, <2>2 DEF InList
  <1>13. Knows(r, "applying", l)'
    BY <1>12 DEF Knows, ToApply
  <1> QED
    BY <1>0, <1>1, <1>3, <1>4, <1>13, GoesQuietly DEF RunMoves

(* The transaction of a record has seen its crosswalk.                      *)
LEMMA LookUpQuiet ==
  ASSUME Sound, NEW s \in Sessions, LookUp(s)
  PROVE  QuietStep(s)
  <1>0. PICK r, local : r = session[s].run /\ local = session[s].local
    OBVIOUS
  <1>1. /\ ~At(s, "idle") /\ UNCHANGED <<source, records, spent>> /\ run' = run
        /\ session[s].at = "applying" /\ local.next <= Len(local.records)
    BY <1>0 DEF LookUp, At
  <1>2. r \in Runs /\ Knows(r, "applying", local)
    BY <1>0, <1>1, AtWork DEF Sound
  <1>3. ToApply(r, local)
    BY <1>2 DEF Knows, Plain
  <1>4. staged' = staged /\ openings' = openings /\ crosswalk' = crosswalk
    BY <1>1 DEF records
  <1>5. InList(r, local)'
    BY <1>3, <1>4 DEF ToApply, InList
  <1>6. CASE Goto(s, "applying", [local EXCEPT !.next = @ + 1])
    <2> DEFINE l == [records |-> local.records, next |-> local.next + 1, opened |-> local.opened]
    <2>1. [local EXCEPT !.next = @ + 1] = l
      BY <1>3 DEF ToApply
    <2>2. local.next + 1 \in Nat \ {0}
      BY <1>3 DEF ToApply, InList
    <2>3. InList(r, l)'
      BY <1>5, <2>2 DEF InList
    <2>4. Knows(r, "applying", l)'
      BY <2>3 DEF Knows, ToApply
    <2> QED
      BY <1>0, <1>1, <1>6, <2>1, <2>4, GoesQuietly DEF RunMoves
  <1>7. PICK found : found = crosswalk[local.records[local.next].key]
    OBVIOUS
  <1>8. CASE Goto(s, "writing", [records |-> local.records, next |-> local.next,
                                 opened |-> local.opened, found |-> found])
    <2> DEFINE l == [records |-> local.records, next |-> local.next,
                     opened |-> local.opened, found |-> found]
    <2>1. InList(r, l)'
      BY <1>5 DEF InList
    <2>2. Knows(r, "writing", l)'
      BY <1>1, <1>4, <1>7, <2>1 DEF Knows, ToWrite
    <2> QED
      BY <1>0, <1>1, <1>8, <2>2, GoesQuietly DEF RunMoves
  <1> QED
    BY <1>0, <1>6, <1>7, <1>8 DEF LookUp

(* apply() leaves a run to reconciliation.                                  *)
LEMMA FinishApplyQuiet ==
  ASSUME Sound, NEW s \in Sessions, FinishApply(s)
  PROVE  QuietStep(s)
  <1> DEFINE r == session[s].run
             row == [run[r] EXCEPT !.status = "Reconciling"]
  <1>1. ~At(s, "idle") /\ UNCHANGED <<source, records, spent>>
    BY DEF FinishApply, At
  <1>2. r \in Runs /\ run[r] # None
    BY <1>1, AtWork DEF Sound
  <1>3. row \in RunRow /\ row.miscounted = run[r].miscounted
    BY <1>2, StatusNames, RowWithStatus DEF Sound
  <1>4. End(s, TRUE, row)
    BY DEF FinishApply
  <1> HIDE DEF row
  <1> QED
    BY <1>1, <1>3, <1>4, EndMoves

(* A record that is refused leaves everything as it was.                    *)
LEMMA RefuseQuiet ==
  ASSUME Sound, NEW s \in Sessions, Refuse(s)
  PROVE  QuietStep(s)
  <1>1. /\ ~At(s, "idle") /\ UNCHANGED <<source, records, spent>> /\ run' = run /\ Raise(s)
    BY DEF Refuse, At
  <1> QED
    BY <1>1, EndsQuietly DEF RunMoves

(* The counts settle a run that apply() has left to them.                   *)
LEMMA CountsQuiet ==
  ASSUME Sound, NEW s \in Sessions, Counts(s)
  PROVE  QuietStep(s)
  <1> DEFINE r == session[s].run
             outcome == IF session[s].execute THEN "Reconciling"
                        ELSE IF Uncounted(r) THEN "Failed" ELSE "Completed"
             row == [run[r] EXCEPT !.status = outcome, !.miscounted = Uncounted(r)]
             allowed == run[r].status = "Reconciling"
  <1>1. /\ ~At(s, "idle") /\ UNCHANGED <<source, records, spent>>
    BY DEF Counts, Calls, At
  <1>2. r \in Runs /\ run[r] # None /\ run[r] \in RunRow
    BY <1>1, AtWork DEF Sound, RunsNumbered
  <1>3. Uncounted(r) \in BOOLEAN
    BY DEF Uncounted
  <1>4. outcome \in Statuses
    BY StatusNames
  <1>5. row \in RunRow /\ row.miscounted = Uncounted(r)
    BY <1>2, <1>3, <1>4 DEF RunRow
  <1>7. End(s, allowed, row) /\ allowed \in BOOLEAN
    BY DEF Counts
  <1> HIDE DEF row, allowed
  <1> QED
    BY <1>1, <1>5, <1>7, EndMoves

(* The totals complete a run that may be completed.                         *)
LEMMA FinancialsQuiet ==
  ASSUME Sound, NEW s \in Sessions, BeginFinancials(s) \/ EndFinancials(s)
  PROVE  QuietStep(s)
  <1>0. PICK r : r = session[s].run
    OBVIOUS
  <1>1. ~At(s, "idle") /\ UNCHANGED <<source, records, spent>>
    BY DEF BeginFinancials, EndFinancials, Calls, At
  <1>2. r \in Runs /\ run[r] # None /\ run[r] \in RunRow
    BY <1>0, <1>1, AtWork DEF Sound, RunsNumbered
  <1>3. CASE BeginFinancials(s)
    <2>1. run' = run /\ (Goto(s, "comparing", None) \/ Raise(s))
      BY <1>3 DEF BeginFinancials
    <2>2. Knows(r, "comparing", None)'
      BY DEF Knows, Plain
    <2>3. CASE Raise(s)
      BY <1>1, <2>1, <2>3, EndsQuietly DEF RunMoves
    <2>4. CASE Goto(s, "comparing", None)
      BY <1>0, <1>1, <2>1, <2>2, <2>4, GoesQuietly DEF RunMoves
    <2> QED
      BY <2>1, <2>3, <2>4
  <1>4. CASE EndFinancials(s)
    <2>1. PICK agree \in BOOLEAN :
             End(s, TRUE, [run[r] EXCEPT
                 !.status = IF agree /\ ~run[r].miscounted THEN "Completed" ELSE "Failed"])
      BY <1>0, <1>4 DEF EndFinancials
    <2> DEFINE outcome == IF agree /\ ~run[r].miscounted THEN "Completed" ELSE "Failed"
               row == [run[r] EXCEPT !.status = outcome]
    <2>2. outcome \in Statuses
      BY StatusNames
    <2>3. row \in RunRow /\ row.miscounted = run[r].miscounted
      BY <1>2, <2>2 DEF RunRow
    <2> HIDE DEF row
    <2>5. End(s, TRUE, row)
      BY <2>1 DEF row
    <2> QED
      BY <1>0, <1>1, <2>3, <2>5, EndMoves
  <1> QED
    BY <1>3, <1>4

(* All of these steps.                                                      *)
QuietAction(s) ==
    \/ Discovery(s) \/ BeginExtract(s) \/ OpenObject(s) \/ FetchPage(s) \/ FinishExtract(s)
    \/ BeginValidate(s) \/ Approve(s) \/ BeginApply(s) \/ ListRecords(s) \/ LookUp(s)
    \/ Refuse(s) \/ FinishApply(s) \/ Reconciliation(s)
    \/ HandleError(s) \/ Unwind(s) \/ Crash(s)

(* They change no table but their run.                                      *)
LEMMA QuietActions ==
  ASSUME Sound, NEW s \in Sessions, QuietAction(s)
  PROVE  QuietStep(s)
  BY BeginningsQuiet, FailuresQuiet, EndDiscoverQuiet, ExecutionQuiet, OpenObjectQuiet, FetchPageQuiet,
     FinishesQuiet, ListRecordsQuiet, LookUpQuiet, FinishApplyQuiet, RefuseQuiet, CountsQuiet,
     FinancialsQuiet
     DEF QuietAction, Discovery, Reconciliation

-----------------------------------------------------------------------------
(* Steps that start a session.                                              *)

(* Sequences of eight names, and what is left of them.                      *)
LEMMA EightNames ==
  ASSUME NEW S, NEW a \in S, NEW b \in S, NEW c \in S, NEW d \in S,
         NEW e \in S, NEW f \in S, NEW g \in S, NEW h \in S
  PROVE  LET all == <<a, b, c, d>> \o <<e, f, g, h>>
         IN  /\ <<a, b, c, d>> \in Seq(S) /\ <<a, b, c, d>> # <<>>
             /\ all \in Seq(S) /\ all # <<>>
             /\ \A first \in DOMAIN all : LET rest == SubSeq(all, first, Len(all))
                                         IN  rest \in Seq(S) /\ rest # <<>>
  <1> DEFINE x == <<a, b, c, d>>
             y == <<e, f, g, h>>
             all == x \o y
  <1>1. x \in Seq(S) /\ Len(x) = 4 /\ y \in Seq(S) /\ Len(y) = 4
    OBVIOUS
  <1> HIDE DEF x, y
  <1>2. all \in Seq(S) /\ Len(all) = 8
    <2>1. all \in Seq(S) /\ Len(all) = Len(x) + Len(y)
      BY <1>1, ConcatProperties
    <2> QED
      BY <1>1, <2>1
  <1> HIDE DEF all
  <1>3. ASSUME NEW first \in DOMAIN all
        PROVE  LET rest == SubSeq(all, first, Len(all)) IN rest \in Seq(S) /\ rest # <<>>
    <2>1. first \in 1..8 /\ DOMAIN all = 1..8
      BY <1>2
    <2>2. \A i \in first..8 : all[i] \in S
      <3>1. \A i \in first..8 : i \in 1..Len(all)
        BY <1>2, <2>1
      <3> QED
        BY <1>2, <3>1, ElementOfSeq
    <2>3. /\ SubSeq(all, first, 8) \in Seq(S)
          /\ Len(SubSeq(all, first, 8)) = 8 - first + 1
      BY <1>2, <2>1, <2>2, SubSeqProperties
    <2>4. Len(SubSeq(all, first, 8)) # 0
      BY <2>1, <2>3
    <2> DEFINE rest == SubSeq(all, first, 8)
    <2> HIDE DEF rest
    <2>5. rest \in Seq(S) /\ Len(rest) # 0
      BY <2>3, <2>4 DEF rest
    <2>6. rest # <<>>
      BY <2>5
    <2> QED
      BY <1>2, <2>5, <2>6 DEF rest
  <1>4. x # <<>> /\ all # <<>>
    BY <1>1, <1>2
  <1> QED
    BY <1>1, <1>2, <1>3, <1>4 DEF x, y, all

(* The calls of the executions are sequences of names.                      *)
LEMMA Scripts ==
  /\ DryRun \in Seq(CallNames) /\ DryRun # <<>>
  /\ CutoverRun \in Seq(CallNames) /\ CutoverRun # <<>>
  /\ \A first \in DOMAIN CutoverRun :
        LET rest == SubSeq(CutoverRun, first, Len(CutoverRun))
        IN  rest \in Seq(CallNames) /\ rest # <<>>
  <1>1. /\ "Discover" \in CallNames /\ "Extract" \in CallNames /\ "Scope" \in CallNames
        /\ "Validate" \in CallNames /\ "Approve" \in CallNames /\ "Apply" \in CallNames
        /\ "Counts" \in CallNames /\ "Financials" \in CallNames
    BY DEF CallNames
  <1> HIDE DEF CallNames
  <1>2. LET all == <<"Discover", "Extract", "Scope", "Validate">>
                     \o <<"Approve", "Apply", "Counts", "Financials">>
        IN  /\ <<"Discover", "Extract", "Scope", "Validate">> \in Seq(CallNames)
            /\ <<"Discover", "Extract", "Scope", "Validate">> # <<>>
            /\ all \in Seq(CallNames) /\ all # <<>>
            /\ \A first \in DOMAIN all : LET rest == SubSeq(all, first, Len(all))
                                        IN  rest \in Seq(CallNames) /\ rest # <<>>
    BY <1>1, EightNames
  <1> QED
    BY <1>2 DEF DryRun, CutoverRun

(* The invariant from its parts, for a step of one session.                 *)
LEMMA StepSound ==
  ASSUME Sound, NEW s \in Sessions, Moves(s), Sane(s)', Grows,
         SpentTyped', RunsNumbered', Tables', OpeningsTyped'
  PROVE  Sound'
  BY OthersStaySane DEF Sound

(* A new run has the number after the last.                                 *)
LEMMA NewRunIsNext ==
  ASSUME Sound, spent.starts < MaxStarts
  PROVE  \E n \in 1..(Rehearsed + spent.starts + 1) :
            /\ NewRun = n /\ n \in Runs /\ run[n] = None
            /\ \A r \in Runs : run[r] # None <=> r <= n - 1
  <1>1. PICK n \in 0..(Rehearsed + spent.starts) : \A r \in Runs : run[r] # None <=> r <= n
    BY DEF Sound, RunsNumbered
  <1>2. spent.starts \in Nat /\ spent.starts + 1 <= MaxStarts
    BY RunNumbers DEF Sound, SpentTyped
  <1>3. n \in Nat /\ n + 1 \in 1..(Rehearsed + spent.starts + 1) /\ n + 1 \in Runs
    BY <1>1, <1>2, RunNumbers DEF Runs
  <1> DEFINE m == n + 1
             First(r) == run[r] = None /\ \A q \in 1..(r - 1) : run[q] # None
  <1>4. run[m] = None /\ m - 1 = n
    BY <1>1, <1>3
  <1>5. First(m)
    <2>1. \A q \in 1..(m - 1) : q \in Runs /\ q <= n
      BY <1>3, RunNumbers DEF Runs
    <2> QED
      BY <1>1, <1>4, <2>1
  <1>6. ASSUME NEW r \in Runs, First(r) PROVE r = m
    <2>1. r > n
      BY <1>1, <1>3, <1>6 DEF Runs
    <2>2. ASSUME r > m PROVE FALSE
      <3>1. m \in 1..(r - 1)
        BY <1>3, <2>2 DEF Runs
      <3> QED
        BY <1>4, <1>6, <3>1
    <2> QED
      BY <1>3, <2>1, <2>2 DEF Runs
  <1>7. NewRun = m
    BY <1>3, <1>5, <1>6 DEF NewRun
  <1> QED
    BY <1>1, <1>3, <1>4, <1>7

(* execute() makes a run nobody knows yet.                                  *)
LEMMA ExecuteSound ==
  ASSUME Sound, NEW s \in Sessions, NEW mode \in {"dry_run", "cutover"},
         NEW controls \in Controls, Execute(s, mode, controls)
  PROVE  Sound' /\ Grows
  <1>1. PICK n \in 1..(Rehearsed + spent.starts + 1) :
            /\ NewRun = n /\ n \in Runs /\ run[n] = None
            /\ \A r \in Runs : run[r] # None <=> r <= n - 1
    BY NewRunIsNext DEF Execute
  <1>2. PICK row : row = NewRow(mode)
    OBVIOUS
  <1>3. row \in RunRow /\ row # None
    <2>1. "Created" \in Statuses
      BY StatusNames
    <2>2. row = [mode |-> mode, status |-> "Created", errors |-> FALSE, issues |-> FALSE,
                 manifest |-> None, miscounted |-> FALSE]
      BY <1>2 DEF NewRow
    <2>3. row \in RunRow
      BY <2>1, <2>2 DEF RunRow
    <2> QED
      BY <2>2, <2>3, NoRow
  <1>4. /\ run' = [run EXCEPT ![n] = row] /\ run \in [Runs -> RunRow \cup {None}]
        /\ run' \in [Runs -> RunRow \cup {None}] /\ run'[n] = row
        /\ \A r \in Runs \ {n} : run'[r] = run[r]
    BY <1>1, <1>2, <1>3 DEF Execute, Sound, RunsNumbered
  <1>5. /\ staged' = staged /\ checkpoint' = checkpoint /\ crosswalk' = crosswalk
        /\ manifest' = manifest /\ effects' = effects /\ openings' = openings
        /\ source' = source /\ spent' = [spent EXCEPT !.starts = @ + 1]
        /\ spent.starts < MaxStarts
    BY DEF Execute, records
  <1>6. SpentTyped' /\ spent'.starts = spent.starts + 1 /\ spent.starts \in Nat
    BY <1>5, RunNumbers DEF Sound, SpentTyped
  <1>7. RunsNumbered'
    <2>1. n \in 0..(Rehearsed + spent'.starts) /\ n \in Nat
      BY <1>1, <1>6, RunNumbers
    <2>2. \A r \in Runs : run'[r] # None <=> r <= n
      BY <1>1, <1>3, <1>4, RunNumbers
    <2> QED
      BY <1>4, <2>1, <2>2 DEF RunsNumbered
  <1>8. \A r \in Runs : run[r] # None => run'[r] = run[r]
    BY <1>1, <1>4
  <1>9. Tables'
    BY <1>4, <1>5, <1>8 DEF Sound, Tables, StagedTyped, MarksTyped, CheckpointCovers,
                            CrosswalkTyped, ManifestTyped, CrosswalkIsTruth
  <1>10. OpeningsTyped'
    <2>1. \A r \in Runs : run'[r] = None => run[r] = None
      BY <1>8
    <2> QED
      BY <1>5, <2>1 DEF Sound, OpeningsTyped
  <1>11. Grows
    BY <1>5, <1>8 DEF Grows
  <1>12. PICK prior, script, c :
             /\ c \in {controls, None}
             /\ session' = [session EXCEPT ![s] = Working(n, TRUE, prior, c, FALSE, script)]
             /\ script \in Seq(CallNames) /\ script # <<>>
    <2>1. CASE mode = "cutover"
      BY <1>1, <2>1, Scripts DEF Execute
    <2>2. CASE mode # "cutover"
      BY <1>1, <2>2, Scripts DEF Execute
    <2> QED
      BY <2>1, <2>2
  <1>13. Moves(s) /\ Sane(s)'
    <2>1. OfOpening(c)
      BY <1>12, ControlsAre
    <2> QED
      BY <1>1, <1>3, <1>4, <1>12, <2>1, StartsOver DEF Sound, SessionsSane
  <1> QED
    BY <1>6, <1>7, <1>9, <1>10, <1>11, <1>13, StepSound

(* An operator's script takes up a run that exists.                         *)
LEMMA ResumeSound ==
  ASSUME Sound, NEW s \in Sessions, NEW r \in Runs, NEW first \in DOMAIN CutoverRun,
         NEW controls \in Controls \cup {None}, NEW restart \in BOOLEAN,
         Resume(s, r, first, controls, restart)
  PROVE  Sound' /\ Grows
  <1>1. /\ staged' = staged /\ checkpoint' = checkpoint /\ crosswalk' = crosswalk
        /\ manifest' = manifest /\ effects' = effects /\ openings' = openings
        /\ source' = source /\ spent' = [spent EXCEPT !.starts = @ + 1]
        /\ spent.starts < MaxStarts /\ run' = run /\ run[r] # None
    BY DEF Resume, records
  <1>2. SpentTyped' /\ spent'.starts = spent.starts + 1 /\ spent.starts \in Nat
    BY <1>1, RunNumbers DEF Sound, SpentTyped
  <1>3. RunsNumbered'
    <2>1. \A n \in 0..(Rehearsed + spent.starts) : n \in 0..(Rehearsed + spent'.starts)
      BY <1>2, RunNumbers
    <2> QED
      BY <1>1, <2>1 DEF Sound, RunsNumbered
  <1>4. Tables'
    BY <1>1 DEF Sound, Tables, StagedTyped, MarksTyped, CheckpointCovers, CrosswalkTyped,
                ManifestTyped, CrosswalkIsTruth
  <1>5. OpeningsTyped'
    BY <1>1 DEF Sound, OpeningsTyped
  <1>6. Grows
    BY <1>1 DEF Grows
  <1>7. PICK script :
            /\ session' = [session EXCEPT ![s] = Working(r, FALSE, None, controls, restart, script)]
            /\ script \in Seq(CallNames) /\ script # <<>>
    BY Scripts DEF Resume
  <1>8. Moves(s) /\ Sane(s)'
    <2>1. OfOpening(controls)
      BY ControlsAre
    <2> QED
      BY <1>1, <1>7, <2>1, StartsOver DEF Sound, SessionsSane
  <1> QED
    BY <1>1, <1>2, <1>3, <1>4, <1>5, <1>6, <1>8, StepSound

-----------------------------------------------------------------------------
(* Steps that write the tables.                                             *)

(* StagePage(): the page is staged and the checkpoint moves behind it.      *)
LEMMA PageCovers ==
  ASSUME NEW o \in Range(Objects), NEW cursor \in Nat, NEW i \in DOMAIN Content[o],
         i <= cursor + PageSize, ~(i <= cursor)
  PROVE  Content[o][i] \in Page(o, cursor)
  <1>1. i \in 1..Len(Content[o]) /\ Len(Content[o]) \in Nat /\ PageSize \in Nat
    BY Source
  <1>2. i \in (cursor + 1)..Smaller(cursor + PageSize, Len(Content[o]))
    BY <1>1 DEF Smaller
  <1> QED
    BY <1>2 DEF Page

(* The checkpoint after a page is a mark within its object.                 *)
LEMMA MarkIsTyped ==
  ASSUME NEW o \in Range(Objects), NEW cursor \in Nat
  PROVE  /\ MarkAfter(o, cursor) \in Mark
         /\ MarkAfter(o, cursor).cursor <= Len(Content[o])
         /\ \A i \in DOMAIN Content[o] :
               MarkAfter(o, cursor).completed \/ i <= MarkAfter(o, cursor).cursor
                  => i <= cursor + PageSize
  <1>1. /\ Len(Content[o]) \in Nat /\ PageSize \in Nat /\ DOMAIN Content[o] = 1..Len(Content[o])
    BY Source
  <1> DEFINE completed == cursor + PageSize >= Len(Content[o])
             next == IF completed THEN 0 ELSE cursor + PageSize
  <1>2. MarkAfter(o, cursor) = [cursor |-> next, completed |-> completed]
    BY DEF MarkAfter
  <1>3. next \in Nat /\ next <= Len(Content[o]) /\ completed \in BOOLEAN
    BY <1>1
  <1>4. \A i \in DOMAIN Content[o] : completed \/ i <= next => i <= cursor + PageSize
    BY <1>1
  <1> HIDE DEF next, completed
  <1> QED
    BY <1>2, <1>3, <1>4 DEF Mark

(* A page is staged with the checkpoint that covers it, or not at all.      *)
LEMMA StagePageSound ==
  ASSUME Sound, NEW s \in Sessions, StagePage(s)
  PROVE  Sound' /\ Grows
  <1>0. PICK r, local : r = session[s].run /\ local = session[s].local
    OBVIOUS
  <1> DEFINE o == Head(local.objects)
             arrived == DOMAIN local.page
  <1>1. /\ ~At(s, "idle") /\ session[s].at = "staging" /\ run' = run
        /\ crosswalk' = crosswalk /\ manifest' = manifest /\ effects' = effects
        /\ openings' = openings /\ source' = source /\ spent' = spent
    BY DEF StagePage, At
  <1>2. r \in Runs /\ run[r] # None /\ Knows(r, "staging", local)
    BY <1>0, <1>1, AtWork DEF Sound
  <1>3. ToStage(r, local)
    BY <1>2 DEF Knows, Plain
  <1>4. /\ local.objects \in Seq(Range(Objects)) /\ local.objects # <<>>
        /\ o \in Range(Objects) /\ Tail(local.objects) \in Seq(Range(Objects))
        /\ local.cursor \in Nat /\ StagedUpTo(r, o, local.cursor)
        /\ arrived = Page(o, local.cursor) /\ \A k \in arrived : local.page[k] \in Versions
    BY <1>3, HeadTailProperties DEF ToStage, InObject
  <1>5. CASE Raise(s) /\ UNCHANGED <<staged, checkpoint>>
    <2>1. QuietStep(s)
      BY <1>1, <1>5, EndsQuietly DEF records, RunMoves, Sound
    <2> QED
      BY <1>1, <2>1, QuietSound
  <1>6. ASSUME staged' = [staged EXCEPT ![r] = [k \in Records |->
                     IF k \in arrived /\ @[k] = None
                     THEN [payload |-> local.page[k], status |-> "Extracted"] ELSE @[k]]],
               checkpoint' = [checkpoint EXCEPT ![r][o] = MarkAfter(o, local.cursor)],
               \/ Goto(s, "extracting", [objects |-> Tail(local.objects)])
               \/ /\ ~MarkAfter(o, local.cursor).completed
                  /\ Goto(s, "fetching", [objects |-> local.objects,
                                          cursor |-> MarkAfter(o, local.cursor).cursor])
        PROVE  Sound' /\ Grows
    <2>0. PICK mark : mark = MarkAfter(o, local.cursor)
      OBVIOUS
    <2>1. /\ mark \in Mark /\ mark.cursor <= Len(Content[o])
          /\ \A i \in DOMAIN Content[o] :
                mark.completed \/ i <= mark.cursor => i <= local.cursor + PageSize
      BY <1>4, <2>0, MarkIsTyped
    <2>2. /\ staged \in [Runs -> [Records -> StagedRow \cup {None}]]
          /\ checkpoint \in [Runs -> [Range(Objects) -> Mark \cup {None}]]
      BY DEF Sound, Tables, StagedTyped, MarksTyped
    <2>3. \A k \in arrived : [payload |-> local.page[k], status |-> "Extracted"] \in StagedRow
      BY <1>4 DEF StagedRow
    <2>4. /\ \A q \in Runs \ {r} : staged'[q] = staged[q]
          /\ \A k \in Records : staged'[r][k] =
                IF k \in arrived /\ staged[r][k] = None
                THEN [payload |-> local.page[k], status |-> "Extracted"] ELSE staged[r][k]
          /\ staged' \in [Runs -> [Records -> StagedRow \cup {None}]]
      BY <1>2, <1>6, <2>2, <2>3
    <2>5. /\ \A q \in Runs, p \in Range(Objects) :
                checkpoint'[q][p] = IF q = r /\ p = o THEN mark ELSE checkpoint[q][p]
          /\ checkpoint' \in [Runs -> [Range(Objects) -> Mark \cup {None}]]
      BY <1>2, <1>4, <1>6, <2>0, <2>1, <2>2
    <2>6. \A q \in Runs, k \in Records : staged[q][k] # None => staged'[q][k] = staged[q][k]
      BY <2>4
    <2>7. Grows
      BY <1>1, <2>6 DEF Grows
    <2>8. \A k \in arrived : k \in Records => staged'[r][k] # None
      BY <2>3, <2>4, NoRow
    <2>9. ASSUME NEW i \in DOMAIN Content[o], i <= local.cursor + PageSize
          PROVE  staged'[r][Content[o][i]] # None
      <3>1. Content[o][i] \in Records
        BY <1>4, Source
      <3>2. CASE i <= local.cursor
        BY <1>2, <1>4, <2>6, <3>1, <3>2 DEF StagedUpTo
      <3>3. CASE ~(i <= local.cursor)
        <4>1. Content[o][i] \in arrived
          BY <1>4, <2>9, <3>3, PageCovers
        <4> QED
          BY <2>8, <3>1, <4>1
      <3> QED
        BY <3>2, <3>3
    <2>10. CheckpointCovers'
      <3>1. ASSUME NEW q \in Runs, NEW p \in Range(Objects), checkpoint'[q][p] # None,
                   NEW i \in DOMAIN Content[p],
                   checkpoint'[q][p].completed \/ i <= checkpoint'[q][p].cursor
            PROVE  staged'[q][Content[p][i]] # None
        <4>1. CASE q = r /\ p = o
          BY <2>1, <2>5, <2>9, <3>1, <4>1
        <4>2. CASE ~(q = r /\ p = o)
          <5>1. checkpoint'[q][p] = checkpoint[q][p]
            BY <2>5, <4>2
          <5>2. staged[q][Content[p][i]] # None
            BY <3>1, <5>1 DEF Sound, Tables, CheckpointCovers
          <5>3. Content[p][i] \in Records
            BY Source
          <5> QED
            BY <2>6, <5>2, <5>3
        <4> QED
          BY <4>1, <4>2
      <3> QED
        BY <3>1 DEF CheckpointCovers
    <2>11. CrosswalkIsTruth'
      <3>1. ASSUME NEW q \in Runs, NEW k \in Records, staged'[q][k] # None,
                   staged'[q][k].status \in {"Applied", "Archived"}
            PROVE  staged'[q][k] = staged[q][k]
        <4>1. \/ staged'[q][k] = staged[q][k]
              \/ staged'[q][k] = [payload |-> local.page[k], status |-> "Extracted"]
          BY <2>4
        <4>2. ASSUME staged'[q][k] = [payload |-> local.page[k], status |-> "Extracted"]
              PROVE  FALSE
          <5>1. staged'[q][k].status = "Extracted"
            BY <4>2
          <5> QED
            BY <3>1, <5>1
        <4> QED
          BY <4>1, <4>2
      <3> QED
        BY <1>1, <3>1 DEF Sound, Tables, CrosswalkIsTruth
    <2>12. StagedTyped'
      BY <1>1, <1>2, <2>4 DEF Sound, Tables, StagedTyped
    <2>13. MarksTyped'
      BY <2>1, <2>5 DEF Sound, Tables, MarksTyped
    <2>14. Tables'
      BY <1>1, <2>10, <2>11, <2>12, <2>13 DEF Sound, Tables, CrosswalkTyped, ManifestTyped
    <2>15. SpentTyped' /\ RunsNumbered' /\ OpeningsTyped'
      BY <1>1 DEF Sound, SpentTyped, RunsNumbered, OpeningsTyped
    <2>16. run'[r] # None
      BY <1>1, <1>2
    <2>17. CASE Goto(s, "extracting", [objects |-> Tail(local.objects)])
      <3>1. Knows(r, "extracting", [objects |-> Tail(local.objects)])'
        BY <1>4 DEF Knows, ToExtract
      <3>2. Moves(s) /\ Sane(s)'
        BY <1>0, <1>1, <2>16, <2>17, <3>1, GoesOn DEF Sound
      <3> QED
        BY <2>7, <2>14, <2>15, <3>2, StepSound
    <2>18. CASE Goto(s, "fetching", [objects |-> local.objects, cursor |-> mark.cursor])
                /\ ~mark.completed
      <3> DEFINE l == [objects |-> local.objects, cursor |-> mark.cursor]
      <3>1. StagedUpTo(r, o, mark.cursor)'
        BY <2>1, <2>9 DEF StagedUpTo
      <3>2. InObject(r, l)'
        BY <1>4, <2>1, <3>1 DEF InObject, Mark
      <3>3. Knows(r, "fetching", l)'
        BY <3>2 DEF Knows, ToFetch
      <3>4. Moves(s) /\ Sane(s)'
        BY <1>0, <1>1, <2>16, <2>18, <3>3, GoesOn DEF Sound
      <3> QED
        BY <2>7, <2>14, <2>15, <3>4, StepSound
    <2> QED
      BY <1>6, <2>0, <2>17, <2>18
  <1> QED
    BY <1>0, <1>1, <1>5, <1>6 DEF StagePage

(* Staged records whose status changes to nothing that reports them applied. *)
Restaged ==
    /\ staged' \in [Runs -> [Records -> StagedRow \cup {None}]]
    /\ \A r \in Runs, k \in Records :
          /\ staged'[r][k] # None <=> staged[r][k] # None
          /\ staged[r][k] # None => staged'[r][k].payload = staged[r][k].payload
          /\ staged'[r][k] # None /\ staged'[r][k].status \in {"Applied", "Archived"}
                => staged[r][k].status = staged'[r][k].status

(* The tables stay sound under it.                                          *)
LEMMA RestagedSound ==
  ASSUME Sound, Restaged,
         UNCHANGED <<source, checkpoint, crosswalk, manifest, effects, openings, spent>>,
         NEW s \in Sessions, ~At(s, "idle"), RunMoves(session[s].run),
         Return(s) \/ Unwinding(s)
  PROVE  Sound' /\ Grows
  <1>0. PICK r : r = session[s].run
    OBVIOUS
  <1>1. r \in Runs /\ run[r] # None
    BY <1>0, AtWork DEF Sound
  <1>2. /\ run' \in [Runs -> RunRow \cup {None}]
        /\ \A q \in Runs : run'[q] # None <=> run[q] # None
        /\ \A q \in Runs \ {r} : run'[q] = run[q]
        /\ \A q \in Runs : run[q] # None =>
              run'[q].miscounted \in {run[q].miscounted, Uncounted(q)}
    BY <1>0, <1>1, RunsStay DEF Sound
  <1>3. SpentTyped' /\ RunsNumbered'
    BY <1>2 DEF Sound, SpentTyped, RunsNumbered
  <1>4. OpeningsTyped'
    BY <1>2 DEF Sound, OpeningsTyped
  <1>5. Grows
    BY <1>2 DEF Grows, Restaged
  <1>6. StagedTyped'
    BY <1>2 DEF Sound, Tables, StagedTyped, Restaged
  <1>7. CheckpointCovers'
    <2>1. ASSUME NEW q \in Runs, NEW o \in Range(Objects), NEW i \in DOMAIN Content[o],
                 staged[q][Content[o][i]] # None
          PROVE  staged'[q][Content[o][i]] # None
      BY <2>1, Source DEF Restaged
    <2> QED
      BY <2>1 DEF Sound, Tables, CheckpointCovers
  <1>8. CrosswalkIsTruth'
    <2>1. ASSUME NEW q \in Runs, NEW k \in Records, staged'[q][k] # None,
                 staged'[q][k].status \in {"Applied", "Archived"}
          PROVE  /\ staged[q][k] # None /\ staged[q][k].status \in {"Applied", "Archived"}
                 /\ staged'[q][k].payload = staged[q][k].payload
      BY <2>1 DEF Restaged
    <2> QED
      BY <2>1 DEF Sound, Tables, CrosswalkIsTruth
  <1>9. Tables'
    BY <1>6, <1>7, <1>8 DEF Sound, Tables, MarksTyped, CrosswalkTyped, ManifestTyped
  <1>10. Moves(s) /\ Sane(s)'
    BY <1>0, <1>1, <1>2, Ends DEF Sound
  <1> QED
    BY <1>3, <1>4, <1>5, <1>9, <1>10, StepSound

(* apply_history_scope() skips records, and nothing else.                   *)
LEMMA ScopeSound ==
  ASSUME Sound, NEW s \in Sessions, Scope(s)
  PROVE  Sound' /\ Grows
  <1>0. PICK r : r = session[s].run
    OBVIOUS
  <1>1. /\ ~At(s, "idle") /\ run' = run
        /\ UNCHANGED <<source, checkpoint, crosswalk, manifest, effects, openings, spent>>
    BY DEF Scope, Calls, At
  <1>2. r \in Runs
    BY <1>0, <1>1, AtWork DEF Sound
  <1>3. CASE Raise(s) /\ staged' = staged
    <2>1. QuietStep(s)
      BY <1>1, <1>3, EndsQuietly DEF records, RunMoves
    <2> QED
      BY <1>1, <2>1, QuietSound
  <1>4. CASE /\ Return(s)
             /\ staged' = [staged EXCEPT ![r] = [k \in Records |->
                   IF k \in OutOfScope /\ @[k] # None /\ @[k].status = "Extracted"
                   THEN [@[k] EXCEPT !.status = "Skipped"] ELSE @[k]]]
    <2>1. staged \in [Runs -> [Records -> StagedRow \cup {None}]]
      BY DEF Sound, Tables, StagedTyped
    <2>2. /\ \A q \in Runs \ {r} : staged'[q] = staged[q]
          /\ \A k \in Records : staged'[r][k] =
                IF k \in OutOfScope /\ staged[r][k] # None /\ staged[r][k].status = "Extracted"
                THEN [staged[r][k] EXCEPT !.status = "Skipped"] ELSE staged[r][k]
          /\ staged' = [q \in Runs |-> staged'[q]]
          /\ staged'[r] = [k \in Records |-> staged'[r][k]]
      BY <1>2, <1>4, <2>1
    <2>3. ASSUME NEW x \in StagedRow
          PROVE  /\ [x EXCEPT !.status = "Skipped"] \in StagedRow
                 /\ [x EXCEPT !.status = "Skipped"].payload = x.payload
                 /\ [x EXCEPT !.status = "Skipped"].status = "Skipped"
      BY <2>3 DEF StagedRow
    <2>4. ASSUME NEW k \in Records
          PROVE  \/ staged'[r][k] = staged[r][k]
                 \/ /\ staged[r][k] \in StagedRow /\ staged'[r][k] \in StagedRow
                    /\ staged'[r][k].payload = staged[r][k].payload
                    /\ staged'[r][k].status = "Skipped"
      <3>1. CASE k \in OutOfScope /\ staged[r][k] # None /\ staged[r][k].status = "Extracted"
        <4>1. staged[r][k] \in StagedRow
          BY <1>2, <2>1, <3>1
        <4>2. staged'[r][k] = [staged[r][k] EXCEPT !.status = "Skipped"]
          BY <2>2, <3>1
        <4>3. /\ [staged[r][k] EXCEPT !.status = "Skipped"] \in StagedRow
              /\ [staged[r][k] EXCEPT !.status = "Skipped"].payload = staged[r][k].payload
              /\ [staged[r][k] EXCEPT !.status = "Skipped"].status = "Skipped"
          BY <2>3, <4>1
        <4> QED
          BY <4>1, <4>2, <4>3
      <3>2. CASE ~(k \in OutOfScope /\ staged[r][k] # None /\ staged[r][k].status = "Extracted")
        BY <2>2, <3>2
      <3> QED
        BY <3>1, <3>2
    <2>5. Restaged
      BY <1>2, <2>1, <2>2, <2>4, NoRow DEF Restaged
    <2> QED
      BY <1>1, <1>4, <2>5, RestagedSound DEF RunMoves
  <1> QED
    BY <1>0, <1>1, <1>3, <1>4 DEF Scope

(* validate() tells valid records from invalid ones.                        *)
LEMMA EndValidateSound ==
  ASSUME Sound, NEW s \in Sessions, EndValidate(s)
  PROVE  Sound' /\ Grows
  <1> DEFINE r == session[s].run
             wrong == {k \in Kept(r) :
                          \/ <<k, staged[r][k].payload>> \in Invalid
                          \/ \E n \in Needs[k] : n \notin Kept(r) /\ crosswalk[n] = None}
  <1>1. /\ ~At(s, "idle")
        /\ UNCHANGED <<source, checkpoint, crosswalk, manifest, effects, openings, spent>>
    BY DEF EndValidate, At
  <1>2. r \in Runs /\ run[r] # None /\ run[r] \in RunRow
    BY <1>1, AtWork DEF Sound, RunsNumbered
  <1>3. CASE Raise(s) /\ staged' = staged /\ run' = run
    <2>1. QuietStep(s)
      BY <1>1, <1>3, EndsQuietly DEF records, RunMoves
    <2> QED
      BY <2>1, QuietSound
  <1>4. CASE /\ Return(s) \/ Unwinding(s)
             /\ staged' = [staged EXCEPT ![r] = [k \in Records |->
                   IF k \in Kept(r)
                   THEN [@[k] EXCEPT !.status = IF k \in wrong THEN "Invalid" ELSE "Valid"]
                   ELSE @[k]]]
             /\ run' = [run EXCEPT ![r].status = "Validated", ![r].errors = wrong # {},
                                   ![r].issues = @ \/ wrong # {}]
    <2> DEFINE verdict(k) == IF k \in wrong THEN "Invalid" ELSE "Valid"
    <2>1. staged \in [Runs -> [Records -> StagedRow \cup {None}]]
      BY DEF Sound, Tables, StagedTyped
    <2>2. /\ \A q \in Runs \ {r} : staged'[q] = staged[q]
          /\ \A k \in Records : staged'[r][k] =
                IF k \in Kept(r) THEN [staged[r][k] EXCEPT !.status = verdict(k)]
                ELSE staged[r][k]
          /\ staged' = [q \in Runs |-> staged'[q]]
          /\ staged'[r] = [k \in Records |-> staged'[r][k]]
      BY <1>2, <1>4, <2>1
    <2>3. ASSUME NEW x \in StagedRow, NEW status \in {"Invalid", "Valid"}
          PROVE  /\ [x EXCEPT !.status = status] \in StagedRow
                 /\ [x EXCEPT !.status = status].payload = x.payload
                 /\ [x EXCEPT !.status = status].status = status
      BY <2>3 DEF StagedRow
    <2>4. ASSUME NEW k \in Records
          PROVE  \/ staged'[r][k] = staged[r][k]
                 \/ /\ staged[r][k] \in StagedRow /\ staged'[r][k] \in StagedRow
                    /\ staged'[r][k].payload = staged[r][k].payload
                    /\ staged'[r][k].status \in {"Invalid", "Valid"}
      <3>1. CASE k \in Kept(r)
        <4>1. staged[r][k] \in StagedRow
          BY <1>2, <2>1, <3>1 DEF Kept
        <4>2. verdict(k) \in {"Invalid", "Valid"}
          OBVIOUS
        <4> HIDE DEF verdict
        <4>3. staged'[r][k] = [staged[r][k] EXCEPT !.status = verdict(k)]
          BY <2>2, <3>1
        <4>4. /\ [staged[r][k] EXCEPT !.status = verdict(k)] \in StagedRow
              /\ [staged[r][k] EXCEPT !.status = verdict(k)].payload = staged[r][k].payload
              /\ [staged[r][k] EXCEPT !.status = verdict(k)].status = verdict(k)
          BY <2>3, <4>1, <4>2
        <4> QED
          BY <4>1, <4>2, <4>3, <4>4
      <3>2. CASE k \notin Kept(r)
        BY <2>2, <3>2
      <3> QED
        BY <3>1, <3>2
    <2>5. Restaged
      BY <1>2, <2>1, <2>2, <2>4, NoRow DEF Restaged
    <2>6. RunMoves(r)
      <3> DEFINE row == [run[r] EXCEPT !.status = "Validated", !.errors = wrong # {},
                                       !.issues = @ \/ wrong # {}]
      <3>1. run' = [run EXCEPT ![r] = row]
        BY <1>2, <1>4 DEF Sound, RunsNumbered
      <3>2. row \in RunRow /\ row.miscounted = run[r].miscounted
        BY <1>2, StatusNames DEF RunRow
      <3> QED
        BY <3>1, <3>2 DEF RunMoves
    <2> QED
      BY <1>1, <1>4, <2>5, <2>6, RestagedSound
  <1>5. \/ Raise(s) /\ staged' = staged /\ run' = run
        \/ /\ Return(s) \/ Unwinding(s)
           /\ staged' = [staged EXCEPT ![r] = [k \in Records |->
                 IF k \in Kept(r)
                 THEN [@[k] EXCEPT !.status = IF k \in wrong THEN "Invalid" ELSE "Valid"]
                 ELSE @[k]]]
           /\ run' = [run EXCEPT ![r].status = "Validated", ![r].errors = wrong # {},
                                 ![r].issues = @ \/ wrong # {}]
    <2>1. CASE MayMove(r, "Validated")
      <3>1. Return(s) \/ Unwinding(s)
        BY <2>1 DEF EndValidate
      <3>2. staged' = [staged EXCEPT ![r] = [k \in Records |->
                 IF k \in Kept(r)
                 THEN [@[k] EXCEPT !.status = IF k \in wrong THEN "Invalid" ELSE "Valid"]
                 ELSE @[k]]]
        BY <2>1 DEF EndValidate
      <3>3. run' = [run EXCEPT ![r].status = "Validated", ![r].errors = wrong # {},
                              ![r].issues = @ \/ wrong # {}]
        BY <2>1, Zenon DEF EndValidate
      <3> QED
        BY <3>1, <3>2, <3>3
    <2>2. CASE ~MayMove(r, "Validated")
      BY <2>2 DEF EndValidate
    <2> QED
      BY <2>1, <2>2
  <1> QED
    BY <1>3, <1>4, <1>5

(* One of the two opening vouchers of a run is posted, the first time.      *)
Posts(r, part) == openings' = [openings EXCEPT ![r][part] = 1]

(* The tables, when vouchers are all that is posted.                        *)
LEMMA PostingSound ==
  ASSUME Sound, NEW r \in Runs, run[r] # None, NEW part \in {"stock", "ledger"}, Posts(r, part),
         UNCHANGED <<source, run, staged, checkpoint, crosswalk, manifest, effects, spent>>
  PROVE  /\ SpentTyped' /\ RunsNumbered' /\ Tables' /\ OpeningsTyped' /\ Grows
         /\ part = "stock" => openings'[r].stock = 1 /\ openings'[r].ledger = openings[r].ledger
         /\ part = "ledger" => openings'[r].ledger = 1 /\ openings'[r].stock = openings[r].stock
         /\ \A q \in Runs \ {r} : openings'[q] = openings[q]
  <1>1. openings \in [Runs -> [stock : {0, 1}, ledger : {0, 1}]]
    BY DEF Sound, OpeningsTyped
  <1>2. /\ \A q \in Runs \ {r} : openings'[q] = openings[q]
        /\ openings'[r] = [openings[r] EXCEPT ![part] = 1]
        /\ openings' = [q \in Runs |-> openings'[q]]
    BY <1>1 DEF Posts
  <1>3. openings[r] \in [stock : {0, 1}, ledger : {0, 1}]
    BY <1>1
  <1>4. /\ openings'[r] \in [stock : {0, 1}, ledger : {0, 1}]
        /\ part = "stock" => openings'[r].stock = 1 /\ openings'[r].ledger = openings[r].ledger
        /\ part = "ledger" => openings'[r].ledger = 1 /\ openings'[r].stock = openings[r].stock
    <2>1. CASE part = "stock"
      BY <1>2, <1>3, <2>1
    <2>2. CASE part = "ledger"
      BY <1>2, <1>3, <2>2
    <2> QED
      BY <2>1, <2>2
  <1>5. /\ openings[r].stock = 1 => openings'[r].stock = 1
        /\ openings[r].ledger = 1 => openings'[r].ledger = 1
    BY <1>4
  <1>6. Grows
    BY <1>2, <1>5 DEF Grows
  <1>7. OpeningsTyped'
    <2>1. openings' \in [Runs -> [stock : {0, 1}, ledger : {0, 1}]]
      BY <1>1, <1>2, <1>4
    <2>2. \A q \in Runs : run[q] = None => openings'[q] = openings[q]
      BY <1>2
    <2> QED
      BY <2>1, <2>2 DEF Sound, OpeningsTyped
  <1>8. Tables'
    BY DEF Sound, Tables, StagedTyped, MarksTyped, CheckpointCovers, CrosswalkTyped,
           ManifestTyped, CrosswalkIsTruth
  <1>9. SpentTyped' /\ RunsNumbered'
    BY DEF Sound, SpentTyped, RunsNumbered
  <1> QED
    BY <1>2, <1>4, <1>6, <1>7, <1>8, <1>9

(* A part of the opening is posted, or there is nothing to post.            *)
LEMMA PartPosted ==
  ASSUME Sound, NEW s \in Sessions, ~At(s, "idle"), NEW part \in {"stock", "ledger"},
         PostOpening(s, part),
         UNCHANGED <<source, run, staged, checkpoint, crosswalk, manifest, effects, spent>>
  PROVE  /\ SpentTyped' /\ RunsNumbered' /\ Tables' /\ OpeningsTyped' /\ Grows
         /\ openings' = openings \/ \E r \in Runs : Posts(r, part)
         /\ part \in session[s].controls => openings'[session[s].run][part] = 1
  <1>1. session[s].run \in Runs /\ run[session[s].run] # None
    BY AtWork DEF Sound
  <1>2. CASE part \in session[s].controls
    <2>1. Posts(session[s].run, part)
      BY <1>2 DEF PostOpening, Posts
    <2> QED
      BY <1>1, <2>1, PostingSound
  <1>3. CASE part \notin session[s].controls
    <2>1. openings' = openings
      BY <1>3 DEF PostOpening
    <2>2. SpentTyped' /\ RunsNumbered' /\ OpeningsTyped' /\ Grows
      BY <2>1 DEF Sound, SpentTyped, RunsNumbered, OpeningsTyped, Grows
    <2>3. Tables'
      BY DEF Sound, Tables, StagedTyped, MarksTyped, CheckpointCovers, CrosswalkTyped,
             ManifestTyped, CrosswalkIsTruth
    <2> QED
      BY <1>3, <2>1, <2>2, <2>3
  <1> QED
    BY <1>2, <1>3

(* apply() posts the opening stock and then the opening balances.           *)
LEMMA OpeningSound ==
  ASSUME Sound, NEW s \in Sessions, OpenStock(s) \/ OpenLedger(s)
  PROVE  /\ Sound' /\ Grows /\ effects' = effects
         /\ \/ openings' = openings
            \/ \E r \in Runs, part \in {"stock", "ledger"} : Posts(r, part)
  <1>0. PICK r, local : r = session[s].run /\ local = session[s].local
    OBVIOUS
  <1>1. /\ ~At(s, "idle") /\ run' = run
        /\ UNCHANGED <<source, run, staged, checkpoint, crosswalk, manifest, effects, spent>>
    BY DEF OpenStock, OpenLedger, At
  <1>2. r \in Runs /\ run[r] # None /\ Knows(r, session[s].at, local)
    BY <1>0, <1>1, AtWork DEF Sound
  <1>3. CASE Raise(s) /\ openings' = openings
    <2>1. QuietStep(s)
      BY <1>1, <1>3, EndsQuietly DEF RunMoves, records
    <2> QED
      BY <1>1, <1>3, <2>1, QuietSound
  <1>4. CASE OpenStock(s) /\ PostOpening(s, "stock") /\ Goto(s, "opening", local)
    <2>1. /\ SpentTyped' /\ RunsNumbered' /\ Tables' /\ OpeningsTyped' /\ Grows
          /\ openings' = openings \/ \E q \in Runs : Posts(q, "stock")
      BY <1>1, <1>4, PartPosted
    <2>2. Knows(r, "applying", local)
      BY <1>2, <1>4 DEF OpenStock, At
    <2>3. Knows(r, "applying", local)'
      BY <1>2, <2>1, <2>2, KnowledgeGrows
    <2>4. Knows(r, "opening", local)'
      BY <2>3 DEF Knows, Plain
    <2>5. Moves(s) /\ Sane(s)'
      BY <1>0, <1>1, <1>2, <1>4, <2>4, GoesOn DEF Sound
    <2>6. Sound'
      BY <2>1, <2>5, StepSound
    <2> QED
      BY <1>1, <2>1, <2>6
  <1>5. CASE OpenLedger(s) /\ PostOpening(s, "ledger")
             /\ Goto(s, "applying", [records |-> local.records, next |-> local.next,
                                     opened |-> TRUE])
    <2> DEFINE l == [records |-> local.records, next |-> local.next, opened |-> TRUE]
    <2>1. /\ SpentTyped' /\ RunsNumbered' /\ Tables' /\ OpeningsTyped' /\ Grows
          /\ openings' = openings \/ \E q \in Runs : Posts(q, "ledger")
      BY <1>1, <1>5, PartPosted
    <2>2. Knows(r, "opening", local)
      BY <1>2, <1>5 DEF OpenLedger, At
    <2>3. Knows(r, "opening", local)'
      BY <1>2, <2>1, <2>2, KnowledgeGrows
    <2>4. ToApply(r, local)'
      BY <2>3 DEF Knows, Plain
    <2>6. InList(r, l)'
      BY <2>4 DEF ToApply, InList
    <2>7. Knows(r, "applying", l)'
      BY <2>6 DEF Knows, ToApply
    <2>8. Moves(s) /\ Sane(s)'
      BY <1>0, <1>1, <1>2, <1>5, <2>7, GoesOn DEF Sound
    <2>9. Sound'
      BY <2>1, <2>8, StepSound
    <2> QED
      BY <1>1, <2>1, <2>9
  <1> QED
    BY <1>0, <1>3, <1>4, <1>5 DEF OpenStock, OpenLedger

(* What applying a record comes to.                                         *)
LEMMA ActionsAre ==
  ASSUME NEW x, NEW found, Action(x, found) # None
  PROVE  \/ /\ found # None /\ found.payload = x.payload
            /\ Action(x, found) \in {"Archive", "Link"}
         \/ found = None /\ ObjectOf[x.key] \notin Handled /\ Action(x, found) = "Keep"
         \/ /\ found = None /\ ObjectOf[x.key] \in Handled /\ x.key \in Cancelled
            /\ Action(x, found) = "Archive"
         \/ /\ found = None /\ ObjectOf[x.key] \in Handled
            /\ \A n \in Needs[x.key] : crosswalk[n] # None
            /\ Action(x, found) = "Insert"
  BY DEF Action

\* The document a record becomes, after those it refers to.
Imports(k) ==
    /\ effects[k] = 0 /\ \A n \in Needs[k] : crosswalk[n] # None
    /\ effects' = [effects EXCEPT ![k] = 1]

\* The crosswalk of a record as its transaction leaves it.
Crossed(k, payload) ==
    \/ /\ crosswalk[k] # None /\ crosswalk[k].payload = payload
       /\ crosswalk' = crosswalk /\ effects' = effects
    \/ /\ ObjectOf[k] \notin Handled
       /\ crosswalk' = crosswalk /\ effects' = effects
    \/ /\ crosswalk[k] = None /\ k \in Cancelled
       /\ crosswalk' = [crosswalk EXCEPT ![k] = [payload |-> payload, action |-> "Archive"]]
       /\ effects' = effects
    \/ /\ crosswalk[k] = None /\ Imports(k)
       /\ crosswalk' = [crosswalk EXCEPT ![k] = [payload |-> payload, action |-> "Insert"]]

(* The crosswalk stays the truth about the documents.                       *)
LEMMA CrossedSound ==
  ASSUME Sound, NEW k \in Records, NEW payload \in Versions, Crossed(k, payload)
  PROVE  /\ CrosswalkTyped' /\ effects' \in [Records -> Nat]
         /\ \A j \in Records : crosswalk[j] # None => crosswalk'[j] = crosswalk[j]
         /\ ObjectOf[k] \in Handled => crosswalk'[k] # None /\ crosswalk'[k].payload = payload
         /\ \A j \in Records :
               /\ effects'[j] = IF crosswalk'[j] # None /\ crosswalk'[j].action = "Insert"
                                THEN 1 ELSE 0
               /\ \A n \in Needs[j] : effects'[j] > 0 => crosswalk'[n] # None
  <1>1. /\ crosswalk \in [Records -> CrosswalkRow \cup {None}] /\ effects \in [Records -> Nat]
        /\ \A j \in Records : crosswalk[j] # None /\ crosswalk[j].action # "Insert" => j \in Cancelled
        /\ \A j \in Records :
              /\ effects[j] = IF crosswalk[j] # None /\ crosswalk[j].action = "Insert" THEN 1 ELSE 0
              /\ \A n \in Needs[j] : effects[j] > 0 => crosswalk[n] # None
    BY DEF Sound, Tables, CrosswalkTyped, CrosswalkIsTruth
  <1>2. \A j \in Records : Needs[j] \subseteq Records
    BY MigrationAssumption
  <1>3. CASE /\ crosswalk' = crosswalk /\ effects' = effects
             /\ \/ crosswalk[k] # None /\ crosswalk[k].payload = payload
                \/ ObjectOf[k] \notin Handled
    BY <1>1, <1>3 DEF CrosswalkTyped
  <1>4. ASSUME NEW action \in {"Archive", "Insert"}, crosswalk[k] = None,
               crosswalk' = [crosswalk EXCEPT ![k] = [payload |-> payload, action |-> action]]
        PROVE  /\ crosswalk' \in [Records -> CrosswalkRow \cup {None}]
               /\ \A j \in Records : crosswalk[j] # None => crosswalk'[j] = crosswalk[j]
               /\ \A j \in Records \ {k} : crosswalk'[j] = crosswalk[j]
               /\ crosswalk'[k] # None /\ crosswalk'[k].payload = payload
               /\ crosswalk'[k].action = action
    <2>1. [payload |-> payload, action |-> action] \in CrosswalkRow
      BY <1>4 DEF CrosswalkRow
    <2>2. [payload |-> payload, action |-> action] # None
      BY <2>1, NoRow
    <2> QED
      BY <1>1, <1>4, <2>1, <2>2
  <1>5. CASE /\ crosswalk[k] = None /\ k \in Cancelled
             /\ crosswalk' = [crosswalk EXCEPT ![k] = [payload |-> payload, action |-> "Archive"]]
             /\ effects' = effects
    <2>1. /\ crosswalk' \in [Records -> CrosswalkRow \cup {None}]
          /\ \A j \in Records : crosswalk[j] # None => crosswalk'[j] = crosswalk[j]
          /\ \A j \in Records \ {k} : crosswalk'[j] = crosswalk[j]
          /\ crosswalk'[k] # None /\ crosswalk'[k].payload = payload
          /\ crosswalk'[k].action = "Archive"
      BY <1>4, <1>5
    <2>2. CrosswalkTyped'
      BY <1>1, <1>5, <2>1 DEF CrosswalkTyped
    <2>3. ASSUME NEW j \in Records
          PROVE  /\ effects'[j] = IF crosswalk'[j] # None /\ crosswalk'[j].action = "Insert"
                                  THEN 1 ELSE 0
                 /\ \A n \in Needs[j] : effects'[j] > 0 => crosswalk'[n] # None
      BY <1>1, <1>2, <1>5, <2>1
    <2> QED
      BY <1>1, <1>5, <2>1, <2>2, <2>3
  <1>6. CASE /\ crosswalk[k] = None /\ Imports(k)
             /\ crosswalk' = [crosswalk EXCEPT ![k] = [payload |-> payload, action |-> "Insert"]]
    <2>1. /\ crosswalk' \in [Records -> CrosswalkRow \cup {None}]
          /\ \A j \in Records : crosswalk[j] # None => crosswalk'[j] = crosswalk[j]
          /\ \A j \in Records \ {k} : crosswalk'[j] = crosswalk[j]
          /\ crosswalk'[k] # None /\ crosswalk'[k].payload = payload
          /\ crosswalk'[k].action = "Insert"
      BY <1>4, <1>6
    <2>2. /\ effects' \in [Records -> Nat] /\ effects'[k] = 1
          /\ \A j \in Records \ {k} : effects'[j] = effects[j]
          /\ \A n \in Needs[k] : crosswalk[n] # None
      BY <1>1, <1>6 DEF Imports
    <2>3. CrosswalkTyped'
      BY <1>1, <1>6, <2>1 DEF CrosswalkTyped
    <2>4. ASSUME NEW j \in Records
          PROVE  /\ effects'[j] = IF crosswalk'[j] # None /\ crosswalk'[j].action = "Insert"
                                  THEN 1 ELSE 0
                 /\ \A n \in Needs[j] : effects'[j] > 0 => crosswalk'[n] # None
      BY <1>1, <1>2, <2>1, <2>2
    <2> QED
      BY <2>1, <2>2, <2>3, <2>4
  <1> QED
    BY <1>3, <1>5, <1>6 DEF Crossed

(* The manifest takes a record once, under a number of its own.             *)
LEMMA ManifestSound ==
  ASSUME ManifestTyped, NEW r \in Runs, NEW k \in Records, NEW i,
         k \in Range(manifest[r]) \/ i \notin DOMAIN manifest[r],
         manifest' = IF k \in Range(manifest[r]) THEN manifest
                     ELSE [manifest EXCEPT ![r] = [j \in DOMAIN @ \cup {i} |->
                                                      IF j = i THEN k ELSE @[j]]]
  PROVE  ManifestTyped'
  <1>1. DOMAIN manifest = Runs /\ IsInjective(manifest[r]) /\ Range(manifest[r]) \subseteq Records
    BY DEF ManifestTyped
  <1>2. CASE k \in Range(manifest[r])
    BY <1>2 DEF ManifestTyped
  <1>3. CASE k \notin Range(manifest[r])
    <2> DEFINE m == [j \in DOMAIN manifest[r] \cup {i} |-> IF j = i THEN k ELSE manifest[r][j]]
    <2>1. /\ DOMAIN manifest' = Runs /\ manifest'[r] = m
          /\ \A q \in Runs \ {r} : manifest'[q] = manifest[q]
      BY <1>1, <1>3
    <2>2. \A j \in DOMAIN manifest[r] : manifest[r][j] # k /\ manifest[r][j] \in Records
      BY <1>1, <1>3 DEF Range
    <2>3. IsInjective(m)
      BY <1>1, <2>2 DEF IsInjective
    <2>4. Range(m) \subseteq Records
      BY <2>2 DEF Range
    <2> HIDE DEF m
    <2> QED
      BY <2>1, <2>3, <2>4 DEF ManifestTyped
  <1> QED
    BY <1>2, <1>3

(* The crosswalk and the document of a record are one transaction.          *)
LEMMA CommitCrosses ==
  ASSUME Sound, NEW r \in Runs, NEW x \in Entry, NEW i, NEW found, NEW action, NEW made,
         found # None => crosswalk[x.key] = found,
         action = Action(x, found), action # None, Unique(r, i, x, found),
         made = (found = None /\ action \in {"Insert", "Archive"}),
         crosswalk' = IF made THEN [crosswalk EXCEPT ![x.key] =
                                       [payload |-> x.payload, action |-> action]]
                      ELSE crosswalk,
         effects' = IF action = "Insert" THEN [effects EXCEPT ![x.key] = @ + 1] ELSE effects
  PROVE  Crossed(x.key, x.payload) /\ (effects' = effects \/ Imports(x.key))
  <1>1. x.key \in Records
    BY DEF Entry
  <1>2. CASE found # None /\ found.payload = x.payload /\ action \in {"Archive", "Link"}
    BY <1>2 DEF Crossed
  <1>3. CASE found = None /\ ObjectOf[x.key] \notin Handled /\ action = "Keep"
    BY <1>3 DEF Crossed
  <1>4. CASE /\ found = None /\ ObjectOf[x.key] \in Handled /\ x.key \in Cancelled
             /\ action = "Archive"
    <2>1. crosswalk[x.key] = None
      BY <1>4 DEF Unique
    <2> QED
      BY <1>4, <2>1 DEF Crossed
  <1>5. CASE /\ found = None /\ ObjectOf[x.key] \in Handled /\ action = "Insert"
             /\ \A n \in Needs[x.key] : crosswalk[n] # None
    <2>1. crosswalk[x.key] = None
      BY <1>5 DEF Unique
    <2>2. effects[x.key] = 0 /\ effects \in [Records -> Nat]
      BY <1>1, <2>1 DEF Sound, Tables, CrosswalkIsTruth
    <2>3. Imports(x.key)
      BY <1>1, <1>5, <2>2 DEF Imports
    <2>4. crosswalk' = [crosswalk EXCEPT ![x.key] = [payload |-> x.payload, action |-> "Insert"]]
      BY <1>5
    <2> QED
      BY <2>1, <2>3, <2>4 DEF Crossed
  <1> QED
    BY <1>2, <1>3, <1>4, <1>5, ActionsAre

(* A record is applied with its crosswalk, its document and its status.     *)
LEMMA CommitSound ==
  ASSUME Sound, NEW s \in Sessions, Commit(s)
  PROVE  /\ Sound' /\ Grows /\ openings' = openings
         /\ effects' = effects \/ \E k \in Records : Imports(k)
  <1>0. PICK r, local, i, x, action, status :
           /\ r = session[s].run /\ local = session[s].local /\ i = local.next
           /\ x = local.records[i] /\ action = Action(x, local.found)
           /\ status = IF action \in {"Keep", "Archive"} THEN "Archived" ELSE "Applied"
    OBVIOUS
  <1>1. /\ ~At(s, "idle") /\ session[s].at = "writing" /\ run' = run /\ source' = source
        /\ checkpoint' = checkpoint /\ openings' = openings /\ spent' = spent
        /\ action # None /\ Unique(r, i, x, local.found)
    BY <1>0 DEF Commit, At
  <1>2. /\ staged' = [staged EXCEPT ![r][x.key].status = status]
        /\ manifest' = IF x.key \in Range(manifest[r]) THEN manifest
                       ELSE [manifest EXCEPT ![r] = [j \in DOMAIN @ \cup {i} |->
                                                        IF j = i THEN x.key ELSE @[j]]]
        /\ Goto(s, "applying", [records |-> local.records, next |-> i + 1,
                                opened |-> local.opened])
    BY <1>0 DEF Commit
  <1>3. /\ crosswalk' = IF local.found = None /\ action \in {"Insert", "Archive"}
                        THEN [crosswalk EXCEPT ![x.key] =
                                 [payload |-> x.payload, action |-> action]]
                        ELSE crosswalk
        /\ effects' = IF action = "Insert" THEN [effects EXCEPT ![x.key] = @ + 1] ELSE effects
    BY <1>0 DEF Commit
  <1>4. r \in Runs /\ run[r] # None /\ Knows(r, "writing", local)
    BY <1>0, <1>1, AtWork DEF Sound
  <1>5. ToWrite(r, local)
    BY <1>4 DEF Knows, Plain
  <1>6. /\ local.records \in Seq(Entry) /\ i \in Nat \ {0} /\ i <= Len(local.records)
        /\ local.found # None => crosswalk[x.key] = local.found
    BY <1>0, <1>5 DEF ToWrite, InList
  <1>7. i \in DOMAIN local.records /\ x \in Entry
    BY <1>0, <1>6
  <1>8. /\ x.key \in Records /\ x.payload \in Versions
        /\ staged[r][x.key] # None /\ staged[r][x.key].payload = x.payload
    BY <1>0, <1>5, <1>7 DEF ToWrite, InList, Entry
  <1>9. Crossed(x.key, x.payload) /\ (effects' = effects \/ Imports(x.key))
    <2>1. PICK made : made = (local.found = None /\ action \in {"Insert", "Archive"})
      OBVIOUS
    <2> QED
      BY <1>0, <1>1, <1>3, <1>4, <1>6, <1>7, <2>1, CommitCrosses
  <1>10. /\ CrosswalkTyped' /\ effects' \in [Records -> Nat]
         /\ \A j \in Records : crosswalk[j] # None => crosswalk'[j] = crosswalk[j]
         /\ ObjectOf[x.key] \in Handled => crosswalk'[x.key] # None
                                           /\ crosswalk'[x.key].payload = x.payload
         /\ \A j \in Records :
               /\ effects'[j] = IF crosswalk'[j] # None /\ crosswalk'[j].action = "Insert"
                                THEN 1 ELSE 0
               /\ \A n \in Needs[j] : effects'[j] > 0 => crosswalk'[n] # None
    BY <1>8, <1>9, CrossedSound
  <1>11. ManifestTyped'
    BY <1>1, <1>2, <1>4, <1>8, ManifestSound DEF Sound, Tables, Unique
  <1>12. staged \in [Runs -> [Records -> StagedRow \cup {None}]]
    BY DEF Sound, Tables, StagedTyped
  <1>13. staged[r][x.key] \in StagedRow
    BY <1>4, <1>8, <1>12
  <1>14. PICK row : row = [staged[r][x.key] EXCEPT !.status = status]
    OBVIOUS
  <1>15. row \in StagedRow /\ row.payload = x.payload /\ row # None
    <2>1. status \in {"Archived", "Applied"}
      BY <1>0
    <2>2. row \in StagedRow /\ row.payload = x.payload
      BY <1>8, <1>13, <1>14, <2>1 DEF StagedRow
    <2> QED
      BY <2>2, NoRow
  <1>16. /\ \A q \in Runs, k \in Records :
               staged'[q][k] = IF q = r /\ k = x.key THEN row ELSE staged[q][k]
         /\ staged' \in [Runs -> [Records -> StagedRow \cup {None}]]
    BY <1>2, <1>4, <1>8, <1>12, <1>14, <1>15
  <1>17. \A q \in Runs, k \in Records : /\ staged'[q][k] # None <=> staged[q][k] # None
                                        /\ staged[q][k] # None =>
                                              staged'[q][k].payload = staged[q][k].payload
    BY <1>8, <1>15, <1>16
  <1>18. Grows
    BY <1>1, <1>10, <1>17 DEF Grows
  <1>19. StagedTyped'
    BY <1>1, <1>16, <1>17 DEF Sound, Tables, StagedTyped
  <1>20. CheckpointCovers'
    <2>1. ASSUME NEW q \in Runs, NEW o \in Range(Objects), NEW j \in DOMAIN Content[o],
                 staged[q][Content[o][j]] # None
          PROVE  staged'[q][Content[o][j]] # None
      BY <1>17, <2>1, Source
    <2> QED
      BY <1>1, <2>1 DEF Sound, Tables, CheckpointCovers
  <1>21. CrosswalkIsTruth'
    <2>1. ASSUME NEW q \in Runs, NEW k \in Records, staged'[q][k] # None,
                 staged'[q][k].status \in {"Applied", "Archived"}, ObjectOf[k] \in Handled
          PROVE  crosswalk'[k] # None /\ crosswalk'[k].payload = staged'[q][k].payload
      <3>1. CASE q = r /\ k = x.key
        BY <1>10, <1>15, <1>16, <2>1, <3>1
      <3>2. CASE ~(q = r /\ k = x.key)
        <4>1. staged'[q][k] = staged[q][k]
          BY <1>16, <3>2
        <4>2. crosswalk[k] # None /\ crosswalk[k].payload = staged[q][k].payload
          BY <2>1, <4>1 DEF Sound, Tables, CrosswalkIsTruth
        <4> QED
          BY <1>10, <4>1, <4>2
      <3> QED
        BY <3>1, <3>2
    <2> QED
      BY <1>10, <2>1 DEF CrosswalkIsTruth
  <1>22. Tables'
    BY <1>1, <1>10, <1>11, <1>19, <1>20, <1>21 DEF Sound, Tables, MarksTyped
  <1>23. SpentTyped' /\ RunsNumbered' /\ OpeningsTyped'
    BY <1>1 DEF Sound, SpentTyped, RunsNumbered, OpeningsTyped
  <1>24. Knows(r, "applying", [records |-> local.records, next |-> i + 1,
                               opened |-> local.opened])'
    <2>1. Knows(r, "writing", local)'
      BY <1>4, <1>18, KnowledgeGrows
    <2>2. InList(r, local)'
      BY <2>1 DEF Knows, ToWrite, Plain
    <2>3. i + 1 \in Nat \ {0}
      BY <1>6
    <2> QED
      BY <2>2, <2>3 DEF Knows, ToApply, InList
  <1>25. Moves(s) /\ Sane(s)'
    BY <1>0, <1>1, <1>2, <1>4, <1>24, GoesOn DEF Sound
  <1>26. Sound'
    BY <1>18, <1>22, <1>23, <1>25, StepSound
  <1> QED
    BY <1>1, <1>8, <1>9, <1>18, <1>26

(* record_failback() touches a run and nothing else.                        *)
LEMMA FailbackSound ==
  ASSUME Sound, NEW r \in Runs, Failback(r)
  PROVE  Sound' /\ Grows
  <1>1. /\ run[r] # None /\ run' = [run EXCEPT ![r].status = "RolledBack"]
        /\ UNCHANGED <<source, records, session, spent>>
    BY DEF Failback
  <1>2. RunMoves(r)
    BY <1>1, StatusNames, MovesOn DEF Sound
  <1>3. /\ run' \in [Runs -> RunRow \cup {None}]
        /\ \A q \in Runs : run'[q] # None <=> run[q] # None
        /\ \A q \in Runs \ {r} : run'[q] = run[q]
        /\ \A q \in Runs : run[q] # None =>
              run'[q].miscounted \in {run[q].miscounted, Uncounted(q)}
    BY <1>1, <1>2, RunsStay DEF Sound
  <1>4. /\ staged' = staged /\ checkpoint' = checkpoint /\ crosswalk' = crosswalk
        /\ manifest' = manifest /\ effects' = effects /\ openings' = openings
        /\ source' = source /\ spent' = spent /\ session' = session
    BY <1>1 DEF records
  <1>5. SpentTyped' /\ RunsNumbered'
    BY <1>3, <1>4 DEF Sound, SpentTyped, RunsNumbered
  <1>6. Tables'
    BY <1>3, <1>4 DEF Sound, Tables, StagedTyped, MarksTyped, CheckpointCovers, CrosswalkTyped,
                      ManifestTyped, CrosswalkIsTruth
  <1>7. OpeningsTyped'
    BY <1>3, <1>4 DEF Sound, OpeningsTyped
  <1>8. Grows
    BY <1>3, <1>4 DEF Grows
  <1>9. SessionsSane'
    BY <1>4, <1>8, SessionsStay DEF Sound
  <1> QED
    BY <1>5, <1>6, <1>7, <1>8, <1>9 DEF Sound

(* The source changes under the runs.                                       *)
LEMMA ChangeSourceSound ==
  ASSUME Sound, ChangeSource
  PROVE  Sound' /\ Grows
  <1>1. /\ staged' = staged /\ checkpoint' = checkpoint /\ crosswalk' = crosswalk
        /\ manifest' = manifest /\ effects' = effects /\ openings' = openings
        /\ run' = run /\ session' = session /\ spent.changes < MaxChanges
        /\ spent' = [spent EXCEPT !.changes = @ + 1]
    BY DEF ChangeSource, records
  <1>2. /\ spent' \in [starts : 0..MaxStarts, changes : 0..MaxChanges]
        /\ spent'.changes = spent.changes + 1 /\ spent'.starts = spent.starts
        /\ spent.changes \in Nat
    BY <1>1, RunNumbers DEF Sound, SpentTyped
  <1>3. /\ source' \in [payload : [Records -> Versions], manifest : 0..MaxChanges]
        /\ source'.manifest <= spent'.changes
    <2>1. /\ source \in [payload : [Records -> Versions], manifest : 0..MaxChanges]
          /\ source.manifest <= spent.changes
      BY DEF Sound, SpentTyped
    <2>2. CASE \E k \in Changing, v \in Versions : source' = [source EXCEPT !.payload[k] = v]
      BY <1>2, <2>1, <2>2, RunNumbers
    <2>3. CASE source' = [source EXCEPT !.manifest = @ + 1]
      BY <1>1, <1>2, <2>1, <2>3, RunNumbers
    <2> QED
      BY <2>2, <2>3 DEF ChangeSource
  <1>4. SpentTyped'
    BY <1>2, <1>3 DEF SpentTyped
  <1>5. RunsNumbered' /\ OpeningsTyped'
    BY <1>1, <1>2 DEF Sound, RunsNumbered, OpeningsTyped
  <1>6. Tables'
    BY <1>1 DEF Sound, Tables, StagedTyped, MarksTyped, CheckpointCovers, CrosswalkTyped,
                ManifestTyped, CrosswalkIsTruth
  <1>7. Grows
    BY <1>1 DEF Grows
  <1>8. SessionsSane'
    BY <1>1, <1>7, SessionsStay DEF Sound
  <1> QED
    BY <1>4, <1>5, <1>6, <1>7, <1>8 DEF Sound

(* A run that was a clean rehearsal has a row.                              *)
LEMMA CleanRehearsal ==
  LET row == [NewRow("dry_run") EXCEPT !.status = "Validated", !.manifest = 0]
  IN  row \in RunRow /\ row.status = "Validated"
  <1>1. NewRow("dry_run") \in RunRow
    <2>1. "Created" \in Statuses
      BY StatusNames
    <2>2. None \in {None} \cup 0..MaxChanges
      OBVIOUS
    <2> QED
      BY <2>1, <2>2 DEF NewRow, RunRow
  <1>2. \A new \in RunRow, x \in Statuses, y \in 0..MaxChanges :
           LET row == [new EXCEPT !.status = x, !.manifest = y]
           IN  row \in RunRow /\ row.status = x
    BY DEF RunRow
  <1>3. "Validated" \in Statuses /\ 0 \in 0..MaxChanges
    BY StatusNames, RunNumbers
  <1> QED
    BY <1>1, <1>2, <1>3

(* The initial states are sound.                                            *)
LEMMA InitSound == Init => Sound
  <1> SUFFICES ASSUME Init PROVE Sound
    OBVIOUS
  <1>1. PICK v \in Versions : v = CHOOSE w \in Versions : TRUE
    BY MigrationAssumption
  <1>2. /\ source = [payload |-> [k \in Records |-> v], manifest |-> 0]
        /\ spent = [starts |-> 0, changes |-> 0]
    BY <1>1 DEF Init
  <1>3. SpentTyped
    BY <1>1, <1>2, RunNumbers DEF SpentTyped
  <1> DEFINE row == [NewRow("dry_run") EXCEPT !.status = "Validated", !.manifest = 0]
             was(k) == [payload |-> source.payload[k],
                        status |-> IF k \in OutOfScope THEN "Skipped" ELSE "Valid"]
             mark == [cursor |-> 0, completed |-> TRUE]
  <1>4. row \in RunRow /\ row.status = "Validated"
    BY CleanRehearsal
  <1>5. run = [r \in Runs |-> IF r > Rehearsed THEN None ELSE row]
    BY DEF Init
  <1>6. \A k \in Records : was(k) \in StagedRow /\ was(k).status \in {"Skipped", "Valid"}
    BY <1>1, <1>2 DEF StagedRow
  <1>7. staged = [r \in Runs |-> [k \in Records |-> IF r > Rehearsed THEN None ELSE was(k)]]
    BY DEF Init
  <1>8. checkpoint = [r \in Runs |-> [o \in Range(Objects) |->
                         IF r > Rehearsed THEN None ELSE mark]]
    BY DEF Init
  <1>9. mark \in Mark /\ mark.cursor = 0
    BY DEF Mark
  <1> HIDE DEF row, was, mark
  <1>10. \A r \in Runs : run[r] # None <=> r <= Rehearsed
    BY <1>4, <1>5, NoRow, RunNumbers
  <1>11. RunsNumbered
    BY <1>2, <1>4, <1>5, <1>10, RunNumbers DEF RunsNumbered
  <1>12. StagedTyped
    <2>1. ASSUME NEW r \in Runs, NEW k \in Records
          PROVE  /\ staged[r][k] \in StagedRow \cup {None}
                 /\ staged[r][k] # None => run[r] # None
      <3>1. staged[r][k] = IF r > Rehearsed THEN None ELSE was(k)
        BY <1>7
      <3>2. r > Rehearsed \/ r <= Rehearsed
        BY RunNumbers
      <3> QED
        BY <1>6, <1>10, <3>1, <3>2
    <2>2. DOMAIN staged = Runs /\ \A r \in Runs : DOMAIN staged[r] = Records
      BY <1>7
    <2>3. staged = [r \in Runs |-> [k \in Records |-> staged[r][k]]]
      BY <1>7
    <2> QED
      BY <2>1, <2>3 DEF StagedTyped
  <1>13. MarksTyped
    BY <1>8, <1>9, Source DEF MarksTyped
  <1>14. CheckpointCovers
    <2>1. ASSUME NEW r \in Runs, NEW o \in Range(Objects), checkpoint[r][o] # None,
                 NEW i \in DOMAIN Content[o]
          PROVE  staged[r][Content[o][i]] # None
      BY <1>6, <1>7, <1>8, <2>1, NoRow, Source
    <2> QED
      BY <2>1 DEF CheckpointCovers
  <1>15. crosswalk = [k \in Records |-> None] /\ effects = [k \in Records |-> 0]
    BY DEF Init
  <1>16. CrosswalkTyped /\ effects \in [Records -> Nat]
    BY <1>15 DEF CrosswalkTyped
  <1>17. CrosswalkIsTruth
    <2>1. ASSUME NEW r \in Runs, NEW k \in Records, staged[r][k] # None
          PROVE  staged[r][k].status \notin {"Applied", "Archived"}
      BY <1>6, <1>7, <2>1
    <2> QED
      BY <1>15, <2>1 DEF CrosswalkIsTruth
  <1>18. ManifestTyped
    BY DEF Init, ManifestTyped, IsInjective, Range
  <1>19. OpeningsTyped
    <2>1. openings = [r \in Runs |-> [stock |-> 0, ledger |-> 0]]
      BY DEF Init
    <2> QED
      BY <2>1 DEF OpeningsTyped
  <1>20. SessionsSane
    BY DEF Init, SessionsSane, Sane
  <1> QED
    BY <1>3, <1>11, <1>12, <1>13, <1>14, <1>16, <1>17, <1>18, <1>19, <1>20 DEF Sound, Tables

-----------------------------------------------------------------------------
(* All steps.                                                               *)

\* What a step does to what Cutover sees: nothing; a voucher is posted; or a
\* record becomes a document.
Unseen == effects' = effects /\ openings' = openings
VoucherPosted ==
    /\ effects' = effects
    /\ \E r \in Runs, part \in {"stock", "ledger"} : Posts(r, part)
RecordImported ==
    /\ openings' = openings
    /\ \E k \in Records : Imports(k)

(* Every step keeps the invariant, takes nothing back that a session has    *)
(* read, and does one of the three.                                         *)
LEMMA NextSound ==
  ASSUME Sound, [Next]_vars
  PROVE  Sound' /\ Grows /\ (Unseen \/ VoucherPosted \/ RecordImported)
  <1>1. CASE UNCHANGED vars
    <2>1. SpentTyped' /\ RunsNumbered' /\ OpeningsTyped'
      BY <1>1 DEF vars, Sound, SpentTyped, RunsNumbered, OpeningsTyped
    <2>2. Tables'
      BY <1>1 DEF vars, Sound, Tables, StagedTyped, MarksTyped, CheckpointCovers, CrosswalkTyped,
                  ManifestTyped, CrosswalkIsTruth
    <2>3. Grows
      BY <1>1 DEF vars, Grows
    <2>4. SessionsSane'
      BY <1>1, <2>3, SessionsStay DEF vars, Sound
    <2> QED
      BY <1>1, <2>1, <2>2, <2>3, <2>4 DEF vars, Sound, Unseen
  <1>2. ASSUME NEW s \in Sessions, NEW mode \in {"dry_run", "cutover"}, NEW controls \in Controls,
               Execute(s, mode, controls)
        PROVE  Sound' /\ Grows /\ Unseen
    <2>1. effects' = effects /\ openings' = openings
      BY <1>2 DEF Execute, records
    <2> QED
      BY <1>2, <2>1, ExecuteSound DEF Unseen
  <1>3. ASSUME NEW s \in Sessions, NEW r \in Runs, NEW first \in DOMAIN CutoverRun,
               NEW controls \in Controls \cup {None}, NEW restart \in BOOLEAN,
               Resume(s, r, first, controls, restart)
        PROVE  Sound' /\ Grows /\ Unseen
    <2>1. effects' = effects /\ openings' = openings
      BY <1>3 DEF Resume, records
    <2> QED
      BY <1>3, <2>1, ResumeSound DEF Unseen
  <1>4. ASSUME NEW s \in Sessions, QuietAction(s) PROVE Sound' /\ Grows /\ Unseen
    <2>1. QuietStep(s)
      BY <1>4, QuietActions
    <2> QED
      BY <2>1, QuietSound DEF QuietStep, Unseen, records
  <1>5. ASSUME NEW s \in Sessions, StagePage(s) \/ Scope(s) \/ EndValidate(s)
        PROVE  Sound' /\ Grows /\ Unseen
    <2>1. effects' = effects /\ openings' = openings
      BY <1>5 DEF StagePage, Scope, EndValidate
    <2> QED
      BY <1>5, <2>1, StagePageSound, ScopeSound, EndValidateSound DEF Unseen
  <1>6. ASSUME NEW s \in Sessions, OpenStock(s) \/ OpenLedger(s)
        PROVE  Sound' /\ Grows /\ (Unseen \/ VoucherPosted)
    BY <1>6, OpeningSound DEF Unseen, VoucherPosted
  <1>7. ASSUME NEW s \in Sessions, Commit(s)
        PROVE  Sound' /\ Grows /\ (Unseen \/ RecordImported)
    BY <1>7, CommitSound DEF Unseen, RecordImported
  <1>8. ASSUME (\E r \in Runs : Failback(r)) \/ ChangeSource PROVE Sound' /\ Grows /\ Unseen
    <2>1. effects' = effects /\ openings' = openings
      BY <1>8 DEF Failback, ChangeSource, records
    <2> QED
      BY <1>8, <2>1, FailbackSound, ChangeSourceSound DEF Unseen
  <1>9. ASSUME NEW s \in Sessions,
               Discovery(s) \/ Extraction(s) \/ Validation(s) \/ Application(s)
                   \/ Reconciliation(s) \/ HandleError(s) \/ Unwind(s) \/ Crash(s)
        PROVE  \/ QuietAction(s) \/ StagePage(s) \/ Scope(s) \/ EndValidate(s)
               \/ OpenStock(s) \/ OpenLedger(s) \/ Commit(s)
    BY <1>9 DEF QuietAction, Extraction, Validation, Application
  <1>10. ASSUME Next PROVE Sound' /\ Grows /\ (Unseen \/ VoucherPosted \/ RecordImported)
    <2>1. CASE \E s \in Sessions, mode \in {"dry_run", "cutover"}, controls \in Controls :
                  Execute(s, mode, controls)
      BY <1>2, <2>1
    <2>2. CASE \E s \in Sessions, r \in Runs, first \in DOMAIN CutoverRun,
                  controls \in Controls \cup {None}, restart \in BOOLEAN :
                  Resume(s, r, first, controls, restart)
      BY <1>3, <2>2
    <2>3. CASE \E s \in Sessions :
                  Discovery(s) \/ Extraction(s) \/ Validation(s) \/ Application(s)
                      \/ Reconciliation(s) \/ HandleError(s) \/ Unwind(s) \/ Crash(s)
      BY <1>4, <1>5, <1>6, <1>7, <1>9, <2>3
    <2>4. CASE (\E r \in Runs : Failback(r)) \/ ChangeSource
      BY <1>8, <2>4
    <2> QED
      BY <1>10, <2>1, <2>2, <2>3, <2>4 DEF Next
  <1> QED
    BY <1>1, <1>10

(* The invariant holds for as long as the system runs.                      *)
THEOREM SoundAlways == Spec => []Sound
  <1>1. Sound /\ [Next]_vars => Sound'
    BY NextSound
  <1> QED
    BY InitSound, <1>1, PTL DEF Spec

(* Every row, mark, voucher and session keeps its shape, whatever crashes   *)
(* and however many processes work on the runs (migration/staging.py).      *)
THEOREM TypeCorrect == Spec => []TypeOK
  <1>1. Sound => TypeOK
    <2> SUFFICES ASSUME Sound PROVE TypeOK
      OBVIOUS
    <2>1. ASSUME NEW r \in Runs
          PROVE  /\ run[r] = None \/ run[r] \in RunRow
                 /\ \A k \in Records : staged[r][k] = None \/ staged[r][k] \in StagedRow
                 /\ \A o \in Range(Objects) :
                       \/ checkpoint[r][o] = None
                       \/ checkpoint[r][o] \in Mark /\ checkpoint[r][o].cursor <= Len(Content[o])
                 /\ IsInjective(manifest[r]) /\ Range(manifest[r]) \subseteq Records
                 /\ run[r] = None => /\ \A k \in Records : staged[r][k] = None
                                     /\ openings[r] = [stock |-> 0, ledger |-> 0]
      BY DEF Sound, RunsNumbered, Tables, StagedTyped, MarksTyped, ManifestTyped, OpeningsTyped
    <2>2. \A k \in Records : crosswalk[k] = None \/ crosswalk[k] \in CrosswalkRow
      BY DEF Sound, Tables, CrosswalkTyped
    <2>3. effects \in [Records -> Nat] /\ openings \in [Runs -> [stock : Nat, ledger : Nat]]
      BY DEF Sound, Tables, OpeningsTyped
    <2>4. ASSUME NEW s \in Sessions
          PROVE  session[s].at \in Places /\ (session[s] # Idle => session[s].run \in Runs)
      BY DEF Sound, SessionsSane, Sane, Idle, Process, Knows, Plain, Places
    <2> QED
      BY <2>1, <2>2, <2>3, <2>4 DEF TypeOK, Sound, SpentTyped
  <1> QED
    BY SoundAlways, <1>1, PTL

(* A page and its mark are staged in one transaction, so that no crash, no  *)
(* resumption and no second process loses a record (staging.py).            *)
THEOREM CheckpointsCorrect == Spec => []CheckpointCovers
  <1>1. Sound => CheckpointCovers
    BY DEF Sound, Tables
  <1> QED
    BY SoundAlways, <1>1, PTL

(* What a run reports as applied is in the crosswalk, and a record becomes  *)
(* one document, after those it refers to (apply.py).                       *)
THEOREM CrosswalkCorrect == Spec => []CrosswalkIsTruth
  <1>1. Sound => CrosswalkIsTruth
    BY DEF Sound, Tables
  <1> QED
    BY SoundAlways, <1>1, PTL

-----------------------------------------------------------------------------
(* What an execution has done by the time it gets to a call.                *)

\* The order of the calls, as far as it matters.
Follows(call, next) ==
    /\ call = "Discover" => next = "Extract"
    /\ next = "Counts" => call = "Apply"
    /\ next = "Financials" => call = "Counts"
Ordered(script) ==
    \A i \in 1..Len(script) : i < Len(script) => Follows(script[i], script[i + 1])

\* The call a place is in.
InCall(at, call) ==
    /\ at \in {"discovering", "keeping"} => call = "Discover"
    /\ at \in {"extracting", "fetching", "staging"} => call = "Extract"
    /\ at = "validating" => call = "Validate"
    /\ at \in {"listing", "applying", "opening", "writing"} => call = "Apply"
    /\ at = "comparing" => call = "Financials"

ObjectStaged(r, o) == \A i \in DOMAIN Content[o] : staged[r][Content[o][i]] # None
AllStaged(r) == \A k \in Records : staged[r][k] # None
Posted(r, controls) == controls # None => \A part \in controls : openings[r][part] = 1
AllImported ==
    \A k \in Records \ (Cancelled \cup OutOfScope) : ObjectOf[k] \in Handled => effects[k] = 1
SkippedOld ==
    \A r \in Runs, k \in Records :
       staged[r][k] # None /\ staged[r][k].status = "Skipped" => k \in OutOfScope

Done(r, execute, controls, call) ==
    execute => /\ call \notin {"Discover", "Extract"} => AllStaged(r)
               /\ call \in {"Counts", "Financials"} => Posted(r, controls)
               /\ call = "Financials" /\ ~run[r].miscounted => AllImported
Doing(r, at, controls, local) ==
    /\ at \in {"extracting", "fetching", "staging"} =>
          \A o \in Range(Objects) : o \notin Range(local.objects) => ObjectStaged(r, o)
    /\ at \in {"applying", "writing"} /\ local.opened => Posted(r, controls)
    /\ at = "opening" /\ controls # None /\ "stock" \in controls => openings[r].stock = 1
    /\ at = "writing" /\ controls # None
       /\ ObjectOf[local.records[local.next].key] \in Transactional => local.opened

Aware(s) ==
    session[s] # Idle =>
       LET me == session[s]
       IN  /\ Ordered(me.script) /\ InCall(me.at, Head(me.script))
           /\ Done(me.run, me.execute, me.controls, Head(me.script))
           /\ Doing(me.run, me.at, me.controls, me.local)

Careful == SkippedOld /\ \A s \in Sessions : Aware(s)

(* What is staged, posted and imported stays.                               *)
LEMMA TablesStay ==
  ASSUME Sound, Sound', Grows, NEW r \in Runs
  PROVE  /\ AllStaged(r) => AllStaged(r)'
         /\ \A o \in Range(Objects) : ObjectStaged(r, o) => ObjectStaged(r, o)'
         /\ \A c : OfOpening(c) /\ Posted(r, c) => Posted(r, c)'
         /\ AllImported => AllImported'
  <1>1. AllStaged(r) => AllStaged(r)'
    BY DEF AllStaged, Grows
  <1>2. ASSUME NEW o \in Range(Objects), ObjectStaged(r, o) PROVE ObjectStaged(r, o)'
    BY <1>2, Source DEF ObjectStaged, Grows
  <1>3. ASSUME NEW c, OfOpening(c), Posted(r, c) PROVE Posted(r, c)'
    <2>1. ASSUME c # None, NEW part \in c PROVE openings'[r][part] = 1
      <3>1. openings[r][part] = 1 /\ part \in {"stock", "ledger"}
        BY <1>3, <2>1 DEF Posted, OfOpening
      <3>2. CASE part = "stock"
        BY <3>1, <3>2 DEF Grows
      <3>3. CASE part = "ledger"
        BY <3>1, <3>3 DEF Grows
      <3> QED
        BY <3>1, <3>2, <3>3
    <2> QED
      BY <2>1 DEF Posted
  <1>4. ASSUME NEW k \in Records, effects[k] = 1 PROVE effects'[k] = 1
    <2>1. crosswalk[k] # None /\ crosswalk[k].action = "Insert"
      BY <1>4 DEF Sound, Tables, CrosswalkIsTruth
    <2>2. crosswalk'[k] = crosswalk[k]
      BY <2>1 DEF Grows
    <2> QED
      BY <2>1, <2>2 DEF Sound, Tables, CrosswalkIsTruth
  <1>5. AllImported => AllImported'
    BY <1>4 DEF AllImported
  <1> QED
    BY <1>1, <1>2, <1>3, <1>5

(* A count without failure says that all is imported, if all is staged.     *)
LEMMA CountedMeansImported ==
  ASSUME Sound, SkippedOld, NEW r \in Runs, AllStaged(r), ~Uncounted(r)
  PROVE  AllImported
  <1> SUFFICES ASSUME NEW k \in Records, k \notin Cancelled, k \notin OutOfScope,
                      ObjectOf[k] \in Handled
               PROVE  effects[k] = 1
    BY DEF AllImported
  <1>1. staged[r][k] # None
    BY DEF AllStaged
  <1>2. staged[r][k].status \in {"Applied", "Archived", "Skipped"}
    BY <1>1 DEF Uncounted
  <1>3. staged[r][k].status \in {"Applied", "Archived"}
    BY <1>1, <1>2 DEF SkippedOld
  <1>4. crosswalk[k] # None
    BY <1>1, <1>3 DEF Sound, Tables, CrosswalkIsTruth
  <1>5. crosswalk[k].action = "Insert"
    BY <1>4 DEF Sound, Tables, CrosswalkTyped
  <1> QED
    BY <1>4, <1>5 DEF Sound, Tables, CrosswalkIsTruth

(* What an execution has done stays done, however often its run is          *)
(* recounted.                                                               *)
LEMMA DoneStays ==
  ASSUME Sound, Sound', Grows, SkippedOld, NEW r \in Runs, run[r] # None,
         NEW execute, NEW controls, OfOpening(controls), NEW call,
         Done(r, execute, controls, call)
  PROVE  Done(r, execute, controls, call)'
  <1>1. ASSUME execute, call = "Financials", ~run'[r].miscounted PROVE AllImported'
    <2>1. AllStaged(r)
      BY <1>1 DEF Done
    <2>2. run'[r].miscounted = run[r].miscounted \/ run'[r].miscounted = Uncounted(r)
      BY DEF Grows
    <2>3. CASE ~run[r].miscounted
      BY <1>1, <2>3, TablesStay DEF Done
    <2>4. CASE ~Uncounted(r)
      BY <2>1, <2>4, CountedMeansImported, TablesStay
    <2> QED
      BY <1>1, <2>2, <2>3, <2>4
  <1> QED
    BY <1>1, TablesStay DEF Done

(* What a session has done of a call stays done.                            *)
LEMMA DoingStays ==
  ASSUME Sound, Sound', Grows, NEW r \in Runs,
         NEW at, NEW controls, OfOpening(controls), NEW local, Doing(r, at, controls, local)
  PROVE  Doing(r, at, controls, local)'
  <1>1. openings[r].stock = 1 => openings'[r].stock = 1
    BY DEF Grows
  <1> QED
    BY <1>1, TablesStay DEF Doing

(* A session that does not move stays aware.                                *)
LEMMA AwareStays ==
  ASSUME Sound, Sound', Grows, SkippedOld, NEW s \in Sessions, Aware(s), session'[s] = session[s]
  PROVE  Aware(s)'
  <1>1. CASE session[s] = Idle
    BY <1>1 DEF Aware
  <1>2. CASE session[s] # Idle
    <2>1. Process(session[s]) /\ session[s].run \in Runs /\ run[session[s].run] # None
      BY <1>2 DEF Sound, SessionsSane, Sane, Process
    <2>2. OfOpening(session[s].controls)
      BY <2>1 DEF Process
    <2> QED
      BY <1>2, <2>1, <2>2, DoneStays, DoingStays DEF Aware
  <1> QED
    BY <1>1, <1>2

(* A session at work, and what it is aware of.                              *)
LEMMA AwareAtWork ==
  ASSUME Sound, NEW s \in Sessions, Aware(s), ~At(s, "idle")
  PROVE  LET me == session[s]
         IN  /\ Process(me) /\ me.run \in Runs /\ run[me.run] # None /\ OfOpening(me.controls)
             /\ Ordered(me.script) /\ InCall(me.at, Head(me.script))
             /\ Done(me.run, me.execute, me.controls, Head(me.script))
             /\ Doing(me.run, me.at, me.controls, me.local)
  <1>1. session[s] # Idle
    BY DEF At, Idle
  <1> QED
    BY <1>1, AtWork DEF Sound, Aware, Process

(* A call that goes on.                                                     *)
LEMMA AwareGoes ==
  ASSUME Sound, Sound', Grows, SkippedOld, NEW s \in Sessions, Aware(s), ~At(s, "idle"),
         NEW place, NEW local, Goto(s, place, local),
         InCall(place, Head(session[s].script)),
         NEW r, NEW controls, r = session[s].run, controls = session[s].controls,
         Doing(r, place, controls, local)'
  PROVE  Aware(s)'
  <1> DEFINE me == session[s]
  <1>1. /\ Process(me) /\ me.run \in Runs /\ run[me.run] # None /\ OfOpening(me.controls)
        /\ Ordered(me.script) /\ Done(me.run, me.execute, me.controls, Head(me.script))
    BY AwareAtWork
  <1>2. session' = [session EXCEPT ![s] = [me EXCEPT !.at = place, !.local = local]]
    BY <1>1 DEF Goto, Sound, SessionsSane, Process
  <1>3. session'[s] = [at |-> place, run |-> me.run, execute |-> me.execute, prior |-> me.prior,
                       controls |-> me.controls, restart |-> me.restart, script |-> me.script,
                       local |-> local]
    BY <1>1, <1>2 DEF Sound, SessionsSane, Process
  <1>4. PICK execute, call : execute = me.execute /\ call = Head(me.script)
    OBVIOUS
  <1>5. Done(r, execute, controls, call)'
    BY <1>1, <1>4, DoneStays
  <1>6. /\ session'[s].run = r /\ session'[s].execute = execute /\ session'[s].at = place
        /\ session'[s].controls = controls /\ session'[s].script = me.script
        /\ session'[s].local = local
    BY <1>3, <1>4
  <1>7. Ordered(session'[s].script) /\ InCall(session'[s].at, Head(session'[s].script))
    BY <1>1, <1>6
  <1> QED
    BY <1>4, <1>5, <1>6, <1>7 DEF Aware

(* A call that raises, or a process that dies.                              *)
LEMMA AwareStops ==
  ASSUME Sound, Sound', Grows, SkippedOld, NEW s \in Sessions, Aware(s), ~At(s, "idle"),
         Raise(s) \/ Unwinding(s) \/ session' = [session EXCEPT ![s] = Idle]
  PROVE  Aware(s)'
  <1>1. ASSUME NEW place \in {"raised", "unwinding"}, Goto(s, place, None) PROVE Aware(s)'
    <2>1. InCall(place, Head(session[s].script))
      BY <1>1 DEF InCall
    <2>2. PICK r, controls : r = session[s].run /\ controls = session[s].controls
      OBVIOUS
    <2>3. Doing(r, place, controls, None)'
      BY <1>1 DEF Doing
    <2> QED
      BY <1>1, <2>1, <2>2, <2>3, AwareGoes
  <1>2. CASE session' = [session EXCEPT ![s] = Idle]
    BY <1>2 DEF Aware, Sound, SessionsSane
  <1>3. CASE Unwinding(s)
    <2>1. Process(session[s]) /\ DOMAIN session = Sessions
      BY AwareAtWork DEF Sound, SessionsSane
    <2>2. CASE session[s].execute
      <3>1. session' = [session EXCEPT ![s] = [session[s] EXCEPT !.at = "unwinding", !.local = None]]
        BY <1>3, <2>1, <2>2 DEF Unwinding
      <3>2. Goto(s, "unwinding", None)
        BY <2>1, <3>1 DEF Goto, Process
      <3> QED
        BY <1>1, <3>2
    <2>3. CASE ~session[s].execute
      BY <1>2, <1>3, <2>1, <2>3 DEF Unwinding
    <2> QED
      BY <2>2, <2>3
  <1>4. CASE Raise(s)
    BY <1>1, <1>3, <1>4 DEF Raise
  <1> QED
    BY <1>2, <1>3, <1>4

(* The first of a sequence.                                                 *)
LEMMA HeadIsFirst ==
  ASSUME NEW S, NEW x \in Seq(S), Len(x) # 0
  PROVE  x # <<>> /\ Head(x) = x[1]
  <1>1. x # <<>>
    <2>1. Len(<<>>) = 0
      OBVIOUS
    <2> QED
      BY <2>1
  <1> QED
    BY <1>1

(* The script that is left when a call returns.                             *)
LEMMA OrderedTail ==
  ASSUME NEW script \in Seq(CallNames), script # <<>>, Len(script) # 1, Ordered(script)
  PROVE  /\ Tail(script) \in Seq(CallNames) /\ Tail(script) # <<>>
         /\ Ordered(Tail(script)) /\ Follows(Head(script), Head(Tail(script)))
  <1>0. /\ Len(script) \in Nat /\ Len(script) # 0
        /\ Tail(script) \in Seq(CallNames) /\ Len(Tail(script)) = Len(script) - 1
        /\ \A i \in 1..Len(Tail(script)) : Tail(script)[i] = script[i + 1]
    <2>1. Len(script) \in Nat /\ Len(script) # 0
      OBVIOUS
    <2> QED
      BY <2>1, HeadTailProperties
  <1>1. /\ Len(script) \in Nat /\ Len(script) >= 2 /\ Head(script) = script[1]
        /\ Tail(script) \in Seq(CallNames) /\ Len(Tail(script)) = Len(script) - 1
        /\ \A i \in 1..Len(Tail(script)) : Tail(script)[i] = script[i + 1]
    <2>1. Head(script) = script[1]
      OBVIOUS
    <2>2. Len(script) >= 2
      BY <1>0
    <2> QED
      BY <1>0, <2>1, <2>2
  <1>2. Tail(script) # <<>> /\ Head(Tail(script)) = Tail(script)[1]
    <2>1. Len(Tail(script)) # 0 /\ Tail(script) \in Seq(CallNames)
      BY <1>1
    <2> QED
      BY <2>1, HeadIsFirst
  <1>3. Head(Tail(script)) = script[2]
    BY <1>1, <1>2
  <1>4. Follows(script[1], script[1 + 1])
    BY <1>1 DEF Ordered
  <1>5. ASSUME NEW i \in 1..Len(Tail(script)), i < Len(Tail(script))
        PROVE  Follows(Tail(script)[i], Tail(script)[i + 1])
    <2>1. i \in Nat /\ i + 1 \in 1..Len(script) /\ i + 1 < Len(script) /\ i + 1 \in 1..Len(Tail(script))
      BY <1>1, <1>5
    <2>2. Tail(script)[i] = script[i + 1] /\ Tail(script)[i + 1] = script[(i + 1) + 1]
      BY <1>1, <2>1
    <2>3. Follows(script[i + 1], script[(i + 1) + 1])
      BY <2>1 DEF Ordered
    <2> QED
      BY <2>2, <2>3
  <1>6. Ordered(Tail(script))
    BY <1>5 DEF Ordered
  <1> QED
    BY <1>1, <1>2, <1>3, <1>4, <1>6

(* A call that returns, having done what the next one relies on.            *)
LEMMA AwareReturns ==
  ASSUME Sound, Sound', Grows, SkippedOld, NEW s \in Sessions, Aware(s), ~At(s, "idle"), Return(s),
         NEW r, NEW execute, NEW controls, NEW call,
         r = session[s].run, execute = session[s].execute, controls = session[s].controls,
         call = Head(session[s].script),
         execute /\ call = "Extract" => AllStaged(r)',
         execute /\ call = "Apply" => Posted(r, controls)',
         execute /\ call = "Counts" /\ ~run'[r].miscounted => AllImported'
  PROVE  Aware(s)'
  <1>1. PICK script, prior : script = session[s].script /\ prior = session[s].prior
    OBVIOUS
  <1>2. /\ script \in Seq(CallNames) /\ script # <<>> /\ r \in Runs /\ run[r] # None
        /\ OfOpening(controls) /\ Ordered(script) /\ Done(r, execute, controls, call)
        /\ DOMAIN session = Sessions
    BY <1>1, AwareAtWork DEF Sound, SessionsSane, Process
  <1>3. CASE Len(script) = 1
    BY <1>1, <1>2, <1>3 DEF Return, Aware
  <1>4. CASE Len(script) # 1
    <2>1. PICK rest, next : rest = Tail(script) /\ next = Head(rest)
      OBVIOUS
    <2>2. Ordered(rest) /\ Follows(call, next)
      BY <1>1, <1>2, <1>4, <2>1, OrderedTail
    <2>3. session'[s] = [at |-> "begin", run |-> r, execute |-> execute, prior |-> prior,
                         controls |-> controls, restart |-> FALSE, script |-> rest,
                         local |-> None]
      BY <1>1, <1>2, <1>4, <2>1 DEF Return, Working
    <2>4. Done(r, execute, controls, call)'
      BY <1>2, DoneStays
    <2>5. ASSUME execute
          PROVE  /\ next \notin {"Discover", "Extract"} => AllStaged(r)'
                 /\ next \in {"Counts", "Financials"} => Posted(r, controls)'
                 /\ next = "Financials" /\ ~run'[r].miscounted => AllImported'
      BY <2>2, <2>4, <2>5 DEF Follows, Done
    <2>6. Done(r, execute, controls, next)'
      BY <2>5 DEF Done
    <2>7. InCall("begin", next) /\ Doing(r, "begin", controls, None)'
      BY DEF InCall, Doing
    <2>8. /\ session'[s].run = r /\ session'[s].execute = execute /\ session'[s].at = "begin"
          /\ session'[s].controls = controls /\ session'[s].script = rest
          /\ session'[s].local = None
      BY <2>3
    <2>9. Ordered(session'[s].script) /\ InCall(session'[s].at, Head(session'[s].script))
      BY <2>1, <2>2, <2>7, <2>8
    <2> QED
      BY <2>1, <2>6, <2>7, <2>8, <2>9 DEF Aware
  <1> QED
    BY <1>3, <1>4

(* The scripts make their calls in order.                                   *)
LEMMA OrderedScripts ==
  /\ Ordered(DryRun) /\ Head(DryRun) = "Discover"
  /\ Ordered(CutoverRun) /\ Head(CutoverRun) = "Discover"
  /\ \A first \in DOMAIN CutoverRun : Ordered(SubSeq(CutoverRun, first, Len(CutoverRun)))
  <1>1. Ordered(DryRun) /\ Head(DryRun) = "Discover"
    BY DEF DryRun, Ordered, Follows
  <1>2. /\ CutoverRun \in Seq(CallNames) /\ Len(CutoverRun) = 8
        /\ CutoverRun[1] = "Discover" /\ CutoverRun[2] = "Extract" /\ CutoverRun[3] = "Scope"
        /\ CutoverRun[4] = "Validate" /\ CutoverRun[5] = "Approve" /\ CutoverRun[6] = "Apply"
        /\ CutoverRun[7] = "Counts" /\ CutoverRun[8] = "Financials"
    <2> DEFINE x == <<"Discover", "Extract", "Scope", "Validate">>
               y == <<"Approve", "Apply", "Counts", "Financials">>
    <2>1. /\ x \in Seq(CallNames) /\ Len(x) = 4 /\ y \in Seq(CallNames) /\ Len(y) = 4
          /\ x[1] = "Discover" /\ x[2] = "Extract" /\ x[3] = "Scope" /\ x[4] = "Validate"
          /\ y[1] = "Approve" /\ y[2] = "Apply" /\ y[3] = "Counts" /\ y[4] = "Financials"
      BY DEF CallNames
    <2>2. CutoverRun = x \o y
      BY DEF CutoverRun, DryRun
    <2> HIDE DEF x, y
    <2>3. /\ x \o y \in Seq(CallNames) /\ Len(x \o y) = 8
          /\ \A i \in 1..8 : (x \o y)[i] = IF i <= 4 THEN x[i] ELSE y[i - 4]
      <3>1. /\ x \o y \in Seq(CallNames) /\ Len(x \o y) = Len(x) + Len(y)
            /\ \A i \in 1..(Len(x) + Len(y)) :
                  (x \o y)[i] = IF i <= Len(x) THEN x[i] ELSE y[i - Len(x)]
        BY <2>1, ConcatProperties
      <3> QED
        BY <2>1, <3>1
    <2> QED
      BY <2>1, <2>2, <2>3
  <1>3. Ordered(CutoverRun) /\ Head(CutoverRun) = "Discover" /\ CutoverRun \in Seq(CallNames)
    <2>1. ASSUME NEW i \in 1..8, i < 8 PROVE Follows(CutoverRun[i], CutoverRun[i + 1])
      <3>1. i \in {1, 2, 3, 4, 5, 6, 7}
        BY <2>1
      <3> QED
        BY <1>2, <3>1 DEF Follows
    <2>2. Head(CutoverRun) = CutoverRun[1]
      BY <1>2
    <2> QED
      BY <1>2, <2>1, <2>2 DEF Ordered
  <1>4. ASSUME NEW all \in Seq(CallNames), Ordered(all), NEW first \in DOMAIN all
        PROVE  Ordered(SubSeq(all, first, Len(all)))
    <2> DEFINE rest == SubSeq(all, first, Len(all))
    <2>1. /\ Len(all) \in Nat /\ first \in 1..Len(all)
          /\ Len(rest) = Len(all) - first + 1
          /\ \A i \in 1..(Len(all) - first + 1) : rest[i] = all[first + i - 1]
      BY <1>4
    <2> HIDE DEF rest
    <2>2. ASSUME NEW i \in 1..Len(rest), i < Len(rest) PROVE Follows(rest[i], rest[i + 1])
      <3>1. /\ i \in Nat /\ first + i - 1 \in 1..Len(all) /\ first + i - 1 < Len(all)
            /\ rest[i] = all[first + i - 1] /\ rest[i + 1] = all[(first + i - 1) + 1]
        BY <2>1, <2>2
      <3>2. Follows(all[first + i - 1], all[(first + i - 1) + 1])
        BY <1>4, <3>1 DEF Ordered
      <3> QED
        BY <3>1, <3>2
    <2>3. Ordered(rest)
      BY <2>2 DEF Ordered
    <2> QED
      BY <2>3 DEF rest
  <1> QED
    BY <1>1, <1>3, <1>4

(* A process that starts.                                                   *)
LEMMA AwareStarts ==
  ASSUME Sound, NEW s \in Sessions, NEW r, NEW execute, NEW prior, NEW controls, NEW restart, NEW script,
         session' = [session EXCEPT ![s] = Working(r, execute, prior, controls, restart, script)],
         Ordered(script), execute => Head(script) = "Discover"
  PROVE  Aware(s)'
  <1>1. session'[s] = [at |-> "begin", run |-> r, execute |-> execute, prior |-> prior,
                       controls |-> controls, restart |-> restart, script |-> script,
                       local |-> None]
    BY DEF Sound, SessionsSane, Working
  <1>2. PICK call : call = Head(script)
    OBVIOUS
  <1>3. Done(r, execute, controls, call)'
    BY <1>2 DEF Done
  <1>4. InCall("begin", call) /\ Doing(r, "begin", controls, None)'
    BY DEF InCall, Doing
  <1> QED
    BY <1>1, <1>2, <1>3, <1>4 DEF Aware

(* The transaction that begins a call.                                      *)
LEMMA AwareBegins ==
  ASSUME Sound, Sound', Grows, SkippedOld, NEW s \in Sessions, Aware(s),
         NEW call, NEW status, NEW place, NEW local, Begin(s, call, status, place, local),
         InCall(place, call), \A r, controls : Doing(r, place, controls, local)'
  PROVE  Aware(s)'
  <1>1. ~At(s, "idle") /\ Head(session[s].script) = call
    BY DEF Begin, Calls, At
  <1>2. PICK r, controls : r = session[s].run /\ controls = session[s].controls
    OBVIOUS
  <1>3. CASE Goto(s, place, local)
    BY <1>1, <1>2, <1>3, AwareGoes
  <1>4. CASE Raise(s)
    BY <1>1, <1>4, AwareStops
  <1> QED
    BY <1>3, <1>4 DEF Begin

(* The transaction that ends a call.                                        *)
LEMMA AwareEnds ==
  ASSUME Sound, Sound', Grows, SkippedOld, NEW s \in Sessions, Aware(s), ~At(s, "idle"),
         NEW allowed, NEW row, End(s, allowed, row),
         NEW r, NEW execute, NEW controls, NEW call,
         r = session[s].run, execute = session[s].execute, controls = session[s].controls,
         call = Head(session[s].script),
         execute /\ call = "Extract" => AllStaged(r)',
         execute /\ call = "Apply" => Posted(r, controls)',
         execute /\ call = "Counts" /\ run' = [run EXCEPT ![r] = row] /\ ~run'[r].miscounted
            => AllImported'
  PROVE  Aware(s)'
  <1>1. CASE run' = [run EXCEPT ![r] = row] /\ Return(s)
    BY <1>1, AwareReturns
  <1>2. CASE Raise(s)
    BY <1>2, AwareStops
  <1> QED
    BY <1>1, <1>2 DEF End

-----------------------------------------------------------------------------
(* The steps that leave a call where its session may stop or begin.         *)

(* Nothing but apply_history_scope() skips a record.                        *)
LEMMA SkippedStays ==
  ASSUME Sound, SkippedOld, NEW s \in Sessions,
         StagePage(s) \/ Scope(s) \/ EndValidate(s) \/ Commit(s)
  PROVE  SkippedOld'
  <1> SUFFICES ASSUME NEW q \in Runs, NEW k \in Records, staged'[q][k] # None,
                      staged'[q][k].status = "Skipped", staged'[q][k] # staged[q][k]
               PROVE  k \in OutOfScope
    BY DEF SkippedOld
  <1>0. PICK r, local : r = session[s].run /\ local = session[s].local
    OBVIOUS
  <1>1. staged \in [Runs -> [Records -> StagedRow \cup {None}]]
    BY DEF Sound, Tables, StagedTyped
  <1>2. CASE StagePage(s)
    <2>1. staged' = [staged EXCEPT ![r] = [j \in Records |->
             IF j \in DOMAIN local.page /\ @[j] = None
             THEN [payload |-> local.page[j], status |-> "Extracted"] ELSE @[j]]]
      BY <1>0, <1>2 DEF StagePage
    <2>2. staged'[q][k] = [payload |-> local.page[k], status |-> "Extracted"]
      BY <1>1, <2>1
    <2>3. staged'[q][k].status = "Extracted"
      BY <2>2
    <2> QED
      BY <2>3
  <1>3. CASE Scope(s)
    <2>1. staged' = [staged EXCEPT ![r] = [j \in Records |->
             IF j \in OutOfScope /\ @[j] # None /\ @[j].status = "Extracted"
             THEN [@[j] EXCEPT !.status = "Skipped"] ELSE @[j]]]
      BY <1>0, <1>3 DEF Scope
    <2> QED
      BY <1>1, <2>1
  <1>4. CASE EndValidate(s)
    <2> DEFINE mine == session[s].run
               wrong == {j \in Kept(mine) :
                            \/ <<j, staged[mine][j].payload>> \in Invalid
                            \/ \E n \in Needs[j] : n \notin Kept(mine) /\ crosswalk[n] = None}
    <2>0. MayMove(mine, "Validated")
      BY <1>4 DEF EndValidate
    <2>1. staged' = [staged EXCEPT ![mine] = [j \in Records |->
             IF j \in Kept(mine)
             THEN [@[j] EXCEPT !.status = IF j \in wrong THEN "Invalid" ELSE "Valid"]
             ELSE @[j]]]
      BY <1>4, <2>0 DEF EndValidate
    <2> HIDE DEF wrong
    <2>2. PICK verdict \in {"Invalid", "Valid"} :
             k \in Kept(r) /\ q = r /\ staged'[q][k] = [staged[q][k] EXCEPT !.status = verdict]
      BY <1>0, <1>1, <2>1
    <2>3. staged[q][k] \in StagedRow
      BY <1>1, <2>2 DEF Kept
    <2>4. staged'[q][k].status = verdict
      BY <2>2, <2>3 DEF StagedRow
    <2> QED
      BY <2>4
  <1>5. CASE Commit(s)
    <2>1. PICK key, status :
             /\ key = local.records[local.next].key /\ status \in {"Archived", "Applied"}
             /\ staged' = [staged EXCEPT ![r][key].status = status]
      BY <1>0, <1>5 DEF Commit
    <2>2. q = r /\ k = key
      BY <1>1, <2>1
    <2>3. staged[q][k] # None
      <3>1. session[s].at = "writing" /\ ~At(s, "idle")
        BY <1>5 DEF Commit, At
      <3>2. r \in Runs /\ Knows(r, "writing", local)
        BY <1>0, <3>1, AtWork DEF Sound
      <3>3. ToWrite(r, local)
        BY <3>2 DEF Knows, Plain
      <3>4. local.next \in DOMAIN local.records
        BY <3>3 DEF ToWrite, InList
      <3> QED
        BY <2>1, <2>2, <3>3, <3>4 DEF ToWrite, InList
    <2>4. staged'[q][k] = [staged[q][k] EXCEPT !.status = status] /\ staged[q][k] \in StagedRow
      BY <1>1, <2>1, <2>2, <2>3
    <2>5. staged'[q][k].status = status
      BY <2>4 DEF StagedRow
    <2> QED
      BY <2>1, <2>5
  <1> QED
    BY <1>2, <1>3, <1>4, <1>5

(* Calls that begin with a transaction.                                     *)
LEMMA BeginningsAware ==
  ASSUME Sound, Sound', Grows, SkippedOld, NEW s \in Sessions, Aware(s),
         BeginDiscover(s) \/ BeginExtract(s) \/ BeginValidate(s) \/ BeginApply(s)
  PROVE  Aware(s)'
  <1>1. \A place \in {"discovering", "validating", "listing"} :
           \A r, controls, local : Doing(r, place, controls, local)'
    BY DEF Doing
  <1>2. \A r, controls : Doing(r, "extracting", controls, [objects |-> Objects])'
    BY DEF Doing
  <1>3. /\ InCall("discovering", "Discover") /\ InCall("extracting", "Extract")
        /\ InCall("validating", "Validate") /\ InCall("listing", "Apply")
    BY DEF InCall
  <1>4. CASE BeginDiscover(s)
    BY <1>1, <1>3, <1>4, AwareBegins DEF BeginDiscover
  <1>5. CASE BeginExtract(s)
    BY <1>2, <1>3, <1>5, AwareBegins DEF BeginExtract
  <1>6. CASE BeginValidate(s)
    BY <1>1, <1>3, <1>6, AwareBegins DEF BeginValidate
  <1>7. CASE BeginApply(s)
    BY <1>1, <1>3, <1>7, AwareBegins DEF BeginApply
  <1> QED
    BY <1>4, <1>5, <1>6, <1>7

(* Calls that fail, and processes that die.                                 *)
LEMMA FailuresAware ==
  ASSUME Sound, Sound', Grows, SkippedOld, NEW s \in Sessions, Aware(s),
         FailConnection(s) \/ Refuse(s) \/ HandleError(s) \/ Unwind(s) \/ Crash(s)
  PROVE  Aware(s)'
  <1>1. ~At(s, "idle")
    BY DEF FailConnection, Refuse, HandleError, Unwind, Crash, Calls, At
  <1>2. Raise(s) \/ Unwinding(s) \/ session' = [session EXCEPT ![s] = Idle]
    BY DEF FailConnection, Refuse, HandleError, Unwind, Crash
  <1> QED
    BY <1>1, <1>2, AwareStops

(* discover(), and what execute() keeps of it.                              *)
LEMMA DiscoveryAware ==
  ASSUME Sound, Sound', Grows, SkippedOld, NEW s \in Sessions, Aware(s),
         EndDiscover(s) \/ KeepManifest(s)
  PROVE  Aware(s)'
  <1>0. PICK r, execute, controls, call :
           /\ r = session[s].run /\ execute = session[s].execute
           /\ controls = session[s].controls /\ call = Head(session[s].script)
    OBVIOUS
  <1>1. ~At(s, "idle") /\ session[s].at \in {"discovering", "keeping"}
    BY DEF EndDiscover, KeepManifest, At
  <1>2. call = "Discover"
    BY <1>0, <1>1, AwareAtWork DEF InCall
  <1>3. CASE Return(s)
    BY <1>0, <1>1, <1>2, <1>3, AwareReturns
  <1>4. CASE Raise(s) \/ Unwinding(s)
    BY <1>1, <1>4, AwareStops
  <1>5. ASSUME NEW capabilities, Goto(s, "keeping", capabilities) PROVE Aware(s)'
    <2>1. InCall("keeping", "Discover") /\ Doing(r, "keeping", controls, capabilities)'
      BY DEF InCall, Doing
    <2> QED
      BY <1>0, <1>1, <1>2, <1>5, <2>1, AwareGoes
  <1>6. PICK capabilities : capabilities = source.manifest
    OBVIOUS
  <1>7. Return(s) \/ Raise(s) \/ Unwinding(s) \/ Goto(s, "keeping", capabilities)
    BY <1>6 DEF EndDiscover, KeepManifest
  <1> QED
    BY <1>3, <1>4, <1>5, <1>7

(* apply_history_scope(), validate() and approve().                         *)
LEMMA ValidationAware ==
  ASSUME Sound, Sound', Grows, SkippedOld, NEW s \in Sessions, Aware(s),
         Scope(s) \/ EndValidate(s) \/ Approve(s)
  PROVE  Aware(s)'
  <1>0. PICK r, execute, controls, call :
           /\ r = session[s].run /\ execute = session[s].execute
           /\ controls = session[s].controls /\ call = Head(session[s].script)
    OBVIOUS
  <1>1. ~At(s, "idle")
    BY DEF Scope, EndValidate, Approve, Calls, At
  <1>2. call \in {"Scope", "Validate", "Approve"}
    <2>1. CASE Scope(s) \/ Approve(s)
      BY <1>0, <2>1 DEF Scope, Approve, Calls
    <2>2. CASE EndValidate(s)
      BY <1>0, <1>1, <2>2, AwareAtWork DEF EndValidate, At, InCall
    <2> QED
      BY <2>1, <2>2
  <1>3. CASE Return(s)
    BY <1>0, <1>1, <1>2, <1>3, AwareReturns
  <1>4. CASE Raise(s) \/ Unwinding(s)
    BY <1>1, <1>4, AwareStops
  <1>5. Return(s) \/ Raise(s) \/ Unwinding(s)
    BY DEF Scope, EndValidate, Approve, End
  <1> QED
    BY <1>3, <1>4, <1>5

(* execute() starts with discover(), and a script wherever it likes.        *)
LEMMA StartsAware ==
  ASSUME Sound, NEW s \in Sessions,
         \/ \E mode, controls : Execute(s, mode, controls)
         \/ \E r, controls, restart : \E first \in DOMAIN CutoverRun :
               Resume(s, r, first, controls, restart)
  PROVE  Aware(s)'
  <1>1. ASSUME NEW mode, NEW controls, Execute(s, mode, controls) PROVE Aware(s)'
    <2>1. PICK n, prior, script, c :
             /\ session' = [session EXCEPT ![s] = Working(n, TRUE, prior, c, FALSE, script)]
             /\ script \in {DryRun, CutoverRun}
      BY <1>1 DEF Execute
    <2>2. Ordered(script) /\ Head(script) = "Discover"
      BY <2>1, OrderedScripts
    <2> QED
      BY <2>1, <2>2, AwareStarts
  <1>2. ASSUME NEW r, NEW controls, NEW restart, NEW first \in DOMAIN CutoverRun,
               Resume(s, r, first, controls, restart)
        PROVE  Aware(s)'
    <2>1. PICK script :
             /\ session' = [session EXCEPT ![s] =
                               Working(r, FALSE, None, controls, restart, script)]
             /\ script = SubSeq(CutoverRun, first, Len(CutoverRun))
      BY <1>2 DEF Resume
    <2>2. Ordered(script)
      BY <2>1, OrderedScripts
    <2> QED
      BY <2>1, <2>2, AwareStarts
  <1> QED
    BY <1>1, <1>2

-----------------------------------------------------------------------------
(* The steps that do what the later calls rely on.                          *)

(* The objects before the first are the others.                             *)
LEMMA RangeOfHead ==
  ASSUME NEW S, NEW x \in Seq(S), x # <<>>, NEW o \in Range(x), o # Head(x)
  PROVE  o \in Range(Tail(x))
  <1>1. PICK i \in DOMAIN x : o = x[i]
    BY DEF Range
  <1>2. Len(x) \in Nat /\ DOMAIN x = 1..Len(x) /\ Len(x) # 0
    OBVIOUS
  <1>3. Head(x) = x[1]
    OBVIOUS
  <1>4. /\ Tail(x) \in Seq(S) /\ Len(Tail(x)) = Len(x) - 1
        /\ \A j \in 1..Len(Tail(x)) : Tail(x)[j] = x[j + 1]
    BY HeadTailProperties
  <1>5. i - 1 \in 1..Len(Tail(x)) /\ DOMAIN Tail(x) = 1..Len(Tail(x))
    BY <1>1, <1>2, <1>3, <1>4
  <1>6. Tail(x)[i - 1] = o
    BY <1>1, <1>2, <1>4, <1>5
  <1> QED
    BY <1>5, <1>6 DEF Range

(* When no object is left, every record is staged.                          *)
LEMMA ObjectsStaged ==
  ASSUME NEW r \in Runs, \A o \in Range(Objects) : ObjectStaged(r, o)
  PROVE  AllStaged(r)
  <1> SUFFICES ASSUME NEW k \in Records PROVE staged[r][k] # None
    BY DEF AllStaged
  <1>1. PICK o \in Range(Objects) : k \in Range(Content[o])
    BY DEF Records
  <1>2. PICK i \in DOMAIN Content[o] : k = Content[o][i]
    BY <1>1 DEF Range
  <1> QED
    BY <1>2 DEF ObjectStaged

(* extract() leaves an object behind when its checkpoint says it is done,   *)
(* and then its records are staged.                                         *)
LEMMA ExtractionAware ==
  ASSUME Sound, Sound', Grows, SkippedOld, NEW s \in Sessions, Aware(s),
         OpenObject(s) \/ FetchPage(s) \/ StagePage(s) \/ FinishExtract(s)
  PROVE  Aware(s)'
  <1>0. PICK r, execute, controls, call, local, objects :
           /\ r = session[s].run /\ execute = session[s].execute
           /\ controls = session[s].controls /\ call = Head(session[s].script)
           /\ local = session[s].local /\ objects = local.objects
    OBVIOUS
  <1> DEFINE Behind(list) ==
               \A o \in Range(Objects) : o \notin Range(list) => ObjectStaged(r, o)
  <1>1. ~At(s, "idle") /\ session[s].at \in {"extracting", "fetching", "staging"}
    BY DEF OpenObject, FetchPage, StagePage, FinishExtract, At
  <1>2. /\ call = "Extract" /\ r \in Runs
        /\ \A o \in Range(Objects) : o \notin Range(objects) => ObjectStaged(r, o)
        /\ Knows(r, session[s].at, local)
    BY <1>0, <1>1, AwareAtWork, AtWork DEF InCall, Doing, Sound
  <1>3. objects \in Seq(Range(Objects))
    BY <1>0, <1>1, <1>2 DEF Knows, Plain, ToExtract, ToFetch, ToStage, InObject
  <1>4. \A o \in Range(Objects) : o \notin Range(objects) => ObjectStaged(r, o)'
    BY <1>2, TablesStay
  <1>5. ASSUME NEW place \in {"fetching", "staging"}, NEW l, l.objects = objects, Goto(s, place, l)
        PROVE  Aware(s)'
    <2>1. InCall(place, "Extract")
      BY <1>5 DEF InCall
    <2>2. Doing(r, place, controls, l)'
      BY <1>4, <1>5 DEF Doing
    <2> QED
      BY <1>0, <1>1, <1>2, <1>5, <2>1, <2>2, AwareGoes
  <1>6. ASSUME Goto(s, "extracting", [objects |-> Tail(objects)]), objects # <<>>,
               ObjectStaged(r, Head(objects))'
        PROVE  Aware(s)'
    <2>1. PICK l : l = [objects |-> Tail(objects)]
      OBVIOUS
    <2>2. \A o \in Range(Objects) : o \notin Range(Tail(objects)) => ObjectStaged(r, o)'
      <3>1. ASSUME NEW o \in Range(Objects), o \notin Range(Tail(objects))
            PROVE  ObjectStaged(r, o)'
        <4>1. o = Head(objects) \/ o \notin Range(objects)
          BY <1>3, <1>6, <3>1, RangeOfHead
        <4> QED
          BY <1>4, <1>6, <4>1
      <3> QED
        BY <3>1
    <2>3. InCall("extracting", "Extract")
      BY DEF InCall
    <2>4. Doing(r, "extracting", controls, l)'
      BY <2>1, <2>2 DEF Doing
    <2> QED
      BY <1>0, <1>1, <1>2, <1>6, <2>1, <2>3, <2>4, AwareGoes
  <1>7. CASE OpenObject(s)
    <2>1. PICK mark : mark = checkpoint[r][Head(objects)]
      OBVIOUS
    <2>2. objects # <<>> /\ staged' = staged
      BY <1>0, <1>7 DEF OpenObject, records
    <2>3. CASE Goto(s, "extracting", [objects |-> Tail(objects)]) /\ mark # None /\ mark.completed
      <3>1. Head(objects) \in Range(Objects)
        BY <1>3, <2>2
      <3>2. ObjectStaged(r, Head(objects))
        BY <1>2, <2>1, <2>3, <3>1 DEF Sound, Tables, CheckpointCovers, ObjectStaged
      <3>3. ObjectStaged(r, Head(objects))'
        BY <2>2, <3>2 DEF ObjectStaged
      <3> QED
        BY <1>6, <2>2, <2>3, <3>3
    <2>4. ASSUME NEW cursor, Goto(s, "fetching", [objects |-> objects, cursor |-> cursor])
          PROVE  Aware(s)'
      BY <1>5, <2>4
    <2>5. \/ Goto(s, "extracting", [objects |-> Tail(objects)]) /\ mark # None /\ mark.completed
          \/ \E cursor : Goto(s, "fetching", [objects |-> objects, cursor |-> cursor])
      <3>1. PICK fresh : fresh = (session[s].restart \/ mark = None)
        OBVIOUS
      <3>2. CASE ~fresh /\ mark.completed
        BY <1>0, <1>7, <2>1, <3>1, <3>2 DEF OpenObject
      <3>3. CASE ~(~fresh /\ mark.completed)
        BY <1>0, <1>7, <2>1, <3>1, <3>3 DEF OpenObject
      <3> QED
        BY <3>2, <3>3
    <2> QED
      BY <2>3, <2>4, <2>5
  <1>8. CASE FetchPage(s)
    <2>1. PICK page :
             \/ Raise(s)
             \/ Goto(s, "staging", [objects |-> objects, cursor |-> local.cursor, page |-> page])
      BY <1>0, <1>8 DEF FetchPage
    <2>2. CASE Raise(s)
      BY <1>1, <2>2, AwareStops
    <2>3. CASE Goto(s, "staging", [objects |-> objects, cursor |-> local.cursor, page |-> page])
      BY <1>5, <2>3
    <2> QED
      BY <2>1, <2>2, <2>3
  <1>9. CASE StagePage(s)
    <2>1. ToStage(r, local)
      BY <1>2, <1>9 DEF StagePage, At, Knows, Plain
    <2>2. objects # <<>> /\ Head(objects) \in Range(Objects)
      BY <1>0, <1>3, <2>1 DEF ToStage, InObject
    <2>3. CASE Raise(s)
      BY <1>1, <2>3, AwareStops
    <2>4. PICK mark : mark = MarkAfter(Head(objects), local.cursor)
      OBVIOUS
    <2>5. CASE /\ checkpoint' = [checkpoint EXCEPT ![r][Head(objects)] = mark]
               /\ mark.completed /\ Goto(s, "extracting", [objects |-> Tail(objects)])
      <3>1. checkpoint'[r][Head(objects)] = mark
        BY <1>2, <2>2, <2>5 DEF Sound, Tables, MarksTyped
      <3>2. local.cursor \in Nat
        BY <2>1 DEF ToStage, InObject
      <3>3. mark # None
        BY <2>2, <2>4, <3>2, MarkIsTyped, NoRow
      <3>4. ObjectStaged(r, Head(objects))'
        BY <1>2, <2>2, <2>5, <3>1, <3>3 DEF Sound, Tables, CheckpointCovers, ObjectStaged
      <3> QED
        BY <1>6, <2>2, <2>5, <3>4
    <2>6. CASE Goto(s, "fetching", [objects |-> objects, cursor |-> mark.cursor])
      BY <1>5, <2>6
    <2>7. \/ Raise(s)
          \/ /\ checkpoint' = [checkpoint EXCEPT ![r][Head(objects)] = mark]
             /\ mark.completed /\ Goto(s, "extracting", [objects |-> Tail(objects)])
          \/ Goto(s, "fetching", [objects |-> objects, cursor |-> mark.cursor])
      BY <1>0, <1>9, <2>4 DEF StagePage
    <2> QED
      BY <2>3, <2>5, <2>6, <2>7
  <1>10. CASE FinishExtract(s)
    <2>1. objects = <<>>
      BY <1>0, <1>10 DEF FinishExtract
    <2>2. \A o \in Range(Objects) : ObjectStaged(r, o)
      BY <1>2, <2>1 DEF Range
    <2>3. AllStaged(r)'
      BY <1>2, <2>2, ObjectsStaged, TablesStay
    <2>4. PICK row : End(s, TRUE, row)
      BY <1>10 DEF FinishExtract
    <2> QED
      BY <1>0, <1>1, <1>2, <2>3, <2>4, AwareEnds
  <1> QED
    BY <1>7, <1>8, <1>9, <1>10

(* apply() posts the openings before it writes a transaction, and before it *)
(* is done.                                                                 *)
LEMMA ApplicationAware ==
  ASSUME Sound, Sound', Grows, SkippedOld, NEW s \in Sessions, Aware(s),
         ListRecords(s) \/ OpenStock(s) \/ OpenLedger(s) \/ LookUp(s) \/ Commit(s) \/ FinishApply(s)
  PROVE  Aware(s)'
  <1>0. PICK r, execute, controls, call, local :
           /\ r = session[s].run /\ execute = session[s].execute
           /\ controls = session[s].controls /\ call = Head(session[s].script)
           /\ local = session[s].local
    OBVIOUS
  <1>1. ~At(s, "idle") /\ session[s].at \in {"listing", "applying", "opening", "writing"}
    BY DEF ListRecords, OpenStock, OpenLedger, LookUp, Commit, FinishApply, At
  <1>2. /\ call = "Apply" /\ r \in Runs /\ OfOpening(controls)
        /\ Doing(r, session[s].at, controls, local) /\ Knows(r, session[s].at, local)
    BY <1>0, <1>1, AwareAtWork, AtWork DEF InCall, Sound
  <1>3. Posted(r, controls) => Posted(r, controls)'
    BY <1>2, TablesStay
  <1>4. /\ InCall("applying", "Apply") /\ InCall("opening", "Apply") /\ InCall("writing", "Apply")
    BY DEF InCall
  <1>5. ASSUME NEW l, Goto(s, "applying", l), l.opened => Posted(r, controls)'
        PROVE  Aware(s)'
    <2>1. Doing(r, "applying", controls, l)'
      BY <1>5 DEF Doing
    <2> QED
      BY <1>0, <1>1, <1>2, <1>4, <1>5, <2>1, AwareGoes
  <1>6. CASE ListRecords(s)
    <2>1. PICK rows : Goto(s, "applying", [records |-> rows, next |-> 1, opened |-> FALSE])
      BY <1>6 DEF ListRecords
    <2> QED
      BY <1>5, <2>1
  <1>7. CASE OpenStock(s)
    <2>1. CASE Raise(s)
      BY <1>1, <2>1, AwareStops
    <2>2. CASE PostOpening(s, "stock") /\ Goto(s, "opening", local)
      <3>1. UNCHANGED <<source, run, staged, checkpoint, crosswalk, manifest, effects, spent>>
        BY <1>7 DEF OpenStock
      <3>2. "stock" \in controls => openings'[r].stock = 1
        BY <1>0, <1>1, <2>2, <3>1, PartPosted
      <3>3. Doing(r, "opening", controls, local)'
        BY <3>2 DEF Doing
      <3> QED
        BY <1>0, <1>1, <1>2, <1>4, <2>2, <3>3, AwareGoes
    <2> QED
      BY <1>0, <1>7, <2>1, <2>2 DEF OpenStock
  <1>8. CASE OpenLedger(s)
    <2>1. CASE Raise(s)
      BY <1>1, <2>1, AwareStops
    <2>2. CASE /\ PostOpening(s, "ledger")
               /\ Goto(s, "applying", [records |-> local.records, next |-> local.next,
                                       opened |-> TRUE])
      <3>1. UNCHANGED <<source, run, staged, checkpoint, crosswalk, manifest, effects, spent>>
        BY <1>8 DEF OpenLedger
      <3>2. "ledger" \in controls => openings'[r].ledger = 1
        BY <1>0, <1>1, <2>2, <3>1, PartPosted
      <3>3. session[s].at = "opening"
        BY <1>8 DEF OpenLedger, At
      <3>4. controls # None /\ "stock" \in controls => openings'[r].stock = 1
        BY <1>2, <3>3 DEF Doing, Grows
      <3>5. ASSUME controls # None, NEW part \in controls PROVE openings'[r][part] = 1
        <4>1. part \in {"stock", "ledger"}
          BY <1>2, <3>5 DEF OfOpening
        <4>2. CASE part = "stock"
          BY <3>4, <3>5, <4>2
        <4>3. CASE part = "ledger"
          BY <3>2, <3>5, <4>3
        <4> QED
          BY <4>1, <4>2, <4>3
      <3>6. Posted(r, controls)'
        BY <3>5 DEF Posted
      <3> QED
        BY <1>5, <2>2, <3>6
    <2> QED
      BY <1>0, <1>8, <2>1, <2>2 DEF OpenLedger
  <1>9. CASE LookUp(s)
    <2>1. /\ session[s].at = "applying" /\ ToApply(r, local)
          /\ local.next <= Len(local.records) /\ ~OpeningDue(s, local)
      BY <1>0, <1>2, <1>9 DEF LookUp, At, Knows, Plain
    <2>2. local.opened => Posted(r, controls)'
      BY <1>2, <1>3, <2>1 DEF Doing
    <2>3. CASE Goto(s, "applying", [local EXCEPT !.next = @ + 1])
      <3>1. [local EXCEPT !.next = @ + 1].opened = local.opened
        BY <2>1 DEF ToApply
      <3> QED
        BY <1>5, <2>2, <2>3, <3>1
    <2>4. ASSUME NEW found,
                 Goto(s, "writing", [records |-> local.records, next |-> local.next,
                                     opened |-> local.opened, found |-> found])
          PROVE  Aware(s)'
      <3>1. PICK l : l = [records |-> local.records, next |-> local.next,
                          opened |-> local.opened, found |-> found]
        OBVIOUS
      <3>2. controls # None /\ ObjectOf[local.records[local.next].key] \in Transactional
               => local.opened
        BY <1>0, <2>1 DEF OpeningDue
      <3>3. Doing(r, "writing", controls, l)'
        BY <2>2, <3>1, <3>2 DEF Doing
      <3> QED
        BY <1>0, <1>1, <1>2, <1>4, <2>4, <3>1, <3>3, AwareGoes
    <2>5. PICK found : found = crosswalk[local.records[local.next].key]
      OBVIOUS
    <2> QED
      BY <1>0, <1>9, <2>3, <2>4, <2>5 DEF LookUp
  <1>10. CASE Commit(s)
    <2>1. session[s].at = "writing"
      BY <1>10 DEF Commit, At
    <2>2. local.opened => Posted(r, controls)'
      BY <1>2, <1>3, <2>1 DEF Doing
    <2>3. PICK next : Goto(s, "applying", [records |-> local.records, next |-> next,
                                           opened |-> local.opened])
      BY <1>0, <1>10 DEF Commit
    <2> QED
      BY <1>5, <2>2, <2>3
  <1>11. CASE FinishApply(s)
    <2>1. /\ session[s].at = "applying" /\ ToApply(r, local)
          /\ local.next > Len(local.records) /\ ~OpeningDue(s, local)
      BY <1>0, <1>2, <1>11 DEF FinishApply, At, Knows, Plain
    <2>2. ~(local.next <= Len(local.records))
      <3>1. Len(local.records) \in Nat /\ local.next \in Nat
        BY <2>1 DEF ToApply, InList
      <3> QED
        BY <2>1, <3>1
    <2>3. controls = None \/ local.opened
      BY <1>0, <2>1, <2>2 DEF OpeningDue
    <2>4. Posted(r, controls)'
      BY <1>2, <1>3, <2>1, <2>3 DEF Doing, Posted
    <2>5. PICK row : End(s, TRUE, row)
      BY <1>11 DEF FinishApply
    <2> QED
      BY <1>0, <1>1, <1>2, <2>4, <2>5, AwareEnds
  <1> QED
    BY <1>6, <1>7, <1>8, <1>9, <1>10, <1>11

(* An execution that counts no failure has imported what it had to.         *)
LEMMA ReconciliationAware ==
  ASSUME Sound, Sound', Grows, SkippedOld, NEW s \in Sessions, Aware(s), Reconciliation(s)
  PROVE  Aware(s)'
  <1>0. PICK r, execute, controls, call :
           /\ r = session[s].run /\ execute = session[s].execute
           /\ controls = session[s].controls /\ call = Head(session[s].script)
    OBVIOUS
  <1>1. ~At(s, "idle")
    BY DEF Reconciliation, Counts, BeginFinancials, EndFinancials, Calls, At
  <1>2. r \in Runs /\ run[r] # None /\ Done(r, execute, controls, call)
    BY <1>0, <1>1, AwareAtWork
  <1>3. CASE Counts(s)
    <2>1. call = "Counts"
      BY <1>0, <1>3 DEF Counts, Calls
    <2>2. PICK row : End(s, run[r].status = "Reconciling", row) /\ row.miscounted = Uncounted(r)
      <3> DEFINE outcome == IF session[s].execute THEN "Reconciling"
                            ELSE IF Uncounted(r) THEN "Failed" ELSE "Completed"
      <3>1. End(s, run[r].status = "Reconciling",
                [run[r] EXCEPT !.status = outcome, !.miscounted = Uncounted(r)])
        BY <1>0, <1>3 DEF Counts
      <3>2. run[r] \in RunRow
        BY <1>2 DEF Sound, RunsNumbered
      <3>3. [run[r] EXCEPT !.status = outcome, !.miscounted = Uncounted(r)].miscounted
               = Uncounted(r)
        BY <3>2 DEF RunRow
      <3> HIDE DEF outcome
      <3> QED
        BY <3>1, <3>3
    <2>3. ASSUME execute, run' = [run EXCEPT ![r] = row], ~run'[r].miscounted PROVE AllImported'
      <3>1. run'[r] = row
        BY <1>2, <2>3 DEF Sound, RunsNumbered
      <3>2. ~Uncounted(r) /\ AllStaged(r)
        BY <1>2, <2>1, <2>2, <2>3, <3>1 DEF Done
      <3> QED
        BY <1>2, <3>2, CountedMeansImported, TablesStay
    <2> QED
      BY <1>0, <1>1, <2>1, <2>2, <2>3, AwareEnds
  <1>4. CASE BeginFinancials(s)
    <2>1. call = "Financials"
      BY <1>0, <1>4 DEF BeginFinancials, Calls
    <2>2. CASE Raise(s)
      BY <1>1, <2>2, AwareStops
    <2>3. CASE Goto(s, "comparing", None)
      <3>1. InCall("comparing", "Financials") /\ Doing(r, "comparing", controls, None)'
        BY DEF InCall, Doing
      <3> QED
        BY <1>0, <1>1, <2>1, <2>3, <3>1, AwareGoes
    <2> QED
      BY <1>4, <2>2, <2>3 DEF BeginFinancials
  <1>5. CASE EndFinancials(s)
    <2>1. session[s].at = "comparing"
      BY <1>5 DEF EndFinancials, At
    <2>2. call = "Financials"
      BY <1>0, <1>1, <2>1, AwareAtWork DEF InCall
    <2>3. PICK row : End(s, TRUE, row)
      BY <1>5 DEF EndFinancials
    <2> QED
      BY <1>0, <1>1, <2>2, <2>3, AwareEnds
  <1> QED
    BY <1>3, <1>4, <1>5 DEF Reconciliation

(* A step of one session, for that session.                                 *)
LEMMA MoverAware ==
  ASSUME Sound, Sound', Grows, SkippedOld, NEW s \in Sessions, Aware(s),
         \/ QuietAction(s) \/ StagePage(s) \/ Scope(s) \/ EndValidate(s)
         \/ OpenStock(s) \/ OpenLedger(s) \/ Commit(s)
  PROVE  Aware(s)'
  <1>1. CASE BeginDiscover(s) \/ BeginExtract(s) \/ BeginValidate(s) \/ BeginApply(s)
    BY <1>1, BeginningsAware
  <1>2. CASE FailConnection(s) \/ Refuse(s) \/ HandleError(s) \/ Unwind(s) \/ Crash(s)
    BY <1>2, FailuresAware
  <1>3. CASE EndDiscover(s) \/ KeepManifest(s)
    BY <1>3, DiscoveryAware
  <1>4. CASE OpenObject(s) \/ FetchPage(s) \/ StagePage(s) \/ FinishExtract(s)
    BY <1>4, ExtractionAware
  <1>5. CASE Scope(s) \/ EndValidate(s) \/ Approve(s)
    BY <1>5, ValidationAware
  <1>6. CASE ListRecords(s) \/ OpenStock(s) \/ OpenLedger(s) \/ LookUp(s) \/ Commit(s)
             \/ FinishApply(s)
    BY <1>6, ApplicationAware
  <1>7. CASE Reconciliation(s)
    BY <1>7, ReconciliationAware
  <1> QED
    BY <1>1, <1>2, <1>3, <1>4, <1>5, <1>6, <1>7 DEF QuietAction, Discovery

(* It moves no other session.                                               *)
LEMMA OneMoves ==
  ASSUME Sound, NEW s \in Sessions,
         \/ QuietAction(s) \/ StagePage(s) \/ Scope(s) \/ EndValidate(s)
         \/ OpenStock(s) \/ OpenLedger(s) \/ Commit(s)
  PROVE  \A q \in Sessions \ {s} : session'[q] = session[q]
  <1>1. CASE QuietAction(s)
    BY <1>1, QuietActions DEF QuietStep, Moves
  <1>2. ASSUME NEW place, NEW local, Goto(s, place, local)
        PROVE  \A q \in Sessions \ {s} : session'[q] = session[q]
    BY <1>2 DEF Goto, Sound, SessionsSane
  <1>3. CASE Return(s)
    BY <1>3 DEF Return, Sound, SessionsSane
  <1>4. CASE Unwinding(s)
    BY <1>4 DEF Unwinding, Sound, SessionsSane
  <1>5. CASE Raise(s)
    BY <1>2, <1>4, <1>5 DEF Raise
  <1>6. CASE StagePage(s) \/ OpenStock(s) \/ OpenLedger(s) \/ Commit(s)
    <2>1. Raise(s) \/ \E place, local : Goto(s, place, local)
      BY <1>6 DEF StagePage, OpenStock, OpenLedger, Commit
    <2> QED
      BY <1>2, <1>5, <2>1
  <1>7. CASE Scope(s) \/ EndValidate(s)
    <2>1. Raise(s) \/ Return(s) \/ Unwinding(s)
      BY <1>7 DEF Scope, EndValidate
    <2> QED
      BY <1>3, <1>4, <1>5, <2>1
  <1> QED
    BY <1>1, <1>6, <1>7

(* Every session stays aware, whichever moves.                              *)
LEMMA CarefulStays ==
  ASSUME Sound, Careful, [Next]_vars
  PROVE  Careful'
  <1>1. Sound' /\ Grows /\ SkippedOld /\ \A s \in Sessions : Aware(s)
    BY NextSound DEF Careful
  <1>2. ASSUME session' = session, staged' = staged PROVE Careful'
    <2>1. \A s \in Sessions : Aware(s)'
      BY <1>1, <1>2, AwareStays
    <2>2. SkippedOld'
      BY <1>1, <1>2 DEF SkippedOld
    <2> QED
      BY <2>1, <2>2 DEF Careful
  <1>3. ASSUME NEW s \in Sessions, Aware(s)',
               \A q \in Sessions \ {s} : session'[q] = session[q], SkippedOld'
        PROVE  Careful'
    <2>1. ASSUME NEW q \in Sessions \ {s} PROVE Aware(q)'
      BY <1>1, <1>3, <2>1, AwareStays
    <2> QED
      BY <1>3, <2>1 DEF Careful
  <1>4. ASSUME NEW s \in Sessions,
               \/ \E mode, controls : Execute(s, mode, controls)
               \/ \E r, controls, restart : \E first \in DOMAIN CutoverRun :
                     Resume(s, r, first, controls, restart)
        PROVE  Careful'
    <2>1. Aware(s)'
      BY <1>4, StartsAware
    <2>2. staged' = staged /\ \E x : session' = [session EXCEPT ![s] = x]
      BY <1>4 DEF Execute, Resume, records
    <2>3. \A q \in Sessions \ {s} : session'[q] = session[q]
      BY <2>2 DEF Sound, SessionsSane
    <2>4. SkippedOld'
      BY <1>1, <2>2 DEF SkippedOld
    <2> QED
      BY <1>3, <2>1, <2>3, <2>4
  <1>5. ASSUME NEW s \in Sessions,
               \/ QuietAction(s) \/ StagePage(s) \/ Scope(s) \/ EndValidate(s)
               \/ OpenStock(s) \/ OpenLedger(s) \/ Commit(s)
        PROVE  Careful'
    <2>1. Aware(s)' /\ \A q \in Sessions \ {s} : session'[q] = session[q]
      BY <1>1, <1>5, MoverAware, OneMoves
    <2>2. CASE StagePage(s) \/ Scope(s) \/ EndValidate(s) \/ Commit(s)
      BY <1>1, <1>3, <2>1, <2>2, SkippedStays
    <2>3. CASE QuietAction(s) \/ OpenStock(s) \/ OpenLedger(s)
      <3>1. staged' = staged
        BY <2>3, QuietActions DEF QuietStep, records, OpenStock, OpenLedger
      <3>2. SkippedOld'
        BY <1>1, <3>1 DEF SkippedOld
      <3> QED
        BY <1>3, <2>1, <3>2
    <2> QED
      BY <1>5, <2>2, <2>3
  <1>6. CASE UNCHANGED vars \/ (\E r \in Runs : Failback(r)) \/ ChangeSource
    BY <1>2, <1>6 DEF vars, Failback, ChangeSource, records
  <1>7. ASSUME NEW s \in Sessions,
               Discovery(s) \/ Extraction(s) \/ Validation(s) \/ Application(s)
                   \/ Reconciliation(s) \/ HandleError(s) \/ Unwind(s) \/ Crash(s)
        PROVE  \/ QuietAction(s) \/ StagePage(s) \/ Scope(s) \/ EndValidate(s)
               \/ OpenStock(s) \/ OpenLedger(s) \/ Commit(s)
    BY <1>7 DEF QuietAction, Extraction, Validation, Application
  <1>8. ASSUME Next PROVE Careful'
    <2>1. CASE \E s \in Sessions, mode \in {"dry_run", "cutover"}, controls \in Controls :
                  Execute(s, mode, controls)
      BY <1>4, <2>1
    <2>2. CASE \E s \in Sessions, r \in Runs, first \in DOMAIN CutoverRun,
                  controls \in Controls \cup {None}, restart \in BOOLEAN :
                  Resume(s, r, first, controls, restart)
      BY <1>4, <2>2
    <2>3. CASE \E s \in Sessions :
                  Discovery(s) \/ Extraction(s) \/ Validation(s) \/ Application(s)
                      \/ Reconciliation(s) \/ HandleError(s) \/ Unwind(s) \/ Crash(s)
      BY <1>5, <1>7, <2>3
    <2>4. CASE (\E r \in Runs : Failback(r)) \/ ChangeSource
      BY <1>6, <2>4
    <2> QED
      BY <1>8, <2>1, <2>2, <2>3, <2>4 DEF Next
  <1> QED
    BY <1>6, <1>8

(* Nothing is skipped at the start but what is out of scope, and nobody     *)
(* works.                                                                   *)
LEMMA CarefulAtStart == Init => Careful
  <1> SUFFICES ASSUME Init PROVE Careful
    OBVIOUS
  <1>1. \A s \in Sessions : Aware(s)
    BY DEF Init, Aware
  <1>2. ASSUME NEW r \in Runs, NEW k \in Records, staged[r][k] # None,
               staged[r][k].status = "Skipped"
        PROVE  k \in OutOfScope
    <2>1. staged[r][k] = IF r > Rehearsed THEN None
                         ELSE [payload |-> source.payload[k],
                               status |-> IF k \in OutOfScope THEN "Skipped" ELSE "Valid"]
      BY DEF Init
    <2>2. staged[r][k].status = IF k \in OutOfScope THEN "Skipped" ELSE "Valid"
      BY <1>2, <2>1
    <2> QED
      BY <1>2, <2>2
  <1> QED
    BY <1>1, <1>2 DEF Careful, SkippedOld

(* Whatever crashes, resumes and works at once: no process writes a         *)
(* transaction before the openings it was given, and an execution that      *)
(* comes to compare the totals has posted all of its openings, staged the   *)
(* whole source and, unless a count has failed, imported all that is in     *)
(* scope (orchestrator.py, apply.py, reconcile.py).                         *)
THEOREM CutoverCorrect == Spec => []CutoverIsWhole
  <1>1. Sound /\ Careful => CutoverIsWhole
    <2> SUFFICES ASSUME Sound, Careful, NEW s \in Sessions
                 PROVE  LET me == session[s]
                        IN  /\ /\ At(s, "writing")
                               /\ ObjectOf[me.local.records[me.local.next].key] \in Transactional
                               => HasOpened(s)
                            /\ At(s, "comparing") /\ me.execute =>
                                  /\ HasOpened(s)
                                  /\ \A k \in Records : staged[me.run][k] # None
                                  /\ ~run[me.run].miscounted =>
                                        \A k \in Records \ (Cancelled \cup OutOfScope) :
                                           ObjectOf[k] \in Handled => effects[k] = 1
      BY DEF CutoverIsWhole
    <2>0. PICK r, execute, controls, call, local :
             /\ r = session[s].run /\ execute = session[s].execute
             /\ controls = session[s].controls /\ call = Head(session[s].script)
             /\ local = session[s].local
      OBVIOUS
    <2>1. HasOpened(s) <=> Posted(r, controls)
      BY <2>0 DEF HasOpened, Posted
    <2>2. ASSUME At(s, "writing"),
                 ObjectOf[local.records[local.next].key] \in Transactional
          PROVE  Posted(r, controls)
      <3>1. ~At(s, "idle") /\ session[s].at = "writing"
        BY <2>2 DEF At
      <3>2. Doing(r, "writing", controls, local)
        BY <2>0, <3>1, AwareAtWork DEF Careful
      <3> QED
        BY <2>2, <3>2 DEF Doing, Posted
    <2>3. ASSUME At(s, "comparing"), execute
          PROVE  Posted(r, controls) /\ AllStaged(r) /\ (~run[r].miscounted => AllImported)
      <3>1. ~At(s, "idle") /\ session[s].at = "comparing"
        BY <2>3 DEF At
      <3>2. InCall("comparing", call) /\ Done(r, execute, controls, call)
        BY <2>0, <3>1, AwareAtWork DEF Careful
      <3> QED
        BY <2>3, <3>2 DEF InCall, Done
    <2> QED
      BY <2>0, <2>1, <2>2, <2>3 DEF AllStaged, AllImported
  <1>2. Sound /\ Careful /\ [Next]_vars => Careful'
    BY CarefulStays
  <1> QED
    BY SoundAlways, CarefulAtStart, <1>1, <1>2, PTL DEF Spec

-----------------------------------------------------------------------------
(* The refinement of Cutover.                                               *)
(* A voucher is posted for the first time, or found posted.                 *)
LEMMA VoucherImplements ==
  ASSUME Sound, VoucherPosted
  PROVE  [Target!Next]_(Target!vars)
  <1>1. PICK r \in Runs, part \in {"stock", "ledger"} : Posts(r, part)
    BY DEF VoucherPosted
  <1>2. effects' = effects
    BY DEF VoucherPosted
  <1>3. /\ openings \in [Runs -> [stock : {0, 1}, ledger : {0, 1}]]
        /\ openings' = [openings EXCEPT ![r][part] = 1]
    BY <1>1 DEF Sound, OpeningsTyped, Posts
  <1>4. openings[r][part] \in {0, 1} /\ openings[r] = [openings[r] EXCEPT ![part] = @]
    BY <1>3
  <1>5. CASE openings[r][part] = 0
    <2>1. Target!Open(r, part)
      BY <1>2, <1>3, <1>5 DEF Target!Open
    <2> QED
      BY <2>1 DEF Target!Next
  <1>6. CASE openings[r][part] = 1
    <2>1. openings' = openings
      BY <1>3, <1>6
    <2> QED
      BY <1>2, <2>1 DEF Target!vars
  <1> QED
    BY <1>4, <1>5, <1>6

(* A record becomes a document, for the first time, and after those its     *)
(* references became.                                                       *)
LEMMA ImportImplements ==
  ASSUME Sound, RecordImported
  PROVE  [Target!Next]_(Target!vars)
  <1>1. PICK k \in Records : Imports(k)
    BY DEF RecordImported
  <1>2. openings' = openings
    BY DEF RecordImported
  <1>3. ASSUME NEW n \in Needs[k] \ Cancelled PROVE effects[n] = 1
    <2>1. n \in Records
      BY MigrationAssumption
    <2>2. crosswalk[n] # None /\ crosswalk[n].action = "Insert"
      BY <1>1, <2>1 DEF Imports, Sound, Tables, CrosswalkTyped
    <2> QED
      BY <2>1, <2>2 DEF Sound, Tables, CrosswalkIsTruth
  <1>4. Target!Import(k)
    BY <1>1, <1>2, <1>3 DEF Target!Import, Imports
  <1> QED
    BY <1>4 DEF Target!Next

(* Whatever crashes, is retried or runs twice: a source record becomes at   *)
(* most one document, after those it refers to, and a run posts each of its *)
(* opening balances at most once; neither is taken back (apply.py,          *)
(* reconcile.py).                                                           *)
THEOREM RunsImplementCutover == Spec => Implements
  <1>1. Init => Target!Init
    BY DEF Init, Target!Init
  <1>2. Sound /\ [Next]_vars => [Target!Next]_(Target!vars)
    BY NextSound, VoucherImplements, ImportImplements DEF Unseen, Target!vars
  <1> QED
    BY SoundAlways, <1>1, <1>2, PTL DEF Spec, Implements, Target!Spec
=============================================================================
