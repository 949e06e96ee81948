-------------------------------- MODULE ChannelProofs --------------------------------
(* Theorems about Channel, for any messages, demonstrations and bounds. *)
EXTENDS Channel, FiniteSetTheorems, WellFoundedInduction, TLAPS

-----------------------------------------------------------------------------
(* The latest of some events is a number *)

LEMMA LeastBound ==
    ASSUME NEW T, T \subseteq Nat, T # {}
    PROVE  \E x \in T : \A y \in T : x <= y
<1> DEFINE R == {ss \in Nat \X Nat : ss[1] < ss[2]}
<1>1. IsWellFoundedOn(R, Nat) BY NatLessThanWellFounded, Zenon DEF OpToRel
<1>2. \A x, y \in Nat : y < x => <<y, x>> \in R OBVIOUS
<1> HIDE DEF R
<1>3. \E x \in T : \A y \in T : ~(<<y, x>> \in R) BY <1>1, WFMin, Zenon
<1>4. PICK x \in T : \A y \in T : ~(<<y, x>> \in R) BY <1>3
<1>5. \A y \in T : y \in Nat /\ x \in Nat /\ ~(y < x) BY <1>2, <1>4
<1>6. \A y \in T : x <= y BY <1>5
<1> QED BY <1>4, <1>6

LEMMA LatestType == ASSUME NEW N \in Nat, NEW S, S \subseteq 1..N PROVE Latest(S) \in Nat
<1> DEFINE Bounds == {b \in Nat : \A i \in S : i <= b}
<1>1. Bounds \subseteq Nat /\ N \in Bounds OBVIOUS
<1>2. PICK b \in Bounds : \A y \in Bounds : b <= y BY <1>1, LeastBound
<1>3. b \in S \cup {0}
  <2> SUFFICES ASSUME b # 0, b \notin S PROVE FALSE OBVIOUS
  <2>1. b \in Nat /\ b - 1 \in Nat BY <1>2
  <2>2. \A i \in S : i \in Nat /\ i <= b /\ i # b BY <1>2
  <2>3. \A i \in S : i <= b - 1 BY <2>1, <2>2
  <2>4. b - 1 \in Bounds BY <2>1, <2>3
  <2>5. b <= b - 1 BY <1>2, <2>4
  <2> QED BY <2>1, <2>5
<1>4. \E n \in S \cup {0} : \A i \in S : i <= n BY <1>2, <1>3
<1>5. Latest(S) \in S \cup {0} BY <1>4 DEF Latest
<1>6. S \cup {0} \subseteq Nat OBVIOUS
<1> QED BY <1>5, <1>6

-----------------------------------------------------------------------------
(* The invariant *)

ProofJob ==
    [kind: {"request", "demonstration"},
     status: {"absent", "queued", "running", "shadowing"} \cup Terminal,
     source: Message \cup {None}, era: Nat, calls: Nat,
     approval: {"none", "authorized", "executing"},
     frames: Nat, reviews: Nat, reviewed: Nat, pending: Nat, unavailable: BOOLEAN]

Shape ==
    /\ employee \in [state: States, revision: Nat, era: Nat]
    /\ jobs \in [Id -> ProofJob]
    /\ log \in Seq(Event)
    /\ questions \in Seq(Question)
    /\ bridge \in Bridge
    /\ planner \in [step: {"idle", "thinking", "deciding", "asking"}, job: Id \cup {0}]
    /\ observer \in [step: {"idle", "capture", "look", "reserve", "infer"}, job: Id \cup {0}, seq: Nat]

\* Between its search and its end the bridge holds a message nobody else can deliver.
BridgeOK ==
    /\ bridge.step \in Receiving => bridge.message \in Spoken
    /\ bridge.step \in Receiving \ {"search"} => Delivered(bridge.message) = {}
    /\ bridge.step \in {"teach", "question", "guide"} => bridge.job \in Id
    /\ bridge.step \in {"open", "question", "guide"} => RequestOf(bridge.message) = {}

ActorsOK ==
    /\ planner.step # "idle" => /\ planner.job \in Id
                                /\ jobs[planner.job].kind = "request" /\ Exists(planner.job)
    /\ observer.step # "idle" => observer.job \in Id

KindsOK ==
    \A j \in Id : /\ jobs[j].status \in {"queued", "running"} => jobs[j].kind = "request"
                  /\ jobs[j].status = "shadowing" => jobs[j].kind = "demonstration"

EndedOK ==
    \A n \in DOMAIN log : log[n].kind = "mentor_outcome" =>
        jobs[log[n].job].kind = "demonstration" /\ jobs[log[n].job].status = "completed"

StaffOf(m) == {n \in Delivered(m) : log[n].kind = "staff_message"}

OnlyOne(R, S) == /\ \A i, j \in R : i = j
                 /\ \A n, k \in S : n = k
                 /\ R # {} => S = {}

MessagesOK == \A m \in Spoken : OnlyOne(RequestOf(m), StaffOf(m))

CInv == /\ Shape /\ BridgeOK /\ ActorsOK /\ KindsOK /\ EndedOK
        /\ MessagesOK /\ NothingAfterOutcome /\ OneOpenRequest /\ NeverResumed

-----------------------------------------------------------------------------
(* What a step may do to the jobs and to the log *)

Kept(i) ==
    /\ jobs'[i].kind = jobs[i].kind /\ jobs'[i].source = jobs[i].source /\ jobs'[i].era = jobs[i].era
    /\ \/ jobs'[i].status = jobs[i].status
       \/ Open(i) /\ jobs'[i].status \in Terminal
       \/ jobs[i].status = "queued" /\ jobs'[i].status = "running"

\* An event may be logged: no outcome came before, and a message of the channel is new.
Said(e) ==
    /\ e \in Event /\ log' = Append(log, e)
    /\ \A n \in DOMAIN log : log[n].kind = "mentor_outcome" => log[n].job # e.job
    /\ e.kind = "mentor_outcome" =>
          jobs'[e.job].kind = "demonstration" /\ jobs'[e.job].status = "completed"
    /\ e.message \in Spoken =>
          Delivered(e.message) = {} /\ (e.kind = "staff_message" => RequestOf(e.message) = {})

Quiet(b) == b.step \notin Receiving

LEMMA IdFacts == Id \subseteq Nat /\ 0 \notin Id
<1>1. Cardinality(Spoken) \in Nat BY FS_CardinalityType, WorkforceAssumption
<1>2. MaxJobs \in Nat BY <1>1, WorkforceAssumption DEF MaxJobs
<1> QED BY <1>2 DEF Id

LEMMA EventFacts ==
    ASSUME log \in Seq(Event)
    PROVE  \A n \in DOMAIN log : log[n] \in Event /\ log[n].job \in Id
<1>1. \A n \in DOMAIN log : log[n] \in Event OBVIOUS
<1>2. \A e \in Event : e.job \in Id BY DEF Event
<1> QED BY <1>1, <1>2

LEMMA LogFacts ==
    ASSUME log \in Seq(Event), NEW e \in Event, log' = Append(log, e)
    PROVE  /\ log' \in Seq(Event) /\ Len(log) \in Nat
           /\ DOMAIN log = 1..Len(log) /\ DOMAIN log' = 1..(Len(log) + 1)
           /\ \A n \in DOMAIN log : log'[n] = log[n]
           /\ log'[Len(log) + 1] = e
OBVIOUS

LEMMA DeliveredStep ==
    ASSUME log \in Seq(Event), NEW e, Said(e), NEW m
    PROVE  /\ e.message # m => Delivered(m)' = Delivered(m) /\ StaffOf(m)' = StaffOf(m)
           /\ e.kind # "staff_message" => StaffOf(m)' = StaffOf(m)
           /\ StaffOf(m)' \subseteq StaffOf(m) \cup {Len(log) + 1}
<1>1. e \in Event /\ log' = Append(log, e) BY DEF Said
<1> QED BY <1>1, LogFacts DEF Delivered, StaffOf

Logged == UNCHANGED log \/ \E e : Said(e)
Stays  == \A i \in Id : jobs[i].kind = "demonstration" /\ jobs[i].status = "completed" =>
                        jobs'[i].kind = "demonstration" /\ jobs'[i].status = "completed"

LEMMA LogStep ==
    ASSUME CInv, Stays, Logged
    PROVE  log' \in Seq(Event) /\ EndedOK' /\ NothingAfterOutcome'
<1> USE DEF CInv, Shape
<1>1. CASE UNCHANGED log
  <2>1. \A n \in DOMAIN log : log[n].job \in Id BY EventFacts
  <2> QED BY <1>1, <2>1 DEF EndedOK, NothingAfterOutcome, Stays
<1>2. ASSUME NEW e, Said(e) PROVE log' \in Seq(Event) /\ EndedOK' /\ NothingAfterOutcome'
  <2>1. e \in Event /\ log' = Append(log, e) BY <1>2 DEF Said
  <2>2. \A n \in DOMAIN log : log[n].job \in Id BY EventFacts
  <2>3. EndedOK'
    <3> SUFFICES ASSUME NEW n \in DOMAIN log', log'[n].kind = "mentor_outcome"
                 PROVE  jobs'[log'[n].job].kind = "demonstration" /\ jobs'[log'[n].job].status = "completed"
      BY DEF EndedOK
    <3>1. CASE n \in DOMAIN log BY <2>1, <2>2, <3>1, LogFacts DEF EndedOK, Stays
    <3>2. CASE n = Len(log) + 1 BY <1>2, <2>1, <3>2, LogFacts DEF Said
    <3> QED BY <2>1, <3>1, <3>2, LogFacts
  <2>4. NothingAfterOutcome'
    <3> SUFFICES ASSUME NEW n \in DOMAIN log', NEW k \in (n + 1)..Len(log'),
                        log'[n].kind = "mentor_outcome"
                 PROVE  log'[k].job # log'[n].job
      BY DEF NothingAfterOutcome
    <3>1. Len(log') = Len(log) + 1 /\ n \in 1..Len(log) /\ k \in 1..(Len(log) + 1) BY <2>1, LogFacts
    <3>2. CASE k = Len(log) + 1 BY <1>2, <2>1, <3>1, <3>2, LogFacts DEF Said
    <3>3. CASE k # Len(log) + 1
      <4>1. k \in (n + 1)..Len(log) /\ log'[k] = log[k] /\ log'[n] = log[n] BY <2>1, <3>1, <3>3, LogFacts
      <4> QED BY <2>1, <3>1, <4>1, LogFacts DEF NothingAfterOutcome
    <3> QED BY <3>2, <3>3
  <2> QED BY <2>1, <2>3, <2>4, LogFacts
<1> QED BY <1>1, <1>2 DEF Logged

LEMMA JobsKept ==
    ASSUME CInv, jobs' \in [Id -> ProofJob], \A i \in Id : Kept(i), UNCHANGED employee
    PROVE  /\ KindsOK' /\ OneOpenRequest' /\ NeverResumed' /\ Stays
           /\ \A m : RequestOf(m)' = RequestOf(m)
<1> USE DEF CInv, Kept, Open, Exists, Terminal
<1>1. KindsOK' BY DEF KindsOK
<1>2. OneOpenRequest' BY DEF OneOpenRequest, Serves
<1>3. NeverResumed' BY DEF NeverResumed
<1>4. Stays BY DEF Stays
<1>5. \A m : RequestOf(m)' = RequestOf(m) BY DEF RequestOf
<1> QED BY <1>1, <1>2, <1>3, <1>4, <1>5

\* A job is made in a place where there was none, a request only when nothing is open.
Made(j, row) ==
    /\ j \in Id /\ ~Exists(j) /\ row \in ProofJob /\ jobs' = [jobs EXCEPT ![j] = row]
    /\ row.status \in {"queued", "shadowing"} /\ row.era = employee.era
    /\ row.status = "queued" <=> row.kind = "request"
    /\ row.kind = "request" => \A i \in Id : ~Open(i)

LEMMA JobsMade ==
    ASSUME CInv, NEW j, NEW row, Made(j, row), UNCHANGED employee
    PROVE  /\ KindsOK' /\ OneOpenRequest' /\ NeverResumed' /\ Stays
           /\ jobs' \in [Id -> ProofJob]
           /\ \A i \in Id \ {j} : jobs'[i] = jobs[i]
           /\ \A m : RequestOf(m)' = IF row.kind = "request" /\ row.source = m
                                     THEN RequestOf(m) \cup {j} ELSE RequestOf(m)
<1> USE DEF CInv, Made
<1>1. jobs' \in [Id -> ProofJob] /\ jobs'[j] = row /\ \A i \in Id \ {j} : jobs'[i] = jobs[i]
  BY DEF Shape
<1> HIDE DEF Made
<1>2. /\ j \in Id /\ jobs[j].status = "absent" /\ row.status \in {"queued", "shadowing"}
      /\ row.era = employee.era /\ (row.status = "queued" <=> row.kind = "request")
      /\ row.kind \in {"request", "demonstration"}
      /\ row.kind = "request" => \A i \in Id : ~Open(i)
  BY DEF Made, Exists, ProofJob
<1>3. KindsOK' BY <1>1, <1>2 DEF KindsOK
<1>4. OneOpenRequest' BY <1>1, <1>2 DEF OneOpenRequest, Serves, Open, Exists
<1>5. NeverResumed' BY <1>1, <1>2 DEF NeverResumed, Open, Exists
<1>6. Stays BY <1>1, <1>2 DEF Stays
<1>7. \A m : RequestOf(m)' = IF row.kind = "request" /\ row.source = m
                             THEN RequestOf(m) \cup {j} ELSE RequestOf(m)
  BY <1>1, <1>2 DEF RequestOf, Exists
<1> QED BY <1>1, <1>3, <1>4, <1>5, <1>6, <1>7
\* The bridge, the planner and the observer go on with what there is.
Actors ==
    /\ bridge' \in Bridge
    /\ planner' \in [step: {"idle", "thinking", "deciding", "asking"}, job: Id \cup {0}]
    /\ observer' \in [step: {"idle", "capture", "look", "reserve", "infer"}, job: Id \cup {0}, seq: Nat]
    /\ planner'.step # "idle" => /\ planner'.job \in Id
                                 /\ jobs[planner'.job].kind = "request" /\ Exists(planner'.job)
    /\ observer'.step # "idle" => observer'.job \in Id

LEMMA ActorsStay ==
    ASSUME CInv
    PROVE  /\ UNCHANGED <<bridge, planner, observer>> => Actors
           /\ UNCHANGED <<planner, observer>> /\ bridge' = Idle => Actors
<1>1. Idle \in Bridge BY DEF Idle, Bridge, Receiving
<1> QED BY <1>1 DEF CInv, Shape, Actors, ActorsOK, Exists

\* The jobs go on or end and nothing is logged.
LEMMA EvolveStep ==
    ASSUME CInv, jobs' \in [Id -> ProofJob], \A i \in Id : Kept(i), questions' \in Seq(Question),
           UNCHANGED <<employee, log>>, Actors, bridge' = bridge \/ Quiet(bridge') \/ BridgeOK'
    PROVE  CInv'
<1>1. Logged BY DEF Logged
<1>2. /\ KindsOK' /\ OneOpenRequest' /\ NeverResumed' /\ Stays /\ \A m : RequestOf(m)' = RequestOf(m)
  BY JobsKept
<1>3. log' \in Seq(Event) /\ EndedOK' /\ NothingAfterOutcome' BY <1>1, <1>2, LogStep
<1>4. Shape' BY <1>3 DEF CInv, Shape, Actors
<1>5. ActorsOK' BY DEF Actors, ActorsOK, Kept, Open, Exists, Terminal
<1>6. \A m : Delivered(m)' = Delivered(m) /\ StaffOf(m)' = StaffOf(m) BY DEF Delivered, StaffOf
<1>7. MessagesOK'
  <2>1. MessagesOK BY DEF CInv
  <2> QED BY <1>2, <1>6, <2>1 DEF MessagesOK
<1>8. BridgeOK'
  <2>1. CASE bridge' = bridge
    <3>1. BridgeOK BY DEF CInv
    <3>2. Delivered(bridge.message)' = Delivered(bridge.message) BY <2>1, <1>6 DEF Delivered
    <3>3. RequestOf(bridge.message)' = RequestOf(bridge.message) BY <2>1, <1>2 DEF RequestOf
    <3> QED BY <2>1, <3>1, <3>2, <3>3 DEF BridgeOK
  <2>2. CASE Quiet(bridge') BY <2>2 DEF Quiet, BridgeOK, Receiving
  <2> QED BY <2>1, <2>2
<1> QED BY <1>2, <1>3, <1>4, <1>5, <1>7, <1>8 DEF CInv

\* The jobs go on or end and an event is logged.
LEMMA SayStep ==
    ASSUME CInv, jobs' \in [Id -> ProofJob], \A i \in Id : Kept(i), questions' \in Seq(Question),
           NEW e, Said(e), UNCHANGED employee, Actors,
           \/ bridge' = bridge /\ e.message \notin Spoken
           \/ Quiet(bridge')
    PROVE  CInv'
<1>1. Logged BY DEF Logged
<1>2. /\ KindsOK' /\ OneOpenRequest' /\ NeverResumed' /\ Stays /\ \A m : RequestOf(m)' = RequestOf(m)
  BY JobsKept
<1>3. log' \in Seq(Event) /\ EndedOK' /\ NothingAfterOutcome' BY <1>1, <1>2, LogStep
<1>4. Shape' BY <1>3 DEF CInv, Shape, Actors
<1>5. ActorsOK' BY DEF Actors, ActorsOK, Kept, Open, Exists, Terminal
<1>6. log \in Seq(Event) BY DEF CInv, Shape
<1>7. MessagesOK'
  <2> SUFFICES ASSUME NEW m \in Spoken PROVE OnlyOne(RequestOf(m)', StaffOf(m)')
    BY DEF MessagesOK
  <2>1. OnlyOne(RequestOf(m), StaffOf(m)) BY DEF CInv, MessagesOK
  <2>0. RequestOf(m)' = RequestOf(m) BY <1>2
  <2>2. CASE e.message # m
    <3>1. StaffOf(m)' = StaffOf(m) BY <1>6, <2>2, DeliveredStep
    <3> QED BY <2>0, <2>1, <3>1
  <2>3. CASE e.message = m
    <3>1. Delivered(m) = {} /\ (e.kind = "staff_message" => RequestOf(m) = {}) BY <2>3 DEF Said
    <3>2. StaffOf(m) = {} BY <3>1 DEF StaffOf
    <3>3. CASE e.kind = "staff_message"
      <4>1. StaffOf(m)' \subseteq {Len(log) + 1} BY <1>6, <3>2, DeliveredStep
      <4> QED BY <2>0, <3>1, <3>3, <4>1 DEF OnlyOne
    <3>4. CASE e.kind # "staff_message"
      <4>1. StaffOf(m)' = StaffOf(m) BY <1>6, <3>4, DeliveredStep
      <4> QED BY <2>0, <2>1, <4>1
    <3> QED BY <3>3, <3>4
  <2> QED BY <2>2, <2>3
<1>8. BridgeOK'
  <2>1. CASE bridge' = bridge /\ e.message \notin Spoken
    <3>1. BridgeOK BY DEF CInv
    <3>2. ASSUME bridge.message \in Spoken
          PROVE  Delivered(bridge.message)' = Delivered(bridge.message)
      <4>1. \A m : e.message # m => Delivered(m)' = Delivered(m) BY <1>6, DeliveredStep
      <4> QED BY <2>1, <3>2, <4>1 DEF Delivered
    <3>3. RequestOf(bridge.message)' = RequestOf(bridge.message) BY <2>1, <1>2 DEF RequestOf
    <3> QED BY <2>1, <3>1, <3>2, <3>3 DEF BridgeOK
  <2>2. CASE Quiet(bridge') BY <2>2 DEF Quiet, BridgeOK, Receiving
  <2> QED BY <2>1, <2>2
<1> QED BY <1>2, <1>3, <1>4, <1>5, <1>7, <1>8 DEF CInv
\* A job is made; the start of a demonstration is logged.
LEMMA MadeStep ==
    ASSUME CInv, NEW j, NEW row, Made(j, row), UNCHANGED <<employee, questions>>, Actors,
           \/ /\ row.kind = "request" /\ Quiet(bridge') /\ UNCHANGED log
              /\ RequestOf(row.source) = {} /\ Delivered(row.source) = {}
           \/ /\ row.kind = "demonstration" /\ bridge' = bridge
              /\ \E e : Said(e) /\ e.message = None
    PROVE  CInv'
<1>1. Logged BY DEF Logged
<1>2. /\ KindsOK' /\ OneOpenRequest' /\ NeverResumed' /\ Stays
      /\ jobs' \in [Id -> ProofJob]
      /\ \A i \in Id \ {j} : jobs'[i] = jobs[i]
      /\ \A m : RequestOf(m)' = IF row.kind = "request" /\ row.source = m
                                THEN RequestOf(m) \cup {j} ELSE RequestOf(m)
  BY JobsMade
<1>3. log' \in Seq(Event) /\ EndedOK' /\ NothingAfterOutcome' BY <1>1, <1>2, LogStep
<1>4. Shape' BY <1>2, <1>3 DEF CInv, Shape, Actors
<1>5. ActorsOK' BY <1>2 DEF Actors, ActorsOK, Made, Exists
<1>6. log \in Seq(Event) BY DEF CInv, Shape
<1>7. None \notin Spoken BY WorkforceAssumption DEF Message
<1>8. \A m \in Spoken : Delivered(m)' = Delivered(m) /\ StaffOf(m)' = StaffOf(m)
  <2>1. CASE UNCHANGED log BY <2>1 DEF Delivered, StaffOf
  <2>2. ASSUME NEW e, Said(e), e.message = None
        PROVE  \A m \in Spoken : Delivered(m)' = Delivered(m) /\ StaffOf(m)' = StaffOf(m)
    <3>1. \A m \in Spoken : e.message # m BY <1>7, <2>2
    <3> QED BY <1>6, <2>2, <3>1, DeliveredStep
  <2> QED BY <2>1, <2>2
<1>9. MessagesOK'
  <2> SUFFICES ASSUME NEW m \in Spoken PROVE OnlyOne(RequestOf(m)', StaffOf(m)')
    BY DEF MessagesOK
  <2>1. OnlyOne(RequestOf(m), StaffOf(m)) BY DEF CInv, MessagesOK
  <2>2. StaffOf(m)' = StaffOf(m) BY <1>8
  <2>3. CASE row.kind = "request" /\ row.source = m
    <3>1. RequestOf(m) = {} /\ Delivered(m) = {} BY <2>3
    <3>2. RequestOf(m)' = {j} BY <1>2, <2>3, <3>1
    <3>3. StaffOf(m) = {} BY <3>1 DEF StaffOf
    <3> QED BY <2>2, <3>2, <3>3 DEF OnlyOne
  <2>4. CASE ~(row.kind = "request" /\ row.source = m)
    <3>1. RequestOf(m)' = RequestOf(m) BY <1>2, <2>4
    <3> QED BY <2>1, <2>2, <3>1
  <2> QED BY <2>3, <2>4
<1>10. BridgeOK'
  <2>1. CASE bridge' = bridge /\ row.kind = "demonstration"
    <3>1. BridgeOK BY DEF CInv
    <3>2. ASSUME bridge.message \in Spoken
          PROVE  Delivered(bridge.message)' = Delivered(bridge.message)
      BY <2>1, <1>8, <3>2 DEF Delivered
    <3>3. RequestOf(bridge.message)' = RequestOf(bridge.message) BY <2>1, <1>2 DEF RequestOf
    <3> QED BY <2>1, <3>1, <3>2, <3>3 DEF BridgeOK
  <2>2. CASE Quiet(bridge') BY <2>2 DEF Quiet, BridgeOK, Receiving
  <2> QED BY <2>1, <2>2
<1> QED BY <1>2, <1>3, <1>4, <1>5, <1>9, <1>10 DEF CInv

\* Whatever happens in the console to the employee itself.
LEMMA EmployeeStep ==
    ASSUME CInv, jobs' \in [Id -> ProofJob], \A i \in Id : Kept(i), KindsOK', OneOpenRequest',
           NeverResumed', employee' \in [state: States, revision: Nat, era: Nat],
           UNCHANGED <<log, questions, bridge, planner, observer>>
    PROVE  CInv'
<1>1. Logged /\ Stays BY DEF Logged, Stays, Kept, Open, Terminal
<1>2. log' \in Seq(Event) /\ EndedOK' /\ NothingAfterOutcome' BY <1>1, LogStep
<1>3. Shape' BY <1>2 DEF CInv, Shape
<1>4. ActorsOK' BY DEF CInv, ActorsOK, Kept, Open, Exists, Terminal
<1>5. \A m : Delivered(m)' = Delivered(m) /\ StaffOf(m)' = StaffOf(m) BY DEF Delivered, StaffOf
<1>6. \A m : RequestOf(m)' = RequestOf(m) BY DEF RequestOf, Kept, Open, Exists, Terminal
<1>7. MessagesOK'
  <2>1. MessagesOK BY DEF CInv
  <2> QED BY <1>5, <1>6, <2>1 DEF MessagesOK
<1>8. BridgeOK'
  <2>1. BridgeOK BY DEF CInv
  <2>2. Delivered(bridge.message)' = Delivered(bridge.message) BY DEF Delivered
  <2>3. RequestOf(bridge.message)' = RequestOf(bridge.message) BY <1>6 DEF RequestOf
  <2> QED BY <2>1, <2>2, <2>3 DEF BridgeOK
<1> QED BY <1>2, <1>3, <1>4, <1>7, <1>8 DEF CInv
-----------------------------------------------------------------------------
(* What the actions have in common *)

LEMMA JobRow == ASSUME CInv, NEW j \in Id PROVE jobs[j] \in ProofJob
BY DEF CInv, Shape

LEMMA Untouched ==
    ASSUME CInv, UNCHANGED jobs PROVE jobs' \in [Id -> ProofJob] /\ \A i \in Id : Kept(i)
BY DEF CInv, Shape, Kept

LEMMA EditJob ==
    ASSUME CInv, NEW j \in Id, NEW row \in ProofJob, jobs' = [jobs EXCEPT ![j] = row],
           row.kind = jobs[j].kind, row.source = jobs[j].source, row.era = jobs[j].era,
           \/ row.status = jobs[j].status
           \/ Open(j) /\ row.status \in Terminal
           \/ jobs[j].status = "queued" /\ row.status = "running"
    PROVE  jobs' \in [Id -> ProofJob] /\ \A i \in Id : Kept(i)
BY DEF CInv, Shape, Kept

\* An event about a request, or about a demonstration that has no outcome.
LEMMA LogsSaid ==
    ASSUME CInv, NEW j \in Id, NEW kind, NEW m \in Message \cup {None}, Logs(j, kind, m),
           kind \in {"staff_message", "mentor_message", "assistant_message", "assistant_question",
                     "shadow_started", "shadow_observation", "shadow_notes", "shadow_unavailable",
                     "mentor_outcome"},
           jobs[j].kind = "request" \/ jobs[j].status # "completed",
           kind = "mentor_outcome" => jobs'[j].kind = "demonstration" /\ jobs'[j].status = "completed",
           m \in Spoken => Delivered(m) = {} /\ (kind = "staff_message" => RequestOf(m) = {})
    PROVE  \E e : Said(e) /\ e.message = m
<1> DEFINE e == [job |-> j, kind |-> kind, message |-> m]
<1>1. e \in Event BY DEF Event
<1>2. \A n \in DOMAIN log : log[n].kind = "mentor_outcome" => log[n].job # j
  BY DEF CInv, EndedOK
<1>3. Said(e) BY <1>1, <1>2 DEF Said, Logs
<1> QED BY <1>3

LEMMA Invalidated ==
    ASSUME CInv, NEW j \in Id
    PROVE  /\ Invalid(jobs[j]) \in ProofJob /\ Cancelled(jobs[j]) \in ProofJob
           /\ \A s \in Terminal : LET row == [Invalid(jobs[j]) EXCEPT !.status = s]
                                  IN  /\ row \in ProofJob /\ row.kind = jobs[j].kind
                                      /\ row.source = jobs[j].source /\ row.era = jobs[j].era
                                      /\ row.status = s
           /\ Invalid(jobs[j]).kind = jobs[j].kind /\ Invalid(jobs[j]).source = jobs[j].source
           /\ Invalid(jobs[j]).era = jobs[j].era /\ Invalid(jobs[j]).status = jobs[j].status
           /\ Cancelled(jobs[j]).kind = jobs[j].kind /\ Cancelled(jobs[j]).source = jobs[j].source
           /\ Cancelled(jobs[j]).era = jobs[j].era /\ Cancelled(jobs[j]).status = "cancelled"
BY JobRow DEF Invalid, Cancelled, ProofJob, Terminal

-----------------------------------------------------------------------------
(* The bridge *)

\* A step of the bridge that touches no table.
LEMMA BridgeStep ==
    ASSUME CInv, UNCHANGED <<conversationVars, planner, observer>>,
           NEW b \in Bridge,
           bridge' = b,
           b.step \in Receiving => b.message \in Spoken,
           b.step \in Receiving \ {"search"} => Delivered(b.message) = {},
           b.step \in {"teach", "question", "guide"} => b.job \in Id,
           b.step \in {"open", "question", "guide"} => RequestOf(b.message) = {}
    PROVE  CInv'
<1>1. UNCHANGED <<employee, jobs, lease, log, questions>> BY DEF conversationVars, workforceVars
<1>2. Actors BY <1>1 DEF CInv, Shape, Actors, ActorsOK
<1>3. Delivered(bridge.message)' = Delivered(b.message) BY <1>1 DEF Delivered
<1>4. RequestOf(bridge.message)' = RequestOf(b.message) BY <1>1 DEF RequestOf, Exists
<1>5. BridgeOK' BY <1>3, <1>4 DEF BridgeOK
<1>6. questions' \in Seq(Question) BY <1>1 DEF CInv, Shape
<1> QED BY <1>1, <1>2, <1>5, <1>6, Untouched, EvolveStep
LEMMA BridgeFacts ==
    ASSUME CInv
    PROVE  bridge \in Bridge /\ BridgeOK /\ Idle \in Bridge /\ Idle.step = "idle"
BY DEF CInv, Shape, Bridge, Receiving, Idle

LEMMA ArrivesStep == ASSUME CInv, NEW m \in Spoken, Arrives(m) PROVE CInv'
<1> DEFINE b == [Idle EXCEPT !.step = "search", !.message = m]
<1>1. b \in Bridge /\ b.step = "search" /\ b.message = m BY DEF Bridge, Receiving, Idle, Message
<1>2. bridge' = b /\ UNCHANGED <<conversationVars, planner, observer>> BY DEF Arrives
<1> HIDE DEF b
<1> QED BY <1>1, <1>2, BridgeStep DEF Bridge, Receiving

LEMMA IdleBridge ==
    ASSUME CInv, UNCHANGED <<conversationVars, planner, observer>>, bridge' = Idle PROVE CInv'
BY BridgeFacts, BridgeStep DEF Bridge, Receiving

LEMMA SearchStep == ASSUME CInv, Search PROVE CInv'
<1>0. UNCHANGED <<conversationVars, planner, observer>> /\ bridge.step = "search" BY DEF Search, aside
<1>1. CASE bridge' = Idle BY <1>0, <1>1, IdleBridge
<1>2. CASE bridge' # Idle
  <2>1. Delivered(bridge.message) = {}
        /\ \/ (\E j \in Id : Shown(j)) /\ bridge' = [bridge EXCEPT !.step = "teach", !.job = CHOOSE j \in Id : Shown(j)]
           \/ bridge' = [bridge EXCEPT !.step = "resolve"]
    BY <1>2 DEF Search
  <2>2. CASE bridge' = [bridge EXCEPT !.step = "resolve"]
    <3> DEFINE b == [bridge EXCEPT !.step = "resolve"]
    <3>1. b \in Bridge /\ b.step = "resolve" /\ b.message = bridge.message /\ b.message \in Spoken
      BY <1>0, BridgeFacts DEF Bridge, Receiving, BridgeOK
    <3> HIDE DEF b
    <3>2. bridge' = b BY <2>2 DEF b
    <3> QED BY <1>0, <2>1, <3>1, <3>2, BridgeStep DEF Bridge, Receiving
  <2>3. ASSUME NEW j \in Id, bridge' = [bridge EXCEPT !.step = "teach", !.job = j] PROVE CInv'
    <3> DEFINE b == [bridge EXCEPT !.step = "teach", !.job = j]
    <3>1. /\ b \in Bridge /\ b.step = "teach" /\ b.job = j
          /\ b.message = bridge.message /\ b.message \in Spoken
      BY <1>0, BridgeFacts DEF Bridge, Receiving, BridgeOK
    <3>2. bridge' = b BY <2>3
    <3> HIDE DEF b
    <3> QED BY <1>0, <2>1, <3>1, <3>2, BridgeStep DEF Bridge, Receiving
  <2>4. (\E j \in Id : Shown(j)) => (CHOOSE j \in Id : Shown(j)) \in Id OBVIOUS
  <2> QED BY <2>1, <2>2, <2>3, <2>4
<1> QED BY <1>1, <1>2

LEMMA TeachInChannelStep == ASSUME CInv, TeachInChannel PROVE CInv'
<1> DEFINE j == bridge.job
           m == bridge.message
<1>0. bridge.step = "teach" /\ bridge' = Idle /\ UNCHANGED <<planner, observer>>
  BY DEF TeachInChannel, aside
<1>1. j \in Id /\ m \in Spoken /\ m \in Message /\ Delivered(m) = {}
  BY <1>0, BridgeFacts DEF BridgeOK, Receiving, Message
<1>2. CASE UNCHANGED conversationVars BY <1>0, <1>2, IdleBridge
<1>3. CASE Shown(j) /\ Teach(j, m) /\ UNCHANGED questions
  <2>1. Logs(j, "mentor_message", m) /\ UNCHANGED <<employee, jobs, questions>> BY <1>3 DEF Teach
  <2>2. jobs[j].status # "completed" BY <1>3 DEF Shown
  <2>3. PICK e : Said(e) BY <1>1, <2>1, <2>2, LogsSaid
  <2>4. questions' \in Seq(Question) BY <2>1 DEF CInv, Shape
  <2>5. Actors /\ Quiet(bridge') BY <1>0, BridgeFacts, ActorsStay DEF Quiet, Receiving
  <2> QED BY <2>1, <2>3, <2>4, <2>5, Untouched, SayStep
<1> QED BY <1>2, <1>3 DEF TeachInChannel

LEMMA ResolveEmployeeStep == ASSUME CInv, ResolveEmployee PROVE CInv'
<1>0. UNCHANGED <<conversationVars, planner, observer>> /\ bridge.step = "resolve"
  BY DEF ResolveEmployee, aside
<1>1. CASE bridge' = Idle BY <1>0, <1>1, IdleBridge
<1>2. CASE bridge' = [bridge EXCEPT !.step = "create"]
  <2> DEFINE b == [bridge EXCEPT !.step = "create"]
  <2>1. b \in Bridge /\ b.step = "create" /\ b.message = bridge.message
        /\ b.message \in Spoken /\ Delivered(b.message) = {}
    BY <1>0, BridgeFacts DEF Bridge, Receiving, BridgeOK
  <2> HIDE DEF b
  <2>2. bridge' = b BY <1>2 DEF b
  <2> QED BY <1>0, <2>1, <2>2, BridgeStep DEF Bridge, Receiving
<1> QED BY <1>1, <1>2 DEF ResolveEmployee

LEMMA CreateStep == ASSUME CInv, Create PROVE CInv'
<1> DEFINE m == bridge.message
<1>0. bridge.step = "create" /\ UNCHANGED <<planner, observer>> BY DEF Create, aside
<1>1. m \in Spoken /\ m \in Message /\ Delivered(m) = {}
  BY <1>0, BridgeFacts DEF BridgeOK, Receiving, Message
<1>2. CASE CreateJob(m) /\ bridge' = Idle
  <2>1. PICK j \in Id : Free(j) /\ jobs' = [jobs EXCEPT ![j] = [NoJob EXCEPT !.status = "queued",
                                                      !.source = m, !.era = employee.era]]
    BY <1>2 DEF CreateJob
  <2> DEFINE row == [NoJob EXCEPT !.status = "queued", !.source = m, !.era = employee.era]
  <2>2. row \in ProofJob BY <1>1 DEF ProofJob, NoJob, CInv, Shape
  <2>3. row.kind = "request" /\ row.status = "queued" /\ row.source = m /\ row.era = employee.era
    BY DEF NoJob
  <2>4. jobs' = [jobs EXCEPT ![j] = row] BY <2>1
  <2> HIDE DEF row
  <2>5. Made(j, row) BY <1>2, <2>1, <2>2, <2>3, <2>4 DEF Made, Free, CreateJob
  <2>6. UNCHANGED <<employee, questions, log>> /\ RequestOf(m) = {} BY <1>2 DEF CreateJob
  <2>7. Actors /\ Quiet(bridge') BY <1>0, <1>2, BridgeFacts, ActorsStay DEF Quiet, Receiving
  <2> QED BY <1>1, <2>3, <2>5, <2>6, <2>7, MadeStep
<1>3. CASE bridge' = Idle /\ UNCHANGED conversationVars BY <1>0, <1>3, IdleBridge
<1>4. CASE IsActive(m) /\ bridge' = [bridge EXCEPT !.step = "open"] /\ UNCHANGED conversationVars
  <2> DEFINE b == [bridge EXCEPT !.step = "open"]
  <2>1. b \in Bridge /\ b.step = "open" /\ b.message = m BY BridgeFacts DEF Bridge, Receiving
  <2>2. RequestOf(m) = {} BY <1>4 DEF IsActive
  <2>3. bridge' = b BY <1>4
  <2> HIDE DEF b
  <2> QED BY <1>0, <1>1, <1>4, <2>1, <2>2, <2>3, BridgeStep DEF Bridge, Receiving
<1> QED BY <1>2, <1>3, <1>4 DEF Create

LEMMA FindOpenStep == ASSUME CInv, FindOpen PROVE CInv'
<1>0. UNCHANGED <<conversationVars, planner, observer>> /\ bridge.step = "open" BY DEF FindOpen, aside
<1>1. CASE bridge' = Idle BY <1>0, <1>1, IdleBridge
<1>2. ASSUME NEW j \in Id, bridge' = [bridge EXCEPT !.step = "question", !.job = j] PROVE CInv'
  <2> DEFINE b == [bridge EXCEPT !.step = "question", !.job = j]
  <2>1. /\ b \in Bridge /\ b.step = "question" /\ b.job = j
        /\ b.message = bridge.message
    BY <1>0, BridgeFacts DEF Bridge, Receiving
  <2>2. bridge' = b BY <1>2
  <2> HIDE DEF b
  <2>3. b.message \in Spoken /\ Delivered(b.message) = {} /\ RequestOf(b.message) = {}
    BY <1>0, <2>1, BridgeFacts DEF BridgeOK, Receiving
  <2> QED BY <1>0, <2>1, <2>2, <2>3, BridgeStep DEF Bridge, Receiving
<1> QED BY <1>1, <1>2 DEF FindOpen

LEMMA FindQuestionStep == ASSUME CInv, FindQuestion PROVE CInv'
<1>0. UNCHANGED <<conversationVars, planner, observer>> /\ bridge.step = "question"
  BY DEF FindQuestion, aside
<1>1. ASSUME NEW b \in Bridge, b.step = "guide", b.message = bridge.message, b.job = bridge.job,
             bridge' = b
      PROVE  CInv'
  <2>1. b.message \in Spoken /\ Delivered(b.message) = {} /\ RequestOf(b.message) = {} /\ b.job \in Id
    BY <1>0, <1>1, BridgeFacts DEF BridgeOK, Receiving
  <2> QED BY <1>0, <1>1, <2>1, BridgeStep DEF Receiving
<1>2. ASSUME NEW q \in Nat, bridge' = [bridge EXCEPT !.step = "guide", !.reply = q] PROVE CInv'
  <2> DEFINE b == [bridge EXCEPT !.step = "guide", !.reply = q]
  <2>1. b \in Bridge /\ b.step = "guide" /\ b.message = bridge.message /\ b.job = bridge.job
    BY BridgeFacts DEF Bridge, Receiving
  <2>2. bridge' = b BY <1>2
  <2> HIDE DEF b
  <2> QED BY <1>1, <2>1, <2>2
<1>3. CASE bridge' = [bridge EXCEPT !.step = "guide"]
  <2> DEFINE b == [bridge EXCEPT !.step = "guide"]
  <2>1. b \in Bridge /\ b.step = "guide" /\ b.message = bridge.message /\ b.job = bridge.job
    BY BridgeFacts DEF Bridge, Receiving
  <2>2. bridge' = b BY <1>3
  <2> HIDE DEF b
  <2> QED BY <1>1, <2>1, <2>2
<1>4. Waiting(bridge.job) \subseteq Nat BY DEF Waiting, CInv, Shape
<1> QED BY <1>2, <1>3, <1>4 DEF FindQuestion

\* Guidance, from the channel or from the console.
LEMMA GuideStep ==
    ASSUME CInv, NEW j \in Id, NEW m \in Message, NEW reply, Guide(j, m, reply),
           m \in Spoken => Delivered(m) = {} /\ RequestOf(m) = {}, Actors,
           (bridge' = bridge /\ m \notin Spoken) \/ Quiet(bridge')
    PROVE  CInv'
<1>1. Open(j) /\ (reply # 0 => reply \in Waiting(j)) /\ Logs(j, "staff_message", m) /\ UNCHANGED employee
  BY DEF Guide, MayGuide
<1>2. jobs' = [jobs EXCEPT ![j] = Invalid(jobs[j])] BY DEF Guide
<1>3. jobs' \in [Id -> ProofJob] /\ \A i \in Id : Kept(i) BY <1>2, Invalidated, EditJob
<1>4. PICK e : Said(e) /\ e.message = m BY <1>1, LogsSaid DEF Open, Terminal
<1>5. questions' \in Seq(Question)
  <2>1. CASE reply = 0 BY <2>1 DEF Guide, CInv, Shape
  <2>2. CASE reply # 0
    <3>1. reply \in DOMAIN questions /\ questions \in Seq(Question) BY <1>1, <2>2 DEF Waiting, CInv, Shape
    <3>2. [questions[reply] EXCEPT !.status = "answered", !.answer = m] \in Question
      <4>1. questions[reply] \in Question BY <3>1
      <4> QED BY <4>1 DEF Question
    <3> QED BY <2>2, <3>1, <3>2 DEF Guide
  <2> QED BY <2>1, <2>2
<1> QED BY <1>1, <1>3, <1>4, <1>5, SayStep

LEMMA GuideInChannelStep == ASSUME CInv, GuideInChannel PROVE CInv'
<1>0. bridge.step = "guide" /\ bridge' = Idle /\ UNCHANGED <<planner, observer>>
  BY DEF GuideInChannel, aside
<1>1. bridge.job \in Id /\ bridge.message \in Spoken /\ bridge.message \in Message
      /\ Delivered(bridge.message) = {} /\ RequestOf(bridge.message) = {}
  BY <1>0, BridgeFacts DEF Bridge, Receiving, BridgeOK, Message
<1>2. Actors /\ Quiet(bridge') BY <1>0, BridgeFacts, ActorsStay DEF Quiet, Receiving
<1>3. CASE UNCHANGED conversationVars BY <1>0, <1>3, IdleBridge
<1>4. CASE Guide(bridge.job, bridge.message, bridge.reply) BY <1>1, <1>2, <1>4, GuideStep
<1> QED BY <1>3, <1>4 DEF GuideInChannel

LEMMA CollectedFacts ==
    ASSUME CInv, bridge.step = "gather", NEW j, NEW found \in SUBSET Nat
    PROVE  Collected(j, found) \in Bridge /\ Quiet(Collected(j, found))
<1> DEFINE more == [bridge EXCEPT !.listed = bridge.listed \ {j}, !.batch = found]
           ends == [Idle EXCEPT !.step = "post", !.batch = found]
<1>1. more \in Bridge /\ Quiet(more) BY BridgeFacts DEF Bridge, Receiving, Quiet
<1>2. ends \in Bridge /\ Quiet(ends) BY DEF Idle, Bridge, Receiving, Quiet
<1>3. Idle \in Bridge /\ Quiet(Idle) BY BridgeFacts DEF Quiet, Receiving
<1> QED BY <1>1, <1>2, <1>3 DEF Collected

LEMMA PostingStep ==
    ASSUME CInv, Deliver \/ CrashBridge PROVE CInv'
<1>0. UNCHANGED <<conversationVars, planner, observer>>
  BY DEF Deliver, Gather, GatherJob, Post, PostUnanswered, Hold, RecordDelivery, CrashBridge, aside
<1>1. CASE bridge' = Idle BY <1>0, <1>1, IdleBridge
<1>2. ASSUME NEW b \in Bridge, bridge' = b, Quiet(b) PROVE CInv'
  BY <1>0, <1>2, BridgeStep DEF Receiving, Quiet
<1>3. CASE Gather
  <2> DEFINE b == [Idle EXCEPT !.step = "gather", !.listed = {j \in Id : Exists(j)}]
  <2>1. b \in Bridge /\ Quiet(b) BY DEF Idle, Bridge, Receiving, Quiet
  <2>2. bridge' = b BY <1>3 DEF Gather
  <2> HIDE DEF b
  <2> QED BY <1>2, <2>1, <2>2
<1>4. CASE GatherJob
  <2>1. PICK j \in bridge.listed : bridge' = Collected(j, bridge.batch \cup UnsentOf(j))
    BY <1>4 DEF GatherJob
  <2>2. bridge.batch \cup UnsentOf(j) \subseteq Nat
    <3>1. Unsent \subseteq Nat BY DEF Unsent, CInv, Shape
    <3> QED BY <3>1, BridgeFacts DEF Bridge, UnsentOf
  <2> QED BY <1>2, <1>4, <2>1, <2>2, CollectedFacts DEF GatherJob
<1>5. CASE Post
  <2>1. [bridge EXCEPT !.step = "record"] \in Bridge BY BridgeFacts DEF Bridge, Receiving
  <2>2. Quiet([bridge EXCEPT !.step = "record"]) BY BridgeFacts DEF Quiet, Bridge, Receiving
  <2> QED BY <1>2, <1>5, <2>1, <2>2 DEF Post
<1>6. CASE RecordDelivery
  <2> DEFINE b == [bridge EXCEPT !.step = "post", !.batch = @ \ {Item}]
  <2>1. b \in Bridge BY BridgeFacts DEF Bridge, Receiving
  <2>2. Quiet(b) BY BridgeFacts DEF Quiet, Bridge, Receiving
  <2>3. bridge' = Idle \/ bridge' = b BY <1>6 DEF RecordDelivery, NextItem
  <2> HIDE DEF b
  <2> QED BY <1>1, <1>2, <2>1, <2>2, <2>3
<1> QED BY <1>1, <1>3, <1>4, <1>5, <1>6 DEF Deliver, Hold, PostUnanswered, CrashBridge

-----------------------------------------------------------------------------
(* The console *)

LEMMA NotSpoken == None \notin Spoken /\ \A m \in Written : m \notin Spoken /\ m \in Message
BY WorkforceAssumption DEF Message

LEMMA TeachStep ==
    ASSUME CInv, NEW j \in Id, Teach(j, None), UNCHANGED <<questions, bridge, planner, observer>>
    PROVE  CInv'
<1>1. Logs(j, "mentor_message", None) /\ jobs[j].status # "completed" /\ UNCHANGED <<employee, jobs>>
  BY DEF Teach, Shown
<1>2. PICK e : Said(e) /\ e.message = None BY <1>1, NotSpoken, LogsSaid
<1>3. questions' \in Seq(Question) BY DEF CInv, Shape
<1> QED BY <1>1, <1>2, <1>3, NotSpoken, Untouched, ActorsStay, SayStep

LEMMA WriteStep == ASSUME CInv, NEW m \in Written, Write(m) PROVE CInv'
<1>1. UNCHANGED <<bridge, planner, observer>> BY DEF Write, staffVars
<1>2. ASSUME NEW j \in Id, NEW reply, Guide(j, m, reply) PROVE CInv'
  BY <1>1, <1>2, NotSpoken, ActorsStay, GuideStep
<1>3. ASSUME NEW j \in Id, Teach(j, None), UNCHANGED questions PROVE CInv'
  BY <1>1, <1>3, TeachStep
<1> QED BY <1>2, <1>3 DEF Write

LEMMA StopStep ==
    ASSUME CInv, NEW j \in Id, Stop(j), UNCHANGED <<bridge, planner, observer>> PROVE CInv'
<1>1. Open(j) /\ jobs' = [jobs EXCEPT ![j] = Cancelled(jobs[j])] /\ UNCHANGED <<employee, log, questions>>
  BY DEF Stop
<1>2. jobs' \in [Id -> ProofJob] /\ \A i \in Id : Kept(i) BY <1>1, Invalidated, EditJob DEF Terminal
<1>3. questions' \in Seq(Question) BY <1>1 DEF CInv, Shape
<1> QED BY <1>1, <1>2, <1>3, ActorsStay, EvolveStep

LEMMA StartDemonstrationStep ==
    ASSUME CInv, NEW j \in Id, StartDemonstration(j), UNCHANGED <<questions, bridge, planner, observer>>
    PROVE  CInv'
<1> DEFINE row == [NoJob EXCEPT !.kind = "demonstration", !.status = "shadowing", !.era = employee.era]
<1>1. row \in ProofJob BY DEF ProofJob, NoJob, CInv, Shape
<1>2. row.kind = "demonstration" /\ row.status = "shadowing" /\ row.era = employee.era BY DEF NoJob
<1>3. ~Exists(j) /\ jobs' = [jobs EXCEPT ![j] = row] /\ Logs(j, "shadow_started", None)
      /\ UNCHANGED employee
  BY DEF StartDemonstration, Free
<1> HIDE DEF row
<1>4. Made(j, row) BY <1>1, <1>2, <1>3 DEF Made
<1>5. \E e : Said(e) /\ e.message = None BY <1>3, NotSpoken, LogsSaid DEF Exists
<1> QED BY <1>2, <1>3, <1>4, <1>5, ActorsStay, MadeStep

LEMMA FinishDemonstrationStep ==
    ASSUME CInv, NEW j \in Id, FinishDemonstration(j), UNCHANGED <<questions, bridge, planner, observer>>
    PROVE  CInv'
<1> DEFINE row == [jobs[j] EXCEPT !.status = "completed"]
<1>0. jobs[j].kind = "demonstration" /\ jobs[j].status = "shadowing"
  BY DEF FinishDemonstration, Shown, CInv, KindsOK
<1>1. /\ row \in ProofJob /\ row.kind = jobs[j].kind /\ row.source = jobs[j].source
      /\ row.era = jobs[j].era /\ row.status = "completed"
  BY JobRow DEF ProofJob, Terminal
<1>2. jobs' = [jobs EXCEPT ![j] = row] /\ Logs(j, "mentor_outcome", None) /\ UNCHANGED employee
  BY DEF FinishDemonstration
<1> HIDE DEF row
<1>3. jobs' \in [Id -> ProofJob] /\ \A i \in Id : Kept(i)
  BY <1>0, <1>1, <1>2, EditJob DEF Open, Exists, Terminal
<1>4. jobs'[j] = row BY <1>2 DEF CInv, Shape
<1>5. PICK e : Said(e) /\ e.message = None BY <1>0, <1>1, <1>2, <1>4, NotSpoken, LogsSaid
<1>6. questions' \in Seq(Question) BY DEF CInv, Shape
<1> QED BY <1>2, <1>3, <1>5, <1>6, NotSpoken, ActorsStay, SayStep

\* A change of state leaves nothing open, a pause may; neither brings anything back.
LEMMA ChangeStep ==
    ASSUME CInv, NEW state \in States, Change(state), UNCHANGED <<questions, bridge, planner, observer>>
    PROVE  CInv'
<1>1. /\ employee'.state = state /\ employee' \in [state: States, revision: Nat, era: Nat]
      /\ employee'.era = IF state = employee.state THEN employee.era ELSE employee.era + 1
  BY DEF Change, Becomes, CInv, Shape
<1>2. UNCHANGED <<log, questions, bridge, planner, observer>> BY DEF Change
<1>3. CASE state = employee.state
  <2>1. UNCHANGED jobs BY <1>3 DEF Change
  <2>2. KindsOK' /\ OneOpenRequest' BY <2>1 DEF CInv, KindsOK, OneOpenRequest, Serves, Open, Exists
  <2>3. NeverResumed' BY <1>1, <1>3, <2>1 DEF CInv, NeverResumed, Open, Exists
  <2> QED BY <1>1, <1>2, <2>1, <2>2, <2>3, Untouched, EmployeeStep
<1>4. CASE state # employee.state
  <2>1. jobs' = [i \in Id |-> IF Open(i) THEN Cancelled(jobs[i]) ELSE jobs[i]] BY <1>4 DEF Change
  <2>2. \A i \in Id : /\ jobs'[i] \in ProofJob /\ Kept(i) /\ ~Open(i)'
                      /\ (Open(i) => jobs'[i].status = "cancelled") /\ (~Open(i) => jobs'[i] = jobs[i])
    <3> SUFFICES ASSUME NEW i \in Id
                 PROVE  /\ jobs'[i] \in ProofJob /\ Kept(i) /\ ~Open(i)'
                        /\ (Open(i) => jobs'[i].status = "cancelled") /\ (~Open(i) => jobs'[i] = jobs[i])
      OBVIOUS
    <3>1. CASE Open(i)
      <4>1. jobs'[i] = Cancelled(jobs[i]) BY <2>1, <3>1
      <4> QED BY <3>1, <4>1, Invalidated DEF Kept, Open, Exists, Terminal
    <3>2. CASE ~Open(i)
      <4>1. jobs'[i] = jobs[i] BY <2>1, <3>2
      <4> QED BY <3>2, <4>1, JobRow DEF Kept, Open, Exists
    <3> QED BY <3>1, <3>2
  <2>3. jobs' \in [Id -> ProofJob] BY <2>1, <2>2
  <2>4. KindsOK' BY <2>2 DEF CInv, KindsOK
  <2>5. OneOpenRequest' /\ NeverResumed' BY <2>2 DEF OneOpenRequest, Serves, NeverResumed
  <2> QED BY <1>1, <1>2, <2>2, <2>3, <2>4, <2>5, EmployeeStep
<1> QED BY <1>3, <1>4

LEMMA ScopeChangedStep ==
    ASSUME CInv, ScopeChanged, UNCHANGED <<questions, bridge, planner, observer>> PROVE CInv'
<1>1. /\ employee'.state = "paused" /\ employee' \in [state: States, revision: Nat, era: Nat]
  BY DEF ScopeChanged, Becomes, CInv, Shape, States
<1>2. UNCHANGED <<jobs, log, questions, bridge, planner, observer>> BY DEF ScopeChanged
<1>3. KindsOK' /\ OneOpenRequest' BY <1>2 DEF CInv, KindsOK, OneOpenRequest, Serves, Open, Exists
<1>4. NeverResumed' BY <1>1 DEF NeverResumed
<1> QED BY <1>1, <1>2, <1>3, <1>4, Untouched, EmployeeStep

LEMMA ConsoleStep == ASSUME CInv, Console PROVE CInv'
<1>1. UNCHANGED <<bridge, planner, observer>> BY DEF Console, staffVars
<1> QED BY <1>1, StopStep, StartDemonstrationStep, FinishDemonstrationStep, ChangeStep,
           ScopeChangedStep DEF Console
-----------------------------------------------------------------------------
(* The planner *)

LEMMA PlannerFacts ==
    ASSUME CInv
    PROVE  /\ planner \in [step: {"idle", "thinking", "deciding", "asking"}, job: Id \cup {0}]
           /\ planner.step # "idle" => planner.job \in Id /\ jobs[planner.job].kind = "request"
                                       /\ Exists(planner.job)
           /\ questions \in Seq(Question)
BY DEF CInv, Shape, ActorsOK

\* The planner turns to a request.
LEMMA PlannerTurns ==
    ASSUME CInv, NEW j \in Id, NEW s \in {"thinking", "deciding", "asking"},
           planner' = [step |-> s, job |-> j], jobs[j].kind = "request", Exists(j),
           UNCHANGED <<bridge, observer>>
    PROVE  Actors
BY DEF CInv, Shape, ActorsOK, Actors, Exists

LEMMA PlannerRests ==
    ASSUME CInv, planner' = Resting \/ planner' = planner, UNCHANGED <<bridge, observer>>
    PROVE  Actors
BY DEF CInv, Shape, ActorsOK, Actors, Exists, Resting

LEMMA WorksFacts ==
    ASSUME CInv, NEW j \in Id, Works(j)
    PROVE  jobs[j].status = "running" /\ jobs[j].kind = "request" /\ Exists(j) /\ Open(j)
BY DEF CInv, Works, KindsOK, Exists, Open, Terminal

LEMMA ClaimStep == ASSUME CInv, Claim PROVE CInv'
<1>1. PICK j \in Id : jobs[j].status = "queued" /\ jobs' = [jobs EXCEPT ![j].status = "running"]
  BY DEF Claim
<1> DEFINE row == [jobs[j] EXCEPT !.status = "running"]
<1>2. /\ row \in ProofJob /\ row.kind = jobs[j].kind /\ row.source = jobs[j].source
      /\ row.era = jobs[j].era /\ row.status = "running"
  BY JobRow DEF ProofJob
<1>3. jobs' = [jobs EXCEPT ![j] = row] BY <1>1
<1> HIDE DEF row
<1>4. jobs' \in [Id -> ProofJob] /\ \A i \in Id : Kept(i) BY <1>1, <1>2, <1>3, EditJob
<1>5. UNCHANGED <<employee, log, questions, bridge, planner, observer>> BY DEF Claim, channelVars
<1> QED BY <1>4, <1>5, PlannerFacts, ActorsStay, EvolveStep

\* A request ends in a state that is final.
LEMMA EndsStep ==
    ASSUME CInv, NEW j \in Id, NEW s \in Terminal, Works(j),
           jobs' = [jobs EXCEPT ![j] = [Invalid(jobs[j]) EXCEPT !.status = s]],
           planner' = Resting \/ planner' = planner,
           UNCHANGED <<employee, log, questions, bridge, observer>>
    PROVE  CInv'
<1> DEFINE row == [Invalid(jobs[j]) EXCEPT !.status = s]
<1>1. /\ row \in ProofJob /\ row.kind = jobs[j].kind /\ row.source = jobs[j].source
      /\ row.era = jobs[j].era /\ row.status = s
  BY Invalidated
<1>2. jobs' = [jobs EXCEPT ![j] = row] OBVIOUS
<1> HIDE DEF row
<1>3. jobs' \in [Id -> ProofJob] /\ \A i \in Id : Kept(i) BY <1>1, <1>2, WorksFacts, EditJob
<1> QED BY <1>3, PlannerFacts, PlannerRests, EvolveStep

LEMMA ChargedRow ==
    ASSUME CInv, NEW j \in Id
    PROVE  LET row == Charged(jobs[j])
           IN  /\ row \in ProofJob /\ row.kind = jobs[j].kind /\ row.source = jobs[j].source
               /\ row.era = jobs[j].era /\ row.status = jobs[j].status
BY JobRow DEF Charged, ProofJob

LEMMA TakeTurnStep == ASSUME CInv, NEW j \in Id, TakeTurn(j) PROVE CInv'
<1>1. Works(j) /\ UNCHANGED <<employee, log, questions, bridge, observer>> BY DEF TakeTurn, turnVars
<1>2. CASE jobs' = [jobs EXCEPT ![j] = [Invalid(jobs[j]) EXCEPT !.status = "failed"]] /\ planner' = planner
  BY <1>1, <1>2, EndsStep DEF Terminal
<1>3. CASE /\ planner' = [step |-> "thinking", job |-> j]
           /\ jobs' = [jobs EXCEPT ![j] = Charged(jobs[j])]
  <2>1. jobs' \in [Id -> ProofJob] /\ \A i \in Id : Kept(i) BY <1>3, ChargedRow, EditJob
  <2>2. Actors BY <1>1, <1>3, WorksFacts, PlannerTurns
  <2> QED BY <1>1, <2>1, <2>2, PlannerFacts, EvolveStep
<1> QED BY <1>2, <1>3 DEF TakeTurn

LEMMA ReplyStep == ASSUME CInv, NEW j \in Id, Reply(j) PROVE CInv'
<1>1. /\ planner = [step |-> "thinking", job |-> j] /\ planner' = [planner EXCEPT !.step = "deciding"]
      /\ Logs(j, "assistant_message", None) /\ UNCHANGED <<employee, jobs, questions, bridge, observer>>
  BY DEF Reply, turnVars
<1>2. jobs[j].kind = "request" /\ Exists(j) BY <1>1, PlannerFacts
<1>3. planner' = [step |-> "deciding", job |-> j] BY <1>1
<1>4. Actors BY <1>1, <1>2, <1>3, PlannerTurns
<1>5. PICK e : Said(e) /\ e.message = None BY <1>1, <1>2, NotSpoken, LogsSaid
<1> QED BY <1>1, <1>4, <1>5, NotSpoken, PlannerFacts, Untouched, SayStep

\* The approval of the planner's question goes through its states.
LEMMA ApprovalStep ==
    ASSUME CInv, NEW j \in Id, NEW a \in {"none", "authorized", "executing"},
           jobs' = [jobs EXCEPT ![j].approval = a]
    PROVE  jobs' \in [Id -> ProofJob] /\ \A i \in Id : Kept(i)
<1> DEFINE row == [jobs[j] EXCEPT !.approval = a]
<1>1. /\ row \in ProofJob /\ row.kind = jobs[j].kind /\ row.source = jobs[j].source
      /\ row.era = jobs[j].era /\ row.status = jobs[j].status
  BY JobRow DEF ProofJob
<1>2. jobs' = [jobs EXCEPT ![j] = row] OBVIOUS
<1> HIDE DEF row
<1> QED BY <1>1, <1>2, EditJob

LEMMA ProposeStep == ASSUME CInv, NEW j \in Id, Propose(j) PROVE CInv'
<1>1. /\ Works(j) /\ planner.job = j /\ planner' = [planner EXCEPT !.step = "asking"]
      /\ jobs' = [jobs EXCEPT ![j].approval = "authorized"]
      /\ UNCHANGED <<employee, log, questions, bridge, observer>>
  BY DEF Propose, turnVars
<1>2. planner' = [step |-> "asking", job |-> j] BY <1>1, PlannerFacts
<1>3. Actors BY <1>1, <1>2, WorksFacts, PlannerTurns
<1> QED BY <1>1, <1>3, ApprovalStep, PlannerFacts, EvolveStep

LEMMA BeginStep == ASSUME CInv, NEW j \in Id, Begin(j) PROVE CInv'
<1>1. /\ jobs' = [jobs EXCEPT ![j].approval = "executing"]
      /\ UNCHANGED <<employee, log, questions, bridge, planner, observer>>
  BY DEF Begin, channelVars
<1> QED BY <1>1, ApprovalStep, ActorsStay, PlannerFacts, EvolveStep

LEMMA AskStaffStep == ASSUME CInv, NEW j \in Id, AskStaff(j) PROVE CInv'
<1>1. /\ planner = [step |-> "asking", job |-> j] /\ planner' = Resting
      /\ jobs' = [jobs EXCEPT ![j].approval = "none"] /\ UNCHANGED <<employee, bridge, observer>>
  BY DEF AskStaff, Ask, turnVars
<1>2. jobs[j].kind = "request" BY <1>1, PlannerFacts
<1>3. Actors BY <1>1, PlannerRests
<1>4. CASE UNCHANGED <<questions, log>>
  BY <1>1, <1>3, <1>4, ApprovalStep, PlannerFacts, EvolveStep
<1>5. CASE /\ questions' = Append(questions, [job |-> j, status |-> "pending", answer |-> None])
           /\ Logs(j, "assistant_question", None)
  <2>1. questions' \in Seq(Question)
    <3>1. [job |-> j, status |-> "pending", answer |-> None] \in Question BY DEF Question
    <3> QED BY <1>5, <3>1, PlannerFacts
  <2>2. PICK e : Said(e) /\ e.message = None BY <1>2, <1>5, NotSpoken, LogsSaid
  <2>3. bridge' = bridge /\ e.message \notin Spoken BY <1>1, <2>2, NotSpoken
  <2> QED BY <1>1, <1>3, <2>1, <2>2, <2>3, ApprovalStep, SayStep
<1> QED BY <1>4, <1>5 DEF AskStaff, Ask

LEMMA EndTurnStep == ASSUME CInv, NEW j \in Id, NEW s \in {"completed", "failed"}, EndTurn(j, s) PROVE CInv'
<1>1. /\ Works(j) /\ planner' = Resting
      /\ jobs' = [jobs EXCEPT ![j] = [Invalid(jobs[j]) EXCEPT !.status = s]]
      /\ UNCHANGED <<employee, log, questions, bridge, observer>>
  BY DEF EndTurn, turnVars
<1> QED BY <1>1, EndsStep DEF Terminal

LEMMA YieldStep == ASSUME CInv, Yield PROVE CInv'
<1>1. planner' = Resting /\ UNCHANGED <<employee, jobs, log, questions, bridge, observer>>
  BY DEF Yield, conversationVars, workforceVars, turnVars
<1> QED BY <1>1, Untouched, PlannerRests, PlannerFacts, EvolveStep
-----------------------------------------------------------------------------
(* The observation service *)

LEMMA ObserverFacts ==
    ASSUME CInv
    PROVE  /\ observer \in [step: {"idle", "capture", "look", "reserve", "infer"}, job: Id \cup {0}, seq: Nat]
           /\ observer.step # "idle" => observer.job \in Id
           /\ questions \in Seq(Question)
BY DEF CInv, Shape, ActorsOK

LEMMA ObserverMoves ==
    ASSUME CInv, NEW s \in {"capture", "look", "reserve", "infer"}, NEW j \in Id, NEW q \in Nat,
           observer' = Blind \/ observer' = observer \/ observer' = [step |-> s, job |-> j, seq |-> q],
           UNCHANGED <<bridge, planner>>
    PROVE  Actors
BY DEF CInv, Shape, ActorsOK, Actors, Exists, Blind

LEMMA ObserverRests ==
    ASSUME CInv, observer' = Blind \/ observer' = observer, UNCHANGED <<bridge, planner>>
    PROVE  Actors
BY DEF CInv, Shape, ActorsOK, Actors, Exists, Blind

\* Only the observer itself goes on.
LEMMA ObserverStep ==
    ASSUME CInv, UNCHANGED <<employee, jobs, log, questions, bridge>>, Actors PROVE CInv'
BY Untouched, ObserverFacts, EvolveStep

\* Samples, reviews and notes of a demonstration that is still being shown.
LEMMA ShownStep ==
    ASSUME CInv, NEW j \in Id, Observed(j), NEW row \in ProofJob, jobs' = [jobs EXCEPT ![j] = row],
           row.kind = jobs[j].kind, row.source = jobs[j].source, row.era = jobs[j].era,
           row.status = jobs[j].status \/ row.status \in Terminal,
           \/ UNCHANGED log
           \/ \E kind \in {"shadow_observation", "shadow_notes", "shadow_unavailable"} : Logs(j, kind, None),
           UNCHANGED <<employee, questions, bridge>>, Actors
    PROVE  CInv'
<1>1. Open(j) /\ jobs[j].status # "completed" BY DEF Observed, Shown, Open, Exists, Terminal
<1>2. jobs' \in [Id -> ProofJob] /\ \A i \in Id : Kept(i) BY <1>1, EditJob
<1>3. CASE UNCHANGED log BY <1>2, <1>3, ObserverFacts, EvolveStep
<1>4. ASSUME NEW kind \in {"shadow_observation", "shadow_notes", "shadow_unavailable"},
             Logs(j, kind, None)
      PROVE  CInv'
  <2>1. PICK e : Said(e) /\ e.message = None BY <1>1, <1>4, NotSpoken, LogsSaid
  <2> QED BY <1>2, <2>1, NotSpoken, ObserverFacts, SayStep
<1> QED BY <1>3, <1>4

LEMMA SampledRow ==
    ASSUME CInv, NEW j \in Id
    PROVE  /\ Sampled(jobs[j]) \in ProofJob /\ Sampled(jobs[j]).kind = jobs[j].kind
           /\ Sampled(jobs[j]).source = jobs[j].source /\ Sampled(jobs[j]).era = jobs[j].era
           /\ Sampled(jobs[j]).status = jobs[j].status
<1> DEFINE job == [jobs[j] EXCEPT !.frames = jobs[j].frames + 1]
<1>1. /\ job \in ProofJob /\ job.kind = jobs[j].kind /\ job.source = jobs[j].source
      /\ job.era = jobs[j].era /\ job.status = jobs[j].status
  BY JobRow DEF ProofJob
<1>2. Sampled(jobs[j]) = [job EXCEPT !.unavailable = FALSE] BY JobRow DEF Sampled, ProofJob
<1> HIDE DEF job
<1> QED BY <1>1, <1>2 DEF ProofJob

LEMMA ReviewedRow ==
    ASSUME CInv, NEW j \in Id, NEW q \in Nat
    PROVE  /\ Reviewed(jobs[j], q) \in ProofJob /\ Reviewed(jobs[j], q).kind = jobs[j].kind
           /\ Reviewed(jobs[j], q).source = jobs[j].source /\ Reviewed(jobs[j], q).era = jobs[j].era
           /\ Reviewed(jobs[j], q).status = jobs[j].status
<1> DEFINE job  == [jobs[j] EXCEPT !.reviews = jobs[j].reviews + 1]
           seen == [job EXCEPT !.reviewed = q]
<1>1. /\ job \in ProofJob /\ job.kind = jobs[j].kind /\ job.source = jobs[j].source
      /\ job.era = jobs[j].era /\ job.status = jobs[j].status
  BY JobRow DEF ProofJob
<1>2. Reviewed(jobs[j], q) = [seen EXCEPT !.pending = q] BY JobRow DEF Reviewed, ProofJob
<1> HIDE DEF job
<1>3. /\ seen \in ProofJob /\ seen.kind = jobs[j].kind /\ seen.source = jobs[j].source
      /\ seen.era = jobs[j].era /\ seen.status = jobs[j].status
  BY <1>1 DEF ProofJob
<1> HIDE DEF seen
<1> QED BY <1>2, <1>3 DEF ProofJob

LEMMA ReportErrorStep ==
    ASSUME CInv, NEW j \in Id, ReportError(j), UNCHANGED <<questions, bridge>>, Actors PROVE CInv'
<1> DEFINE row == [jobs[j] EXCEPT !.unavailable = TRUE]
<1>1. /\ row \in ProofJob /\ row.kind = jobs[j].kind /\ row.source = jobs[j].source
      /\ row.era = jobs[j].era /\ row.status = jobs[j].status
  BY JobRow DEF ProofJob
<1>2. Observed(j) /\ jobs' = [jobs EXCEPT ![j] = row] /\ UNCHANGED employee
      /\ (UNCHANGED log \/ Logs(j, "shadow_unavailable", None))
  BY DEF ReportError
<1> HIDE DEF row
<1> QED BY <1>1, <1>2, ShownStep

LEMMA TimeLimitStep ==
    ASSUME CInv, NEW j \in Id, TimeLimit(j), UNCHANGED <<questions, bridge>>, Actors PROVE CInv'
<1> DEFINE row == [jobs[j] EXCEPT !.status = "cancelled"]
<1>1. /\ row \in ProofJob /\ row.kind = jobs[j].kind /\ row.source = jobs[j].source
      /\ row.era = jobs[j].era /\ row.status \in Terminal
  BY JobRow DEF ProofJob, Terminal
<1>2. Observed(j) /\ jobs' = [jobs EXCEPT ![j] = row] /\ UNCHANGED <<employee, log>>
  BY DEF TimeLimit
<1> HIDE DEF row
<1> QED BY <1>1, <1>2, ShownStep

LEMMA NotesStep ==
    ASSUME CInv, NEW j \in Id, NEW q, Notes(j, q), UNCHANGED <<questions, bridge>>, Actors PROVE CInv'
<1> DEFINE row == [jobs[j] EXCEPT !.pending = 0]
<1>1. /\ row \in ProofJob /\ row.kind = jobs[j].kind /\ row.source = jobs[j].source
      /\ row.era = jobs[j].era /\ row.status = jobs[j].status
  BY JobRow DEF ProofJob
<1>2. Observed(j) /\ jobs' = [jobs EXCEPT ![j] = row] /\ UNCHANGED employee
      /\ Logs(j, "shadow_notes", None)
  BY DEF Notes, MayNote
<1> HIDE DEF row
<1> QED BY <1>1, <1>2, ShownStep

LEMMA CaptureStep ==
    ASSUME CInv, NEW j \in Id, Capture(j), UNCHANGED <<questions, bridge>>, Actors PROVE CInv'
<1>1. Observed(j) /\ jobs' = [jobs EXCEPT ![j] = Sampled(jobs[j])] /\ UNCHANGED employee
      /\ Logs(j, "shadow_observation", None)
  BY DEF Capture
<1> QED BY <1>1, SampledRow, ShownStep

LEMMA ReserveStep ==
    ASSUME CInv, NEW j \in Id, NEW q, Reserve(j, q), UNCHANGED <<questions, bridge>>, Actors PROVE CInv'
<1>1. q \in Nat
  <2>1. q \in DOMAIN log BY DEF Reserve, MayReserve, Sources, Happened
  <2> QED BY <2>1 DEF CInv, Shape
<1>2. Observed(j) /\ jobs' = [jobs EXCEPT ![j] = Reviewed(jobs[j], q)] /\ UNCHANGED <<employee, log>>
  BY DEF Reserve, MayReserve
<1> QED BY <1>1, <1>2, ReviewedRow, ShownStep

LEMMA PassStep ==
    ASSUME CInv, Poll \/ PollLate \/ CaptureScreen \/ CaptureFails \/ Look \/ ReserveReview \/ Infer
    PROVE  CInv'
<1>0. UNCHANGED <<bridge, planner>>
  BY DEF Poll, PollLate, CaptureScreen, CaptureFails, Look, ReserveReview, Infer, passVars
<1>1. CASE GivesUp
  BY <1>0, <1>1, ObserverRests, ObserverStep DEF GivesUp, conversationVars, workforceVars
<1>2. CASE Poll
  <2>1. PICK j \in Id :
          \/ observer' = [step |-> "capture", job |-> j, seq |-> 0] /\ UNCHANGED conversationVars
          \/ ReportError(j) /\ UNCHANGED <<questions, observer>>
    BY <1>2 DEF Poll
  <2>2. Actors BY <1>0, <2>1, ObserverMoves
  <2> QED BY <1>0, <2>1, <2>2, ObserverStep, ReportErrorStep DEF conversationVars, workforceVars
<1>3. CASE PollLate BY <1>0, <1>3, ObserverRests, TimeLimitStep DEF PollLate
<1>4. CASE CaptureScreen /\ ~GivesUp
  <2>1. observer.step = "capture" /\ Capture(observer.job) /\ UNCHANGED questions
        /\ observer' = [observer EXCEPT !.step = "look"]
    BY <1>4 DEF CaptureScreen
  <2>2. observer' = [step |-> "look", job |-> observer.job, seq |-> observer.seq]
        /\ observer.job \in Id /\ observer.seq \in Nat
    BY <2>1, ObserverFacts
  <2>3. Actors BY <1>0, <2>2, ObserverMoves
  <2> QED BY <1>0, <2>1, <2>2, <2>3, CaptureStep
<1>5. CASE CaptureFails
  <2>1. observer.job \in Id BY <1>5, ObserverFacts DEF CaptureFails
  <2> QED BY <1>0, <1>5, <2>1, ObserverRests, ReportErrorStep DEF CaptureFails
<1>6. CASE Look /\ ~GivesUp
  <2> DEFINE q == Latest(Sources(observer.job))
  <2>1. observer.step = "look" /\ UNCHANGED conversationVars
        /\ observer' = [observer EXCEPT !.step = "reserve", !.seq = q]
    BY <1>6 DEF Look
  <2>2. q \in Nat
    <3>1. Sources(observer.job) \subseteq 1..Len(log) /\ Len(log) \in Nat
      BY DEF Sources, Happened, CInv, Shape
    <3> QED BY <3>1, LatestType
  <2> HIDE DEF q
  <2>3. observer' = [step |-> "reserve", job |-> observer.job, seq |-> q] /\ observer.job \in Id
    BY <2>1, ObserverFacts
  <2>4. Actors BY <1>0, <2>2, <2>3, ObserverMoves
  <2> QED BY <1>0, <2>1, <2>4, ObserverStep DEF conversationVars, workforceVars
<1>7. CASE ReserveReview /\ ~GivesUp
  <2>1. observer.step = "reserve" /\ Reserve(observer.job, observer.seq) /\ UNCHANGED questions
        /\ observer' = [observer EXCEPT !.step = "infer"]
    BY <1>7 DEF ReserveReview
  <2>2. observer' = [step |-> "infer", job |-> observer.job, seq |-> observer.seq]
        /\ observer.job \in Id /\ observer.seq \in Nat
    BY <2>1, ObserverFacts
  <2>3. Actors BY <1>0, <2>2, ObserverMoves
  <2> QED BY <1>0, <2>1, <2>2, <2>3, ReserveStep
<1>8. CASE Infer /\ ~GivesUp
  <2>1. observer.job \in Id /\ Notes(observer.job, observer.seq) /\ observer' = Blind
        /\ UNCHANGED questions
    BY <1>8, ObserverFacts DEF Infer
  <2> QED BY <1>0, <2>1, ObserverRests, NotesStep
<1> QED BY <1>1, <1>2, <1>3, <1>4, <1>5, <1>6, <1>7, <1>8
-----------------------------------------------------------------------------
LEMMA InitCInv == Init => CInv
<1> SUFFICES ASSUME Init PROVE CInv OBVIOUS
<1> USE DEF Init, WorkforceInit
<1>1. NoJob \in ProofJob /\ NoJob.status = "absent" BY DEF NoJob, ProofJob
<1>2. Shape BY <1>1 DEF Shape, States, Bridge, Receiving, Idle, Resting, Blind
<1>3. jobs \in [Id -> ProofJob] /\ \A j \in Id : jobs[j].status = "absent" BY <1>1
<1>4. BridgeOK BY DEF BridgeOK, Receiving, Idle
<1>5. ActorsOK BY DEF ActorsOK, Resting, Blind
<1>6. KindsOK /\ OneOpenRequest /\ NeverResumed
  BY <1>3 DEF KindsOK, OneOpenRequest, Serves, NeverResumed, Open, Exists
<1>7. EndedOK /\ NothingAfterOutcome BY DEF EndedOK, NothingAfterOutcome
<1>8. MessagesOK BY <1>3 DEF MessagesOK, OnlyOne, RequestOf, StaffOf, Delivered, Exists
<1> QED BY <1>2, <1>4, <1>5, <1>6, <1>7, <1>8 DEF CInv

LEMMA NextCInv == CInv /\ [Next]_vars => CInv'
<1> SUFFICES ASSUME CInv, [Next]_vars PROVE CInv' OBVIOUS
<1>1. CASE \E m \in Spoken : Arrives(m) BY <1>1, ArrivesStep
<1>2. CASE \E m \in Written : Write(m) BY <1>2, WriteStep
<1>3. CASE Receive
  BY <1>3, SearchStep, TeachInChannelStep, ResolveEmployeeStep, CreateStep, FindOpenStep,
     FindQuestionStep, GuideInChannelStep DEF Receive
<1>4. CASE Deliver \/ CrashBridge BY <1>4, PostingStep
<1>5. CASE Console BY <1>5, ConsoleStep
<1>6. ASSUME NEW j \in Id, Turn(j) PROVE CInv'
  BY <1>6, TakeTurnStep, ReplyStep, ProposeStep, BeginStep, AskStaffStep, EndTurnStep DEF Turn
<1>7. CASE Claim \/ Yield BY <1>7, ClaimStep, YieldStep
<1>8. CASE Poll \/ PollLate \/ CaptureScreen \/ CaptureFails \/ Look \/ ReserveReview \/ Infer
  BY <1>8, PassStep
<1>9. CASE UNCHANGED vars
  BY <1>9, ActorsStay, ObserverStep DEF vars, conversationVars, workforceVars, channelVars
<1> QED BY <1>1, <1>2, <1>3, <1>4, <1>5, <1>6, <1>7, <1>8, <1>9 DEF Next

\* The invariant the others follow from: what is held in memory between two transactions still
\* agrees with the tables where a later step relies on it.
THEOREM ChannelInvariant == Spec => []CInv
<1> QED BY InitCInv, NextCInv, PTL DEF Spec

\* The conversation has one open request, whoever sends and however often.
THEOREM OneRequestIsOpen == Spec => []OneOpenRequest
<1>1. CInv => OneOpenRequest BY DEF CInv
<1> QED BY <1>1, ChannelInvariant, PTL

\* Nothing from before a change of the employee is open under its new authority.
THEOREM OldRequestsAreGone == Spec => []NeverResumed
<1>1. CInv => NeverResumed BY DEF CInv
<1> QED BY <1>1, ChannelInvariant, PTL

\* A demonstration whose outcome is recorded gains no event.
THEOREM OutcomesAreLast == Spec => []NothingAfterOutcome
<1>1. CInv => NothingAfterOutcome BY DEF CInv
<1> QED BY <1>1, ChannelInvariant, PTL

LEMMA AtMostOne == ASSUME NEW S, \A i, j \in S : i = j PROVE Cardinality(S) \in {0, 1} /\ (S = {} => Cardinality(S) = 0)
<1>1. CASE S = {} BY <1>1, FS_EmptySet
<1>2. ASSUME NEW x \in S PROVE Cardinality(S) = 1
  <2>1. S = {x} OBVIOUS
  <2> QED BY <2>1, FS_Singleton
<1> QED BY <1>1, <1>2

\* A message of the channel becomes one request or one piece of guidance, however often it comes.
THEOREM MessagesCountOnce == Spec => []MessageOnce
<1>1. CInv => MessageOnce
  <2> SUFFICES ASSUME CInv, NEW m \in Spoken
               PROVE  Cardinality(RequestOf(m)) + Cardinality(StaffOf(m)) <= 1
    BY DEF MessageOnce, StaffOf
  <2>1. OnlyOne(RequestOf(m), StaffOf(m)) BY DEF CInv, MessagesOK
  <2>2. Cardinality(RequestOf(m)) \in {0, 1} /\ Cardinality(StaffOf(m)) \in {0, 1}
        /\ (RequestOf(m) = {} => Cardinality(RequestOf(m)) = 0)
        /\ (StaffOf(m) = {} => Cardinality(StaffOf(m)) = 0)
    BY <2>1, AtMostOne DEF OnlyOne
  <2> QED BY <2>1, <2>2 DEF OnlyOne
<1> QED BY <1>1, ChannelInvariant, PTL

\* An answer given stays the answer.
THEOREM AnswersStand == Spec => AnsweredOnce
<1> DEFINE Stand == \A q \in DOMAIN questions : questions[q].status = "answered" => questions'[q] = questions[q]
<1>1. ASSUME CInv, [Next]_vars PROVE Stand
  <2>0. questions \in Seq(Question) BY <1>1, PlannerFacts
  <2>1. CASE UNCHANGED questions BY <2>1
  <2>2. ASSUME NEW j, NEW m, NEW reply, Guide(j, m, reply) PROVE Stand
    <3>1. CASE reply = 0 BY <2>2, <3>1 DEF Guide
    <3>2. CASE reply # 0
      <4>1. reply \in DOMAIN questions /\ questions[reply].status = "pending"
        BY <2>2, <3>2 DEF Guide, MayGuide, Waiting
      <4>2. \A q \in DOMAIN questions : q # reply => questions'[q] = questions[q]
        BY <2>2, <3>2 DEF Guide
      <4> QED BY <4>1, <4>2
    <3> QED BY <3>1, <3>2
  <2>3. ASSUME NEW j, AskStaff(j) PROVE Stand
    <3>1. questions' = questions \/ questions' = Append(questions, [job |-> j, status |-> "pending", answer |-> None])
      BY <2>3 DEF AskStaff, Ask
    <3> QED BY <2>0, <3>1
  <2>4. CASE UNCHANGED vars BY <2>1, <2>4 DEF vars, conversationVars
  <2>5. CASE \E m \in Written : Write(m) BY <2>1, <2>2, <2>5 DEF Write
  <2>6. CASE Receive
    BY <2>1, <2>2, <2>6 DEF Receive, Search, TeachInChannel, ResolveEmployee, Create, CreateJob, FindOpen,
       FindQuestion, GuideInChannel, aside, conversationVars
  <2>7. CASE Console BY <2>1, <2>7 DEF Console, Stop
  <2>8. ASSUME NEW j \in Id, Turn(j) PROVE Stand
    BY <2>1, <2>3, <2>8 DEF Turn, TakeTurn, Reply, Propose, Begin, EndTurn
  <2>9. CASE \/ \E m \in Spoken : Arrives(m)
             \/ Deliver \/ CrashBridge \/ Claim \/ Yield
    BY <2>1, <2>9 DEF Arrives, Deliver, Gather, GatherJob, Post, PostUnanswered, Hold, RecordDelivery,
       CrashBridge, Claim, Yield, aside, conversationVars
  <2>10. CASE Poll \/ PollLate \/ CaptureScreen \/ CaptureFails \/ Look \/ ReserveReview \/ Infer
    BY <2>1, <2>10 DEF Poll, PollLate, CaptureScreen, CaptureFails, Look, ReserveReview, Infer, GivesUp,
       conversationVars
  <2> QED BY <1>1, <2>4, <2>5, <2>6, <2>7, <2>8, <2>9, <2>10 DEF Next
<1> QED BY <1>1, ChannelInvariant, PTL DEF Spec, AnsweredOnce
=============================================================================
