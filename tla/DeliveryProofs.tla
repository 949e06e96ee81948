------------------------------- MODULE DeliveryProofs -------------------------------
(* What the channel shows is what the employee said, in order; and the types *)
(* of Channel with their bounds.  One desktop is leased to one job after the *)
(* other, so what is said for a later job is said later: the order of the    *)
(* bridge's query, by job, is the order of the log.                          *)
EXTENDS ChannelProofs

PublicEvents == {n \in DOMAIN log : log[n].kind \in Public}
Posted       == {posts[i] : i \in DOMAIN posts}

-----------------------------------------------------------------------------
(* The invariant *)

Limits ==
    /\ employee.revision \in 1..(MaxChanges + 1) /\ employee.era < employee.revision
    /\ jobs \in [Id -> Job]
    /\ lease \in 0..MaxJobs
    /\ arrived \subseteq Message
    /\ events \in 0..MaxEvents /\ losses \in 0..events

\* Jobs are made in the order of their numbers and leased in it.  The job that the desktop is leased
\* to is the last one while it is open, and so is whatever is open under an active employee.
Last(j) == \A i \in Id : Exists(i) => i <= j
Lane ==
    /\ lease # 0 => Exists(lease)
    /\ \A i, j \in Id : i < j /\ Exists(j) => Exists(i)
    /\ lease # 0 /\ Open(lease) => Last(lease)
    /\ employee.state = "active" =>
          \A j \in Id : Open(j) => jobs[j].kind = "request" /\ lease <= j /\ Last(j)

SaidInLane ==
    /\ \A n \in PublicEvents : log[n].job <= lease
    /\ \A n, k \in PublicEvents : n < k => log[n].job <= log[k].job

\* Everything public before a posted event is recorded, but for late replies.
Delivery ==
    /\ posts \in Seq(PublicEvents)
    /\ recorded \subseteq Posted
    /\ \A x \in Posted, n \in PublicEvents : n < x => n \in recorded \/ Overtaken(n, x)

\* What the bridge has in hand: of everything public before one event of the batch the same holds, if
\* it is not in the batch itself; and of everything public of the jobs read before one that is listed.
Late(n) == log[n].kind = "assistant_message" /\ ~Open(log[n].job)
Posting(b) == b.step \in {"gather", "post", "record"}
Closed(batch) ==
    /\ batch \subseteq PublicEvents \ recorded
    /\ \A b \in batch, n \in PublicEvents : n < b => n \in recorded \cup batch \/ Overtaken(n, b)
Read(j) == \A n \in PublicEvents :
               log[n].job < j /\ log[n].job \notin bridge.listed =>
                   n \in recorded \cup bridge.batch \/ Late(n)
InHand ==
    /\ Posting(bridge) => Closed(bridge.batch)
    /\ bridge.step = "gather" => \A j \in bridge.listed : Exists(j) /\ Read(j)
    /\ bridge.step \in {"post", "record"} => bridge.batch # {}
    /\ bridge.step = "record" => \E x \in bridge.batch \cap Posted : \A k \in bridge.batch : x <= k

\* One event is posted and not yet recorded, or a loss is answerable for it.
Repeats ==
    /\ IsFiniteSet(Posted)
    /\ Len(posts) <= Cardinality(recorded) + losses + 1
    /\ bridge.step # "record" => Len(posts) <= Cardinality(recorded) + losses

InOrder ==
    \A i, k \in DOMAIN posts : i < k => posts[i] <= posts[k] \/ Overtaken(posts[k], posts[i])

Ordered == Delivery /\ InHand /\ InOrder /\ Repeats
DInv == CInv /\ Limits /\ Lane /\ SaidInLane /\ Ordered

-----------------------------------------------------------------------------
(* The log *)

LogGrows ==
    \/ UNCHANGED log
    \/ \E e \in Event : /\ log' = Append(log, e)
                        /\ e.kind \in Public => /\ e.job = lease
                                                /\ e.kind = "assistant_message" \/ Open(lease)

LEMMA Grown ==
    ASSUME log \in Seq(Event), LogGrows
    PROVE  /\ \A n \in PublicEvents : n \in PublicEvents' /\ log'[n] = log[n]
           /\ \A n \in PublicEvents' :
                 n \in PublicEvents \/ /\ \A k \in PublicEvents : k < n
                                       /\ log'[n].job = lease /\ lease \in Id
                                       /\ log'[n].kind = "assistant_message" \/ Open(lease)
           /\ \A n \in PublicEvents : n \in Nat /\ log[n].job \in Id
           /\ \A n \in PublicEvents' : n \in Nat
<1>1. \A n \in PublicEvents : n \in 1..Len(log) /\ log[n].job \in Id
  BY EventFacts DEF PublicEvents
<1>2. CASE UNCHANGED log BY <1>1, <1>2 DEF PublicEvents
<1>3. ASSUME NEW e \in Event, log' = Append(log, e),
             e.kind \in Public => e.job = lease /\ (e.kind = "assistant_message" \/ Open(lease))
      PROVE  /\ \A n \in PublicEvents : n \in PublicEvents' /\ log'[n] = log[n]
             /\ \A n \in PublicEvents' :
                   n \in PublicEvents \/ /\ \A k \in PublicEvents : k < n
                                         /\ log'[n].job = lease /\ lease \in Id
                                         /\ log'[n].kind = "assistant_message" \/ Open(lease)
             /\ \A n \in PublicEvents' : n \in Nat
  <2>1. /\ Len(log) \in Nat /\ DOMAIN log = 1..Len(log) /\ DOMAIN log' = 1..(Len(log) + 1)
        /\ \A n \in DOMAIN log : log'[n] = log[n]
        /\ log'[Len(log) + 1] = e
    BY <1>3, LogFacts
  <2>2. e.job \in Id BY DEF Event
  <2>3. \A n \in PublicEvents : n \in DOMAIN log BY DEF PublicEvents
  <2>4. \A n \in PublicEvents : n \in PublicEvents' /\ log'[n] = log[n]
    BY <2>1, <2>3 DEF PublicEvents, Public
  <2>5. \A n \in PublicEvents' : n \in 1..(Len(log) + 1) /\ (n \in PublicEvents \/ n = Len(log) + 1)
    BY <2>1 DEF PublicEvents, Public
  <2>6. ASSUME NEW n \in PublicEvents', n \notin PublicEvents
        PROVE  /\ \A k \in PublicEvents : k < n
               /\ log'[n].job = lease /\ lease \in Id
               /\ log'[n].kind = "assistant_message" \/ Open(lease)
    <3>1. n = Len(log) + 1 /\ log'[n] = e BY <2>1, <2>5, <2>6
    <3>2. e.kind \in Public BY <3>1 DEF PublicEvents, Public
    <3> QED BY <1>1, <1>3, <2>1, <2>2, <3>1, <3>2
  <2> QED BY <2>1, <2>4, <2>5, <2>6
<1> QED BY <1>1, <1>2, <1>3 DEF LogGrows

LEMMA SaidInLaneKept ==
    ASSUME CInv, SaidInLane, LogGrows, lease \in Nat, lease' \in Nat, lease <= lease'
    PROVE  SaidInLane'
<1>1. log \in Seq(Event) BY DEF CInv, Shape
<1>2. /\ \A n \in PublicEvents : n \in PublicEvents' /\ log'[n] = log[n]
      /\ \A n \in PublicEvents' :
            n \in PublicEvents \/ ((\A k \in PublicEvents : k < n) /\ log'[n].job = lease)
      /\ \A n \in PublicEvents : n \in Nat /\ log[n].job \in Id
      /\ \A n \in PublicEvents' : n \in Nat
  <2> HIDE DEF LogGrows
  <2> QED BY <1>1, Grown
<1>3. Id \subseteq Nat BY IdFacts
<1>4. \A n \in PublicEvents' : log'[n].job \in Nat /\ log'[n].job <= lease
  <2> SUFFICES ASSUME NEW n \in PublicEvents' PROVE log'[n].job \in Nat /\ log'[n].job <= lease
    OBVIOUS
  <2>1. CASE n \in PublicEvents BY <1>2, <1>3, <2>1 DEF SaidInLane
  <2>2. CASE n \notin PublicEvents BY <1>2, <2>2
  <2> QED BY <2>1, <2>2
<1>5. ASSUME NEW n \in PublicEvents', NEW k \in PublicEvents', n < k
      PROVE  log'[n].job <= log'[k].job
  <2>1. CASE k \in PublicEvents BY <1>2, <1>3, <1>5, <2>1 DEF SaidInLane
  <2>2. CASE k \notin PublicEvents
    <3>1. log'[k].job = lease BY <1>2, <2>2
    <3> QED BY <1>4, <3>1
  <2> QED BY <2>1, <2>2
<1> QED BY <1>4, <1>5 DEF SaidInLane

\* The query's order is the order of the log.
LEMMA ItemIsFirst ==
    ASSUME CInv, SaidInLane, bridge.batch # {}, bridge.batch \subseteq PublicEvents
    PROVE  Item \in bridge.batch /\ \A k \in bridge.batch : Item <= k
<1>0. \A n \in PublicEvents : n \in Nat /\ log[n].job \in Nat
  <2>1. log \in Seq(Event) BY DEF CInv, Shape
  <2>2. \A n \in PublicEvents : n \in 1..Len(log) /\ log[n].job \in Id
    BY <2>1, EventFacts DEF PublicEvents
  <2>3. \A n \in 1..Len(log) : n \in Nat BY <2>1
  <2>4. \A j \in Id : j \in Nat BY IdFacts
  <2> QED BY <2>2, <2>3, <2>4
<1>1. \A n, k \in bridge.batch : Before(n, k) <=> n <= k
  BY <1>0 DEF Before, SaidInLane
<1>2. PICK first \in bridge.batch : \A k \in bridge.batch : first <= k
  <2>1. bridge.batch \subseteq Nat BY <1>0
  <2> QED BY <2>1, LeastBound
<1>3. \A k \in bridge.batch : Before(first, k) BY <1>1, <1>2
<1>4. Item \in bridge.batch /\ \A k \in bridge.batch : Before(Item, k) BY <1>3 DEF Item
<1> QED BY <1>1, <1>4

-----------------------------------------------------------------------------
(* What is posted *)

LEMMA PostedFacts ==
    ASSUME CInv, Delivery
    PROVE  /\ \A n \in PublicEvents : n \in Nat
           /\ Posted \subseteq PublicEvents /\ Len(posts) \in Nat /\ DOMAIN posts = 1..Len(posts)
           /\ \A i \in DOMAIN posts : posts[i] \in Posted
<1>1. log \in Seq(Event) /\ posts \in Seq(PublicEvents) BY DEF CInv, Shape, Delivery
<1> QED BY <1>1 DEF PublicEvents, Posted

\* Whatever was said was said for a job there is.
LEMMA SaidFacts ==
    ASSUME CInv, Limits, Lane, SaidInLane, NEW n \in PublicEvents
    PROVE  n \in Nat /\ log[n].job \in Id /\ log[n].job \in Nat /\ Exists(log[n].job)
<1>1. log \in Seq(Event) BY DEF CInv, Shape
<1>2. n \in Nat /\ log[n].job \in Id BY <1>1, EventFacts DEF PublicEvents
<1>3. log[n].job \in Nat /\ log[n].job # 0 /\ lease \in Nat
  <2>1. MaxJobs \in Nat BY FS_CardinalityType, WorkforceAssumption DEF MaxJobs
  <2>2. log[n].job \in Nat /\ log[n].job # 0 BY <1>2, IdFacts
  <2>3. lease \in Nat BY <2>1 DEF Limits
  <2> QED BY <2>2, <2>3
<1>4. log[n].job <= lease BY DEF SaidInLane
<1>5. lease \in Id
  <2>1. MaxJobs \in Nat BY FS_CardinalityType, WorkforceAssumption DEF MaxJobs
  <2> QED BY <1>3, <1>4, <2>1 DEF Limits, Id
<1>6. Exists(log[n].job) BY <1>2, <1>3, <1>4, <1>5 DEF Lane
<1> QED BY <1>2, <1>3, <1>6

\* What exists goes on to exist, what has ended stays so.
Closing == \A j \in Id : Exists(j) => Exists(j)' /\ (Open(j)' => Open(j))

LEMMA OvertakenKept ==
    ASSUME CInv, Limits, Lane, SaidInLane, LogGrows, Closing, NEW n \in PublicEvents, NEW x \in PublicEvents
    PROVE  /\ Late(n) => Late(n)'
           /\ Overtaken(n, x) => Overtaken(n, x)'
<1>1. log \in Seq(Event) BY DEF CInv, Shape
<1>2. log'[n] = log[n] /\ log'[x] = log[x] BY <1>1, Grown
<1>3. log[n].job \in Id /\ Exists(log[n].job) BY SaidFacts
<1>4. ~Open(log[n].job) => ~Open(log[n].job)' BY <1>2, <1>3 DEF Closing, Open, Exists
<1> QED BY <1>2, <1>4 DEF Late, Overtaken

\* Nobody but the bridge touches what is posted, while others speak.
LEMMA DeliveryKept ==
    ASSUME DInv, LogGrows, Closing, UNCHANGED <<posts, recorded, losses>>,
           bridge' = bridge \/ (~Posting(bridge) /\ ~Posting(bridge'))
    PROVE  Ordered'
<1> USE DEF DInv, Ordered
<1>1. log \in Seq(Event) BY DEF CInv, Shape
<1>2. /\ \A n \in PublicEvents : n \in PublicEvents' /\ log'[n] = log[n]
      /\ \A n \in PublicEvents' :
            n \in PublicEvents \/ /\ \A k \in PublicEvents : k < n
                                  /\ log'[n].job = lease /\ lease \in Id
                                  /\ log'[n].kind = "assistant_message" \/ Open(lease)
      /\ \A n \in PublicEvents : n \in Nat
      /\ \A n \in PublicEvents' : n \in Nat
  BY <1>1, Grown
<1>3. Posted' = Posted BY DEF Posted
<1>4. Posted \subseteq PublicEvents /\ recorded \subseteq Posted BY PostedFacts DEF Delivery
<1>5. ASSUME NEW x \in PublicEvents, NEW n \in PublicEvents', n < x PROVE n \in PublicEvents
  BY <1>2, <1>5
<1>6. Delivery'
  <2>1. posts' \in Seq(PublicEvents') BY <1>2 DEF Delivery
  <2>2. ASSUME NEW x \in Posted, NEW n \in PublicEvents', n < x
        PROVE  n \in recorded \/ Overtaken(n, x)'
    <3>1. x \in PublicEvents /\ n \in PublicEvents BY <1>4, <1>5, <2>2
    <3> QED BY <2>2, <3>1, OvertakenKept DEF Delivery
  <2> QED BY <1>3, <1>4, <2>1, <2>2 DEF Delivery
<1>7. InOrder'
  <2> SUFFICES ASSUME NEW i \in DOMAIN posts, NEW k \in DOMAIN posts, i < k
               PROVE  posts[i] <= posts[k] \/ Overtaken(posts[k], posts[i])'
    BY DEF InOrder, Overtaken
  <2>1. posts[i] \in PublicEvents /\ posts[k] \in PublicEvents BY <1>4, PostedFacts
  <2> QED BY <2>1, OvertakenKept DEF InOrder
<1>8. Repeats' BY <1>3 DEF Repeats, Posting
<1>9. CASE ~Posting(bridge)'
  <2>1. InHand' BY <1>9 DEF InHand, Posting
  <2> QED BY <1>6, <1>7, <1>8, <2>1
<1>10. CASE Posting(bridge)'
  <2>1. bridge' = bridge /\ Posting(bridge) BY <1>10 DEF Posting
  <2>2. Closed(bridge.batch) BY <2>1 DEF InHand
  <2>3. Closed(bridge.batch)'
    <3>1. bridge.batch \subseteq PublicEvents' \ recorded' BY <1>2, <2>2 DEF Closed
    <3>2. ASSUME NEW b \in bridge.batch, NEW n \in PublicEvents', n < b
          PROVE  n \in recorded \cup bridge.batch \/ Overtaken(n, b)'
      <4>1. b \in PublicEvents /\ n \in PublicEvents BY <1>5, <2>2, <3>2 DEF Closed
      <4> QED BY <2>2, <3>2, <4>1, OvertakenKept DEF Closed
    <3> QED BY <2>1, <3>1, <3>2 DEF Closed
  <2>4. ASSUME bridge.step = "gather", NEW j \in bridge.listed PROVE Exists(j)' /\ Read(j)'
    <3>1. Exists(j) /\ Read(j) /\ j \in Id /\ j \in Nat
      BY <2>4, IdFacts DEF InHand, CInv, Shape, Bridge
    <3>2. Exists(j)' BY <3>1 DEF Closing
    <3>3. ASSUME NEW n \in PublicEvents', log'[n].job < j, log'[n].job \notin bridge.listed
          PROVE  n \in recorded \cup bridge.batch \/ Late(n)'
      <4>1. CASE n \in PublicEvents BY <1>2, <3>1, <3>3, <4>1, OvertakenKept DEF Read
      <4>2. CASE n \notin PublicEvents
        <5>1. /\ log'[n].job = lease /\ lease \in Id
              /\ log'[n].kind = "assistant_message" \/ Open(lease)
          BY <1>2, <4>2
        <5>2. lease \in Nat /\ lease # 0 /\ Exists(lease) BY <5>1, IdFacts DEF Lane
        <5>3. ~Open(lease) BY <3>1, <3>3, <5>1, <5>2 DEF Lane, Last
        <5>4. ~(jobs'[lease].status # "absent" /\ jobs'[lease].status \notin Terminal)
          BY <5>1, <5>2, <5>3 DEF Closing, Open, Exists
        <5> QED BY <5>1, <5>3, <5>4 DEF Late, Open, Exists
      <4> QED BY <4>1, <4>2
    <3> QED BY <2>1, <3>2, <3>3 DEF Read
  <2>5. bridge.step = "record" => \E x \in bridge.batch \cap Posted : \A k \in bridge.batch : x <= k
    BY DEF InHand
  <2>6. bridge.step \in {"post", "record"} => bridge.batch # {} BY DEF InHand
  <2> QED BY <1>3, <1>6, <1>7, <1>8, <2>1, <2>3, <2>4, <2>5, <2>6 DEF InHand
<1> QED BY <1>6, <1>7, <1>8, <1>9, <1>10

LEMMA CountFacts ==
    ASSUME DInv
    PROVE  /\ IsFiniteSet(Posted) /\ IsFiniteSet(recorded) /\ recorded \subseteq Posted
           /\ Cardinality(recorded) \in Nat /\ Cardinality(Posted) \in Nat
           /\ Cardinality(recorded) <= Cardinality(Posted)
           /\ losses \in Nat /\ Len(posts) \in Nat
<1>1. IsFiniteSet(Posted) /\ recorded \subseteq Posted BY DEF DInv, Ordered, Repeats, Delivery
<1>2. IsFiniteSet(recorded) /\ Cardinality(recorded) <= Cardinality(Posted) BY <1>1, FS_Subset
<1>3. Len(posts) \in Nat BY PostedFacts DEF DInv, Ordered
<1>4. losses \in Nat BY ChannelAssumption DEF DInv, Limits
<1> QED BY <1>1, <1>2, <1>3, <1>4, FS_CardinalityType

\* The log stays, and so does what has been posted and recorded.
LEMMA SameDelivery ==
    ASSUME DInv, UNCHANGED <<jobs, log, posts, recorded>>
    PROVE  /\ PublicEvents' = PublicEvents /\ Posted' = Posted
           /\ \A n, x : Overtaken(n, x)' = Overtaken(n, x) /\ Late(n)' = Late(n)
           /\ Delivery' /\ InOrder'
<1>1. PublicEvents' = PublicEvents /\ Posted' = Posted BY DEF PublicEvents, Posted
<1>2. \A n, x : Overtaken(n, x)' = Overtaken(n, x) /\ Late(n)' = Late(n)
  BY DEF Overtaken, Late, Open, Exists
<1>3. Delivery' BY <1>1, <1>2 DEF DInv, Ordered, Delivery
<1>4. InOrder' BY <1>2 DEF DInv, Ordered, InOrder
<1> QED BY <1>1, <1>2, <1>3, <1>4

LEMMA GatherStep == ASSUME DInv, Gather PROVE Ordered'
<1>1. /\ UNCHANGED <<jobs, log, posts, recorded, losses>>
      /\ bridge.step = "idle" /\ bridge'.step = "gather" /\ bridge'.batch = {}
      /\ bridge'.listed = {j \in Id : Exists(j)}
  BY DEF Gather, Idle, aside, conversationVars, workforceVars
<1>2. Delivery' /\ InOrder' /\ PublicEvents' = PublicEvents /\ Posted' = Posted BY <1>1, SameDelivery
<1>3. Repeats' BY <1>1, <1>2 DEF DInv, Ordered, Repeats
<1>4. Closed(bridge.batch)' BY <1>1 DEF Closed
<1>5. \A n \in PublicEvents : log[n].job \in bridge'.listed BY <1>1, SaidFacts DEF DInv
<1>6. \A j \in bridge'.listed : Exists(j)' /\ Read(j)' BY <1>1, <1>2, <1>5 DEF Read, Exists
<1>7. InHand' BY <1>1, <1>4, <1>6 DEF InHand
<1> QED BY <1>2, <1>3, <1>7 DEF Ordered

\* The events of one job join the batch: what was said before them was said for it, or for a job that
\* was read before.
LEMMA GatherJobStep == ASSUME DInv, GatherJob PROVE Ordered'
<1>1. /\ UNCHANGED <<jobs, log, posts, recorded, losses>> /\ bridge.step = "gather"
  BY DEF GatherJob, aside, conversationVars, workforceVars
<1>2. PICK j \in bridge.listed : /\ \A i \in bridge.listed : j <= i
                                 /\ bridge' = Collected(j, bridge.batch \cup UnsentOf(j))
  BY DEF GatherJob
<1> DEFINE found == bridge.batch \cup UnsentOf(j)
<1>3. /\ Delivery' /\ InOrder' /\ PublicEvents' = PublicEvents /\ Posted' = Posted
      /\ \A n, x : Overtaken(n, x)' = Overtaken(n, x) /\ Late(n)' = Late(n)
  BY <1>1, SameDelivery
<1>4. bridge.listed \subseteq Id /\ j \in Id /\ j \in Nat /\ \A i \in Id : i \in Nat
  BY <1>2, IdFacts DEF DInv, CInv, Shape, Bridge
<1>5. /\ Closed(bridge.batch) /\ \A i \in bridge.listed : Exists(i) /\ Read(i)
  BY <1>1 DEF DInv, Ordered, InHand, Posting
<1>6. UnsentOf(j) = {n \in PublicEvents \ recorded : log[n].job = j}
  BY DEF UnsentOf, Unsent, PublicEvents
<1>7. \A n \in PublicEvents : n \in Nat /\ log[n].job \in Id /\ log[n].job \in Nat
  BY SaidFacts DEF DInv
<1>8. Closed(found)
  <2>1. found \subseteq PublicEvents \ recorded BY <1>5, <1>6 DEF Closed
  <2>2. ASSUME NEW b \in found, NEW n \in PublicEvents, n < b
        PROVE  n \in recorded \cup found \/ Overtaken(n, b)
    <3>1. CASE b \in bridge.batch BY <1>5, <2>2, <3>1 DEF Closed
    <3>2. CASE b \in UnsentOf(j)
      <4>1. b \in PublicEvents /\ log[b].job = j BY <1>6, <3>2
      <4>2. log[n].job <= j BY <2>2, <4>1 DEF DInv, SaidInLane
      <4>3. CASE log[n].job = j BY <1>6, <4>3
      <4>4. CASE log[n].job # j
        <5>1. log[n].job < j /\ log[n].job \notin bridge.listed BY <1>2, <1>4, <1>7, <4>2, <4>4
        <5>2. n \in recorded \cup bridge.batch \/ Late(n) BY <1>2, <1>5, <5>1 DEF Read
        <5> QED BY <4>1, <5>1, <5>2 DEF Late, Overtaken
      <4> QED BY <4>3, <4>4
    <3> QED BY <3>1, <3>2
  <2> QED BY <2>1, <2>2 DEF Closed
<1>9. Repeats' /\ InHand'
  <2>1. CASE bridge' = Idle BY <1>1, <1>3, <2>1 DEF DInv, Ordered, Repeats, InHand, Posting, Idle
  <2>2. CASE bridge' = [Idle EXCEPT !.step = "post", !.batch = found] /\ found # {}
    <3>1. bridge'.step = "post" /\ bridge'.batch = found BY <2>2 DEF Idle
    <3>2. Closed(bridge.batch)' BY <1>1, <1>3, <1>8, <3>1 DEF Closed
    <3> HIDE DEF found
    <3> QED BY <1>1, <1>3, <2>2, <3>1, <3>2 DEF DInv, Ordered, Repeats, InHand
  <2>3. CASE bridge' = [bridge EXCEPT !.listed = bridge.listed \ {j}, !.batch = found]
    <3>1. bridge'.step = "gather" /\ bridge'.listed = bridge.listed \ {j} /\ bridge'.batch = found
      BY <1>1, <2>3 DEF DInv, CInv, Shape, Bridge
    <3>2. Closed(bridge.batch)' BY <1>1, <1>3, <1>8, <3>1 DEF Closed
    <3>3. ASSUME NEW i \in bridge'.listed PROVE Exists(i)' /\ Read(i)'
      <4>1. i \in bridge.listed BY <3>1, <3>3
      <4>2. Exists(i)' BY <1>1, <1>5, <4>1 DEF Exists
      <4>3. ASSUME NEW n \in PublicEvents, log[n].job < i, log[n].job \notin bridge'.listed
            PROVE  n \in recorded \cup found \/ Late(n)
        <5>1. CASE log[n].job = j BY <1>6, <5>1
        <5>2. CASE log[n].job # j
          <6>1. log[n].job \notin bridge.listed BY <3>1, <4>3, <5>2
          <6> QED BY <1>5, <4>1, <4>3, <6>1 DEF Read
        <5> QED BY <5>1, <5>2
      <4> HIDE DEF found
      <4>4. Read(i)' BY <1>1, <1>3, <3>1, <4>3 DEF Read
      <4> QED BY <4>2, <4>4
    <3> HIDE DEF found
    <3>4. InHand' BY <3>1, <3>2, <3>3 DEF InHand
    <3> QED BY <1>1, <1>3, <3>1, <3>4 DEF DInv, Ordered, Repeats
  <2> QED BY <1>2, <2>1, <2>2, <2>3 DEF Collected
<1> QED BY <1>3, <1>9 DEF Ordered

\* The item is the first that is neither recorded nor posted before another one.
LEMMA ItemFacts ==
    ASSUME DInv, bridge.step \in {"post", "record"}
    PROVE  /\ Item \in bridge.batch /\ Item \in PublicEvents /\ Item \notin recorded /\ Item \in Nat
           /\ \A k \in bridge.batch : Item <= k
           /\ \A n \in PublicEvents : n < Item => n \in recorded \/ Overtaken(n, Item)
           /\ \A x \in Posted : x <= Item \/ Overtaken(Item, x)
<1>1. Closed(bridge.batch) /\ bridge.batch # {} BY DEF DInv, Ordered, InHand, Posting
<1>2. Item \in bridge.batch /\ \A k \in bridge.batch : Item <= k
  BY <1>1, ItemIsFirst DEF DInv, Closed
<1>3. \A n \in PublicEvents : n \in Nat BY PostedFacts DEF DInv, Ordered
<1>4. Item \in PublicEvents /\ Item \notin recorded /\ Item \in Nat BY <1>1, <1>2, <1>3 DEF Closed
<1>5. ASSUME NEW n \in PublicEvents, n < Item PROVE n \in recorded \/ Overtaken(n, Item)
  <2>1. ASSUME n \in bridge.batch PROVE FALSE
    <3>1. Item <= n /\ n \in Nat BY <1>2, <1>3, <2>1
    <3> QED BY <1>4, <1>5, <3>1
  <2> QED BY <1>1, <1>2, <1>5, <2>1 DEF Closed
<1>6. ASSUME NEW x \in Posted PROVE x <= Item \/ Overtaken(Item, x)
  <2>1. x \in PublicEvents /\ x \in Nat BY <1>3, PostedFacts DEF DInv, Ordered
  <2>2. Item < x => Overtaken(Item, x) BY <1>4 DEF DInv, Ordered, Delivery
  <2> QED BY <1>4, <2>1, <2>2
<1> QED BY <1>2, <1>4, <1>5, <1>6

\* The item is shown, once more or for the first time.
LEMMA ShowsStep ==
    ASSUME DInv, bridge.step = "post", Shows(Item), UNCHANGED <<jobs, log, recorded>>
    PROVE  /\ Delivery' /\ InOrder' /\ Posted' = Posted \cup {Item} /\ PublicEvents' = PublicEvents
           /\ \A n, x : Overtaken(n, x)' = Overtaken(n, x)
           /\ Item \in bridge.batch /\ \A k \in bridge.batch : Item <= k
           /\ IsFiniteSet(Posted') /\ Len(posts') <= Cardinality(recorded) + losses + 1
<1>1. posts' = Append(posts, Item) \/ (Item \in Posted /\ posts' = posts) BY DEF Shows, Posted
<1>2. /\ PublicEvents' = PublicEvents /\ \A n, x : Overtaken(n, x)' = Overtaken(n, x)
  BY DEF PublicEvents, Overtaken, Open, Exists
<1>3. /\ Item \in bridge.batch /\ Item \in PublicEvents /\ Item \notin recorded /\ Item \in Nat
      /\ \A k \in bridge.batch : Item <= k
      /\ \A n \in PublicEvents : n < Item => n \in recorded \/ Overtaken(n, Item)
      /\ \A x \in Posted : x <= Item \/ Overtaken(Item, x)
  BY ItemFacts
<1>4. posts \in Seq(PublicEvents) /\ recorded \subseteq Posted BY DEF DInv, Ordered, Delivery
<1>5. /\ Len(posts) \in Nat /\ DOMAIN posts = 1..Len(posts)
      /\ \A i \in DOMAIN posts : posts[i] \in Posted
      /\ \A n \in PublicEvents : n \in Nat
  BY PostedFacts DEF DInv, Ordered
<1>6. posts' = Append(posts, Item) =>
         /\ posts' \in Seq(PublicEvents) /\ Len(posts') = Len(posts) + 1
         /\ DOMAIN posts' = 1..(Len(posts) + 1)
         /\ \A i \in DOMAIN posts : posts'[i] = posts[i]
         /\ posts'[Len(posts) + 1] = Item
  BY <1>3, <1>4
<1>7. Posted' = Posted \cup {Item}
  <2>1. CASE Item \in Posted /\ posts' = posts
    <3>1. Posted' = Posted BY <2>1 DEF Posted
    <3> QED BY <2>1, <3>1
  <2>2. CASE posts' = Append(posts, Item)
    <3>1. \A x \in Posted' : x \in Posted \cup {Item} BY <1>5, <1>6, <2>2 DEF Posted
    <3>2. Posted \subseteq Posted' BY <1>5, <1>6, <2>2 DEF Posted
    <3>3. Item \in Posted'
      <4>1. Len(posts) + 1 \in DOMAIN posts' /\ posts'[Len(posts) + 1] = Item BY <1>5, <1>6, <2>2
      <4> QED BY <4>1 DEF Posted
    <3> QED BY <3>1, <3>2, <3>3
  <2> QED BY <1>1, <2>1, <2>2
<1>8. Delivery'
  <2>1. posts' \in Seq(PublicEvents') BY <1>1, <1>2, <1>4, <1>6
  <2>2. recorded' \subseteq Posted' BY <1>4, <1>7
  <2>3. \A x \in Posted', n \in PublicEvents' : n < x => n \in recorded' \/ Overtaken(n, x)'
    BY <1>2, <1>3, <1>7 DEF DInv, Ordered, Delivery
  <2> QED BY <2>1, <2>2, <2>3 DEF Delivery
<1>9. InOrder'
  <2>1. CASE posts' = posts BY <1>2, <2>1 DEF DInv, Ordered, InOrder
  <2>2. CASE posts' = Append(posts, Item)
    <3> SUFFICES ASSUME NEW i \in DOMAIN posts', NEW k \in DOMAIN posts', i < k
                 PROVE  posts'[i] <= posts'[k] \/ Overtaken(posts'[k], posts'[i])
      BY <1>2 DEF InOrder
    <3>1. i \in DOMAIN posts /\ posts'[i] = posts[i] /\ posts[i] \in Posted BY <1>5, <1>6, <2>2
    <3>2. CASE k = Len(posts) + 1 BY <1>3, <1>6, <2>2, <3>1, <3>2
    <3>3. CASE k # Len(posts) + 1
      <4>1. k \in DOMAIN posts /\ posts'[k] = posts[k] BY <1>5, <1>6, <2>2, <3>3
      <4> QED BY <3>1, <4>1 DEF DInv, Ordered, InOrder
    <3> QED BY <3>2, <3>3
  <2> QED BY <1>1, <2>1, <2>2
<1>10. IsFiniteSet(Posted') BY <1>7, CountFacts, FS_AddElement
<1>11. Len(posts') <= Cardinality(recorded) + losses + 1
  <2>1. Len(posts) <= Cardinality(recorded) + losses BY DEF DInv, Ordered, Repeats
  <2>2. Len(posts') = Len(posts) \/ Len(posts') = Len(posts) + 1 BY <1>1, <1>6
  <2> QED BY <2>1, <2>2, CountFacts
<1> QED BY <1>2, <1>3, <1>7, <1>8, <1>9, <1>10, <1>11

LEMMA PostStep == ASSUME DInv, Post PROVE Ordered'
<1>1. /\ UNCHANGED <<jobs, log, recorded, losses>> /\ bridge.step = "post" /\ Shows(Item)
      /\ bridge' = [bridge EXCEPT !.step = "record"]
  BY DEF Post, conversationVars, workforceVars
<1>2. bridge'.step = "record" /\ bridge'.batch = bridge.batch BY <1>1 DEF DInv, CInv, Shape, Bridge
<1>3. /\ Delivery' /\ InOrder' /\ Posted' = Posted \cup {Item} /\ PublicEvents' = PublicEvents
      /\ \A n, x : Overtaken(n, x)' = Overtaken(n, x)
      /\ Item \in bridge.batch /\ \A k \in bridge.batch : Item <= k
      /\ IsFiniteSet(Posted') /\ Len(posts') <= Cardinality(recorded) + losses + 1
  BY <1>1, ShowsStep
<1>4. Closed(bridge.batch)'
  <2>1. Closed(bridge.batch) BY <1>1 DEF DInv, Ordered, InHand, Posting
  <2> QED BY <1>1, <1>2, <1>3, <2>1 DEF Closed
<1>5. \E x \in bridge'.batch \cap Posted' : \A k \in bridge'.batch : x <= k BY <1>2, <1>3
<1>6. InHand' BY <1>2, <1>4, <1>5 DEF InHand
<1>7. Repeats' BY <1>1, <1>2, <1>3 DEF Repeats
<1> QED BY <1>3, <1>6, <1>7 DEF Ordered

LEMMA PostUnansweredStep == ASSUME DInv, PostUnanswered PROVE Ordered'
<1>1. /\ UNCHANGED <<jobs, log, recorded>> /\ losses' = losses + 1 /\ bridge.step = "post"
      /\ Shows(Item) /\ bridge'.step = "idle"
  BY DEF PostUnanswered, Idle, conversationVars, workforceVars
<1>2. /\ Delivery' /\ InOrder'
      /\ IsFiniteSet(Posted') /\ Len(posts') <= Cardinality(recorded) + losses + 1
  BY <1>1, ShowsStep
<1>3. InHand' BY <1>1 DEF InHand, Posting
<1>4. Repeats'
  <2>1. Len(posts') <= Cardinality(recorded') + losses' BY <1>1, <1>2, CountFacts
  <2>2. Len(posts') <= Cardinality(recorded') + losses' + 1
    <3>1. Len(posts') <= Cardinality(recorded) + losses + 1 BY <1>2
    <3>2. Len(posts') \in Nat
      <4>1. posts' \in Seq(PublicEvents') BY <1>2 DEF Delivery
      <4> QED BY <4>1
    <3> QED BY <1>1, <3>1, <3>2, CountFacts
  <2> QED BY <1>1, <1>2, <2>1, <2>2 DEF Repeats
<1> QED BY <1>2, <1>3, <1>4 DEF Ordered

\* The event just posted is recorded.
LEMMA RecordStep == ASSUME DInv, RecordDelivery PROVE Ordered'
<1>1. /\ UNCHANGED <<jobs, log, posts, losses>> /\ bridge.step = "record" /\ bridge' = NextItem
      /\ recorded' = recorded \cup {Item}
  BY DEF RecordDelivery, conversationVars, workforceVars
<1>2. /\ PublicEvents' = PublicEvents /\ Posted' = Posted
      /\ \A n, x : Overtaken(n, x)' = Overtaken(n, x)
  BY <1>1 DEF PublicEvents, Posted, Overtaken, Open, Exists
<1>3. /\ Item \in bridge.batch /\ Item \in PublicEvents /\ Item \notin recorded /\ Item \in Nat
      /\ \A k \in bridge.batch : Item <= k
  BY <1>1, ItemFacts
<1>4. Item \in Posted
  <2>1. PICK x \in bridge.batch \cap Posted : \A k \in bridge.batch : x <= k
    BY <1>1 DEF DInv, Ordered, InHand
  <2>2. x \in Nat
    <3>1. \A n \in PublicEvents : n \in Nat BY PostedFacts DEF DInv, Ordered
    <3>2. x \in PublicEvents BY PostedFacts DEF DInv, Ordered
    <3> QED BY <3>1, <3>2
  <2>3. x <= Item /\ Item <= x BY <1>3, <2>1
  <2>4. x = Item BY <1>3, <2>2, <2>3
  <2> QED BY <2>1, <2>4
<1>5. Delivery' BY <1>1, <1>2, <1>4 DEF DInv, Ordered, Delivery
<1>6. InOrder' BY <1>1, <1>2 DEF DInv, Ordered, InOrder
<1>7. Cardinality(recorded') = Cardinality(recorded) + 1 BY <1>1, <1>3, CountFacts, FS_AddElement
<1>8. Repeats'
  <2>1. Len(posts) <= Cardinality(recorded) + losses + 1 /\ IsFiniteSet(Posted)
    BY DEF DInv, Ordered, Repeats
  <2>2. Len(posts) <= Cardinality(recorded') + losses /\ Len(posts) <= Cardinality(recorded') + losses + 1
    BY <1>7, <2>1, CountFacts
  <2> QED BY <1>1, <1>2, <2>1, <2>2 DEF Repeats
<1>9. InHand'
  <2>1. CASE bridge' = Idle BY <2>1 DEF InHand, Posting, Idle
  <2>2. CASE bridge.batch # {Item}
    <3>1. bridge' = [bridge EXCEPT !.step = "post", !.batch = bridge.batch \ {Item}]
      BY <1>1, <2>2 DEF NextItem
    <3>2. bridge'.step = "post" /\ bridge'.batch = bridge.batch \ {Item}
      BY <3>1 DEF DInv, CInv, Shape, Bridge
    <3>3. Closed(bridge.batch) BY <1>1 DEF DInv, Ordered, InHand, Posting
    <3>4. Closed(bridge.batch)' BY <1>1, <1>2, <3>2, <3>3 DEF Closed
    <3>5. bridge'.batch # {} BY <1>3, <2>2, <3>2
    <3> QED BY <3>2, <3>4, <3>5 DEF InHand
  <2> QED BY <1>1, <2>1, <2>2 DEF NextItem
<1> QED BY <1>5, <1>6, <1>8, <1>9 DEF Ordered

LEMMA HoldStep == ASSUME DInv, Hold PROVE Ordered'
<1>1. /\ UNCHANGED <<jobs, log, posts, recorded, losses>> /\ bridge.step = "post" /\ bridge'.step = "idle"
  BY DEF Hold, Idle, aside, conversationVars, workforceVars
<1>2. Delivery' /\ InOrder' /\ Posted' = Posted BY <1>1, SameDelivery
<1>3. Repeats' /\ InHand' BY <1>1, <1>2 DEF DInv, Ordered, Repeats, InHand, Posting
<1> QED BY <1>2, <1>3 DEF Ordered

\* A crash before the delivery is recorded has the event posted again.
LEMMA CrashStep == ASSUME DInv, CrashBridge PROVE Ordered'
<1>1. /\ UNCHANGED <<jobs, log, posts, recorded>> /\ bridge'.step = "idle" /\ losses' = losses + 1
  BY DEF CrashBridge, Idle, conversationVars, workforceVars
<1>2. Delivery' /\ InOrder' /\ Posted' = Posted BY <1>1, SameDelivery
<1>3. InHand' BY <1>1 DEF InHand, Posting
<1>4. Len(posts) <= Cardinality(recorded) + losses + 1 /\ IsFiniteSet(Posted)
  BY DEF DInv, Ordered, Repeats
<1>5. /\ Len(posts) <= Cardinality(recorded) + losses'
      /\ Len(posts) <= Cardinality(recorded) + losses' + 1
  BY <1>1, <1>4, CountFacts
<1>6. Repeats' BY <1>1, <1>2, <1>4, <1>5 DEF Repeats
<1> QED BY <1>2, <1>3, <1>6 DEF Ordered

-----------------------------------------------------------------------------
(* The rows of the jobs *)

LEMMA Row ==
    ASSUME CInv, Limits, NEW j \in Id
    PROVE  jobs[j] \in Job /\ jobs[j] \in ProofJob /\ Job \subseteq ProofJob
<1>1. Job \subseteq ProofJob BY WorkforceAssumption DEF Job, ProofJob
<1> QED BY <1>1, JobRow DEF Limits

\* One job goes on, or ends.
LEMMA RowEdited ==
    ASSUME CInv, Limits, NEW j \in Id, NEW row \in Job, jobs' = [jobs EXCEPT ![j] = row],
           row.kind = jobs[j].kind, row.source = jobs[j].source, row.era = jobs[j].era,
           \/ row.status = jobs[j].status
           \/ Open(j) /\ row.status \in Terminal
           \/ jobs[j].status = "queued" /\ row.status = "running"
    PROVE  jobs' \in [Id -> Job] /\ \A i \in Id : Kept(i)
<1>1. row \in ProofJob BY Row
<1>2. \A i \in Id : Kept(i) BY <1>1, EditJob
<1> QED BY <1>2 DEF Limits

LEMMA InvalidRow ==
    ASSUME CInv, Limits, NEW j \in Id
    PROVE  /\ Invalid(jobs[j]) \in Job /\ Cancelled(jobs[j]) \in Job
           /\ \A s \in Terminal : [Invalid(jobs[j]) EXCEPT !.status = s] \in Job
BY Row DEF Invalid, Cancelled, Job, Terminal

LEMMA StatusRow ==
    ASSUME CInv, Limits, NEW j \in Id, NEW s \in {"running"} \cup Terminal
    PROVE  LET row == [jobs[j] EXCEPT !.status = s]
           IN  /\ row \in Job /\ row.kind = jobs[j].kind /\ row.source = jobs[j].source
               /\ row.era = jobs[j].era /\ row.status = s
BY Row DEF Job, Terminal

LEMMA ApprovalRow ==
    ASSUME CInv, Limits, NEW j \in Id, NEW a \in {"none", "authorized", "executing"},
           jobs' = [jobs EXCEPT ![j].approval = a]
    PROVE  jobs' \in [Id -> Job] /\ \A i \in Id : Kept(i)
<1> DEFINE row == [jobs[j] EXCEPT !.approval = a]
<1>1. /\ row \in Job /\ row.kind = jobs[j].kind /\ row.source = jobs[j].source
      /\ row.era = jobs[j].era /\ row.status = jobs[j].status
  BY Row DEF Job
<1>2. jobs' = [jobs EXCEPT ![j] = row] OBVIOUS
<1> HIDE DEF row
<1> QED BY <1>1, <1>2, RowEdited

\* A call is charged only while the budget lasts.
LEMMA ChargedInJob ==
    ASSUME CInv, Limits, NEW j \in Id, jobs[j].calls < MaxCalls
    PROVE  Charged(jobs[j]) \in Job
<1>1. jobs[j].calls + 1 \in 0..MaxCalls BY Row, WorkforceAssumption DEF Job
<1> QED BY <1>1, Row DEF Charged, Job

LEMMA SampledInJob ==
    ASSUME CInv, Limits, NEW j \in Id, jobs[j].frames < MaxFrames
    PROVE  Sampled(jobs[j]) \in Job
<1> DEFINE job == [jobs[j] EXCEPT !.frames = jobs[j].frames + 1]
<1>1. jobs[j].frames + 1 \in 0..MaxFrames BY Row, WorkforceAssumption DEF Job
<1>2. job \in Job BY <1>1, Row DEF Job
<1>3. Sampled(jobs[j]) = [job EXCEPT !.unavailable = FALSE] BY Row DEF Sampled, Job
<1> HIDE DEF job
<1> QED BY <1>2, <1>3 DEF Job

LEMMA ReviewedInJob ==
    ASSUME CInv, Limits, NEW j \in Id, jobs[j].reviews < MaxReviews, NEW q \in Nat
    PROVE  Reviewed(jobs[j], q) \in Job
<1> DEFINE job  == [jobs[j] EXCEPT !.reviews = jobs[j].reviews + 1]
           seen == [job EXCEPT !.reviewed = q]
<1>1. jobs[j].reviews + 1 \in 0..MaxReviews BY Row, WorkforceAssumption DEF Job
<1>2. job \in Job BY <1>1, Row DEF Job
<1>3. Reviewed(jobs[j], q) = [seen EXCEPT !.pending = q] BY Row DEF Reviewed, Job
<1> HIDE DEF job
<1>4. seen \in Job BY <1>2 DEF Job
<1> HIDE DEF seen
<1> QED BY <1>3, <1>4 DEF Job

-----------------------------------------------------------------------------
(* What others do meanwhile *)

\* Jobs go on or end and events are logged, under the same authority and lease.
Steady == jobs' \in [Id -> Job] /\ (\A i \in Id : Kept(i)) /\ UNCHANGED <<employee, lease>>

LEMMA LaneKept == ASSUME CInv, Limits, Lane, Steady PROVE Lane'
<1>1. (\A i \in Id : Kept(i)) /\ UNCHANGED <<employee, lease>> BY DEF Steady
<1>2. \A i \in Id : /\ jobs'[i].status # "absent" <=> Exists(i)
                    /\ jobs'[i].status # "absent" /\ jobs'[i].status \notin Terminal =>
                          Open(i) /\ jobs'[i].kind = jobs[i].kind
  BY <1>1 DEF Kept, Open, Exists, Terminal
<1>3. lease # 0 => lease \in Id
  <2>1. MaxJobs \in Nat BY FS_CardinalityType, WorkforceAssumption DEF MaxJobs
  <2> QED BY <2>1 DEF Limits, Id
<1>4. lease' # 0 => Exists(lease)' BY <1>1, <1>2, <1>3 DEF Lane, Exists
<1>5. \A i, j \in Id : i < j /\ Exists(j)' => Exists(i)' BY <1>2 DEF Lane, Exists
<1>6. \A i \in Id : Exists(i)' <=> Exists(i) BY <1>2 DEF Exists
<1>7. \A i \in Id : Open(i)' => Open(i) /\ jobs'[i].kind = jobs[i].kind BY <1>2 DEF Open, Exists
<1>8. \A j : Last(j)' <=> Last(j) BY <1>6 DEF Last
<1>9. lease' # 0 /\ Open(lease)' => Last(lease)' BY <1>1, <1>3, <1>7, <1>8 DEF Lane
<1>10. employee'.state = "active" =>
          \A j \in Id : Open(j)' => jobs'[j].kind = "request" /\ lease' <= j /\ Last(j)'
  BY <1>1, <1>7, <1>8 DEF Lane
<1> QED BY <1>4, <1>5, <1>9, <1>10 DEF Lane

LEMMA SteadyCloses == ASSUME Steady PROVE Closing
BY DEF Steady, Kept, Closing, Open, Exists, Terminal

\* Nothing is posted meanwhile.
Unposted ==
    /\ UNCHANGED <<posts, recorded, losses>>
    /\ bridge' = bridge \/ (~Posting(bridge) /\ ~Posting(bridge'))
    /\ arrived' \subseteq Message /\ events' \in 0..MaxEvents /\ events <= events'

LEMMA UnpostedStep ==
    ASSUME DInv, CInv', LogGrows, Closing, Unposted, jobs' \in [Id -> Job], Lane',
           employee'.revision \in 1..(MaxChanges + 1), employee'.era < employee'.revision,
           lease' \in 0..MaxJobs, lease <= lease'
    PROVE  DInv'
<1>1. lease \in Nat /\ lease' \in Nat BY DEF DInv, Limits
<1>2. SaidInLane' BY <1>1, SaidInLaneKept DEF DInv
<1>3. Ordered' BY DeliveryKept DEF Unposted
<1>4. Limits' BY ChannelAssumption DEF DInv, Limits, Unposted
<1> QED BY <1>2, <1>3, <1>4 DEF DInv

LEMMA SteadyStep ==
    ASSUME DInv, CInv', LogGrows, Unposted, Steady PROVE DInv'
<1>1. Lane' /\ Closing BY LaneKept, SteadyCloses DEF DInv
<1>2. lease \in Nat BY DEF DInv, Limits
<1> QED BY <1>1, <1>2, UnpostedStep DEF DInv, Limits, Steady

\* Whoever logs something public has the desktop's lease.
LEMMA LogsGrow ==
    ASSUME NEW j \in Id, NEW m \in Message \cup {None}, NEW kind, Logs(j, kind, m),
           kind \in {"staff_message", "mentor_message", "assistant_message", "assistant_question",
                     "shadow_started", "shadow_observation", "shadow_notes", "shadow_unavailable",
                     "mentor_outcome"},
           kind \in Public => lease = j /\ (kind = "assistant_message" \/ Open(j))
    PROVE  LogGrows
<1> DEFINE e == [job |-> j, kind |-> kind, message |-> m]
<1>1. e \in Event BY DEF Event
<1>2. /\ log' = Append(log, e)
      /\ e.kind \in Public => e.job = lease /\ (e.kind = "assistant_message" \/ Open(lease))
  BY DEF Logs
<1> QED BY <1>1, <1>2 DEF LogGrows

LEMMA Same == ASSUME CInv, Limits, UNCHANGED <<employee, jobs, lease>> PROVE Steady
BY Untouched DEF Limits, Steady

\* Nothing but the process's own memory changes, or what has been sent.
LEMMA MemoryStep == ASSUME DInv, CInv', UNCHANGED conversationVars, Unposted PROVE DInv'
<1>1. UNCHANGED <<employee, jobs, lease, log>> BY DEF conversationVars, workforceVars
<1>2. Steady /\ LogGrows BY <1>1, Same DEF LogGrows, DInv
<1> QED BY <1>2, SteadyStep

LEMMA Passes == 
    ASSUME DInv PROVE /\ UNCHANGED <<posts, recorded, losses, arrived, events, bridge>> => Unposted
                      /\ events \in Nat
BY ChannelAssumption DEF DInv, Limits, Unposted

-----------------------------------------------------------------------------
(* The bridge receives *)

LEMMA ReceiveUnposted ==
    ASSUME DInv, Receive \/ (\E m \in Spoken : Arrives(m)) PROVE Unposted
<1>1. events \in Nat /\ arrived \subseteq Message /\ events \in 0..MaxEvents /\ MaxEvents \in Nat
  BY ChannelAssumption DEF DInv, Limits
<1>2. CASE Receive
  <2>0. bridge \in Bridge BY BridgeFacts DEF DInv
  <2>1. UNCHANGED aside /\ ~Posting(bridge)
    BY <1>2 DEF Receive, Search, TeachInChannel, ResolveEmployee, Create, FindOpen,
       FindQuestion, GuideInChannel, Posting
  <2>2. \A s \in Receiving : \A j :
           /\ ~Posting([bridge EXCEPT !.step = s]) /\ ~Posting([bridge EXCEPT !.step = s, !.job = j])
           /\ ~Posting([bridge EXCEPT !.step = s, !.reply = j])
    BY <2>0 DEF Bridge, Receiving, Posting
  <2>3. ~Posting(Idle) BY DEF Posting, Idle
  <2>4. ~Posting(bridge')
    <3>1. CASE Search BY <2>2, <2>3, <3>1 DEF Search, Receiving
    <3>2. CASE FindOpen \/ FindQuestion
      BY <2>2, <2>3, <3>2 DEF FindOpen, FindQuestion, Receiving
    <3>3. CASE TeachInChannel \/ ResolveEmployee \/ Create \/ GuideInChannel
      BY <2>2, <2>3, <3>3 DEF TeachInChannel, ResolveEmployee, Create, GuideInChannel, Receiving
    <3> QED BY <1>2, <3>1, <3>2, <3>3 DEF Receive
  <2> QED BY <1>1, <2>1, <2>4 DEF Unposted, aside
<1>3. ASSUME NEW m \in Spoken, Arrives(m) PROVE Unposted
  <2>1. m \in Message BY DEF Message
  <2>2. ~Posting(bridge) /\ ~Posting(bridge') BY <1>3 DEF Arrives, Posting, Idle
  <2>3. /\ UNCHANGED <<posts, recorded, losses>> /\ arrived' = arrived \cup {m}
        /\ events < MaxEvents /\ events' = events + 1
    BY <1>3 DEF Arrives, Happens
  <2>4. events' \in 0..MaxEvents /\ events <= events' BY <1>1, <2>3
  <2> QED BY <1>1, <2>1, <2>2, <2>3, <2>4 DEF Unposted
<1> QED BY <1>2, <1>3

LEMMA TeachGrows ==
    ASSUME DInv, CInv', NEW j \in Id, NEW m \in Message \cup {None}, Teach(j, m), Unposted
    PROVE  DInv'
<1>1. UNCHANGED <<employee, jobs, lease>> /\ Logs(j, "mentor_message", m) BY DEF Teach
<1>2. LogGrows BY <1>1, LogsGrow DEF Public
<1> QED BY <1>1, <1>2, Same, SteadyStep DEF DInv

LEMMA GuideGrows ==
    ASSUME DInv, CInv', NEW j \in Id, NEW m \in Message, NEW reply, Guide(j, m, reply), Unposted
    PROVE  DInv'
<1>1. /\ jobs' = [jobs EXCEPT ![j] = Invalid(jobs[j])] /\ Logs(j, "staff_message", m)
      /\ UNCHANGED <<employee, lease>>
  BY DEF Guide
<1>2. LogGrows BY <1>1, LogsGrow DEF Public
<1>3. Steady BY <1>1, InvalidRow, Invalidated, RowEdited DEF DInv, Steady
<1> QED BY <1>2, <1>3, SteadyStep

LEMMA Eras ==
    ASSUME DInv
    PROVE  /\ employee.era \in 0..MaxChanges /\ employee.revision \in Nat /\ MaxChanges \in Nat
           /\ lease \in Nat /\ (lease # 0 => lease \in Id) /\ MaxJobs \in Nat
<1>1. MaxJobs \in Nat BY FS_CardinalityType, WorkforceAssumption DEF MaxJobs
<1> QED BY <1>1, WorkforceAssumption DEF DInv, CInv, Shape, Limits, Id

LEMMA NoRow == NoJob \in Job /\ NoJob.kind = "request"
<1>1. /\ 0 \in 0..MaxChanges /\ 0 \in 0..MaxCalls /\ 0 \in 0..MaxFrames /\ 0 \in 0..MaxReviews
      /\ 0 \in Nat
  BY WorkforceAssumption
<1> QED BY <1>1 DEF Job, NoJob

\* A new job comes after all there are.
LEMMA NewRow ==
    ASSUME DInv, NEW j \in Id, Free(j), NEW row \in Job, jobs' = [jobs EXCEPT ![j] = row],
           row.status \in {"queued", "shadowing"}
    PROVE  /\ jobs' \in [Id -> Job] /\ lease < j /\ jobs'[j] = row
           /\ \A i \in Id : i # j => jobs'[i] = jobs[i]
           /\ \A i \in Id : i < j => Exists(i)
           /\ \A i, k \in Id : i < k /\ jobs'[k].status # "absent" => jobs'[i].status # "absent"
           /\ Last(j)' /\ Closing
<1>1. /\ jobs' \in [Id -> Job] /\ jobs'[j] = row
      /\ \A i \in Id : i # j => jobs'[i] = jobs[i]
  BY DEF DInv, Limits
<1>2. \A i \in Id : i \in Nat /\ i # 0 BY IdFacts
<1>3. \A i \in Id : i < j => Exists(i)
  <2> SUFFICES ASSUME NEW i \in Id, i < j PROVE Exists(i) OBVIOUS
  <2>1. i \in 1..(j - 1) BY Eras DEF Id
  <2> QED BY <2>1 DEF Free
<1>4. \A i \in Id : j < i => ~Exists(i) BY DEF Free, DInv, Lane
<1>5. lease < j BY <1>2, <1>4, Eras DEF Free, DInv, Lane
<1>6. ASSUME NEW i \in Id, NEW k \in Id, i < k, jobs'[k].status # "absent"
      PROVE  jobs'[i].status # "absent"
  <2>1. CASE k = j BY <1>1, <1>2, <1>3, <1>6, <2>1 DEF Exists
  <2>2. CASE k # j
    <3>1. Exists(k) /\ Exists(i) BY <1>1, <1>6, <2>2 DEF Exists, DInv, Lane
    <3> QED BY <1>1, <3>1 DEF Exists
  <2> QED BY <2>1, <2>2
<1>7. Last(j)' BY <1>1, <1>2, <1>4 DEF Last, Exists
<1>8. Closing BY <1>1 DEF Closing, Open, Exists, Free
<1> QED BY <1>1, <1>3, <1>5, <1>6, <1>7, <1>8

LEMMA CreateGrows ==
    ASSUME DInv, CInv', NEW m \in Spoken, CreateJob(m), Unposted PROVE DInv'
<1>1. PICK j \in Id : Free(j) /\ jobs' = [jobs EXCEPT ![j] = [NoJob EXCEPT !.status = "queued",
                                                    !.source = m, !.era = employee.era]]
  BY DEF CreateJob
<1>2. UNCHANGED <<employee, lease, log>> /\ \A i \in Id : ~Open(i) BY DEF CreateJob
<1> DEFINE row == [NoJob EXCEPT !.status = "queued", !.source = m, !.era = employee.era]
<1>3. row \in Job /\ row.status = "queued" /\ row.kind = "request"
  BY Eras, NoRow DEF Job, Message
<1>4. jobs' = [jobs EXCEPT ![j] = row] BY <1>1
<1> HIDE DEF row
<1>5. /\ jobs' \in [Id -> Job] /\ lease < j /\ jobs'[j] = row
      /\ \A i \in Id : i # j => jobs'[i] = jobs[i]
      /\ \A i, k \in Id : i < k /\ jobs'[k].status # "absent" => jobs'[i].status # "absent"
      /\ Last(j)' /\ Closing
  BY <1>1, <1>3, <1>4, NewRow
<1>6. lease \in Nat /\ j \in Nat /\ (lease # 0 => lease \in Id) BY Eras, IdFacts
<1>7. Lane'
  <2>1. lease' # 0 => Exists(lease)' BY <1>2, <1>5, <1>6 DEF DInv, Lane, Exists
  <2>2. \A i, k \in Id : i < k /\ Exists(k)' => Exists(i)' BY <1>5 DEF Exists
  <2>3. \A i \in Id : Open(i)' => jobs'[i].kind = "request" /\ lease' <= i /\ i = j
    BY <1>2, <1>3, <1>5, <1>6 DEF Open, Exists
  <2>4. lease' # 0 => ~Open(lease)' BY <1>2, <1>5, <1>6, <2>3
  <2> QED BY <1>5, <2>1, <2>2, <2>3, <2>4 DEF Lane
<1>8. LogGrows BY <1>2 DEF LogGrows
<1>9. /\ employee'.revision \in 1..(MaxChanges + 1) /\ employee'.era < employee'.revision
      /\ lease' \in 0..MaxJobs /\ lease <= lease'
  BY <1>2, <1>6 DEF DInv, Limits
<1> QED BY <1>5, <1>7, <1>8, <1>9, UnpostedStep

LEMMA ReceiveGrows == ASSUME DInv, CInv', Receive PROVE DInv'
<1>1. Unposted BY ReceiveUnposted
<1>2. CInv BY DEF DInv
<1>3. CASE UNCHANGED conversationVars BY <1>1, <1>3, MemoryStep
<1>4. CASE TeachInChannel /\ ~UNCHANGED conversationVars
  <2>1. bridge.job \in Id /\ bridge.message \in Message \cup {None} /\ Teach(bridge.job, bridge.message)
    BY <1>2, <1>4, BridgeFacts DEF TeachInChannel, BridgeOK, Receiving, Bridge
  <2> QED BY <1>1, <2>1, TeachGrows
<1>5. CASE Create /\ ~UNCHANGED conversationVars
  <2>1. bridge.message \in Spoken /\ CreateJob(bridge.message)
    BY <1>2, <1>5, BridgeFacts DEF Create, BridgeOK, Receiving
  <2> QED BY <1>1, <2>1, CreateGrows
<1>6. CASE GuideInChannel /\ ~UNCHANGED conversationVars
  <2>1. /\ bridge.job \in Id /\ bridge.message \in Message
        /\ Guide(bridge.job, bridge.message, bridge.reply)
    BY <1>2, <1>6, BridgeFacts DEF GuideInChannel, BridgeOK, Receiving, Bridge, Message
  <2> QED BY <1>1, <2>1, GuideGrows
<1>7. CASE Search \/ ResolveEmployee \/ FindOpen \/ FindQuestion
  BY <1>3, <1>7 DEF Search, ResolveEmployee, FindOpen, FindQuestion
<1> QED BY <1>3, <1>4, <1>5, <1>6, <1>7 DEF Receive

-----------------------------------------------------------------------------
(* The console *)

LEMMA WriteGrows == ASSUME DInv, CInv', NEW m \in Written, Write(m) PROVE DInv'
<1>0. m \in Message BY DEF Message
<1>1. Unposted
  <2>1. /\ UNCHANGED <<posts, recorded, losses, bridge>> /\ arrived' = arrived \cup {m}
        /\ events < MaxEvents /\ events' = events + 1
    BY DEF Write, staffVars, Happens
  <2> QED BY <1>0, <2>1, ChannelAssumption DEF DInv, Limits, Unposted
<1>2. ASSUME NEW j \in Id, NEW reply, Guide(j, m, reply) PROVE DInv'
  BY <1>0, <1>1, <1>2, GuideGrows
<1>3. ASSUME NEW j \in Id, Teach(j, None) PROVE DInv'
  BY <1>1, <1>3, TeachGrows
<1> QED BY <1>2, <1>3 DEF Write

LEMMA StopGrows == ASSUME DInv, CInv', NEW j \in Id, Stop(j), Unposted PROVE DInv'
<1>1. /\ Open(j) /\ jobs' = [jobs EXCEPT ![j] = Cancelled(jobs[j])]
      /\ UNCHANGED <<employee, lease, log>>
  BY DEF Stop
<1>2. LogGrows BY <1>1 DEF LogGrows
<1>3. Steady BY <1>1, InvalidRow, Invalidated, RowEdited DEF DInv, Steady, Terminal
<1> QED BY <1>2, <1>3, SteadyStep

LEMMA FinishGrows ==
    ASSUME DInv, CInv', NEW j \in Id, FinishDemonstration(j), Unposted PROVE DInv'
<1> DEFINE row == [jobs[j] EXCEPT !.status = "completed"]
<1>1. /\ Shown(j) /\ jobs' = [jobs EXCEPT ![j] = row] /\ Logs(j, "mentor_outcome", None)
      /\ UNCHANGED <<employee, lease>>
  BY DEF FinishDemonstration
<1>2. LogGrows BY <1>1, LogsGrow DEF Public
<1>3. /\ row \in Job /\ row.kind = jobs[j].kind /\ row.source = jobs[j].source
      /\ row.era = jobs[j].era /\ row.status = "completed"
  BY StatusRow DEF DInv, Terminal
<1> HIDE DEF row
<1>4. Open(j) BY <1>1 DEF Shown, Open, Exists, Terminal
<1>5. Steady BY <1>1, <1>3, <1>4, RowEdited DEF DInv, Steady, Terminal
<1> QED BY <1>2, <1>5, SteadyStep

LEMMA StartGrows ==
    ASSUME DInv, CInv', NEW j \in Id, StartDemonstration(j), Unposted PROVE DInv'
<1> DEFINE row == [NoJob EXCEPT !.kind = "demonstration", !.status = "shadowing", !.era = employee.era]
<1>1. /\ Free(j) /\ jobs' = [jobs EXCEPT ![j] = row] /\ Logs(j, "shadow_started", None)
      /\ employee.state = "shadowing" /\ lease' = j /\ UNCHANGED employee
  BY DEF StartDemonstration
<1>2. row \in Job /\ row.status = "shadowing" BY Eras, NoRow DEF Job
<1> HIDE DEF row
<1>3. /\ jobs' \in [Id -> Job] /\ lease < j /\ jobs'[j] = row
      /\ \A i, k \in Id : i < k /\ jobs'[k].status # "absent" => jobs'[i].status # "absent"
      /\ Last(j)' /\ Closing
  BY <1>1, <1>2, NewRow
<1>4. Lane' BY <1>1, <1>2, <1>3 DEF Lane, Exists
<1>5. LogGrows BY <1>1, LogsGrow DEF Public
<1>6. /\ employee'.revision \in 1..(MaxChanges + 1) /\ employee'.era < employee'.revision
      /\ lease' \in 0..MaxJobs /\ lease <= lease'
  BY <1>1, <1>3, Eras, IdFacts DEF DInv, Limits, Id
<1> QED BY <1>3, <1>4, <1>5, <1>6, UnpostedStep

\* The employee changes: what is open goes, or stays as it is.
LEMMA BecomesFacts ==
    ASSUME DInv, NEW state, Becomes(state)
    PROVE  /\ employee'.state = state
           /\ employee'.revision \in 1..(MaxChanges + 1) /\ employee'.era < employee'.revision
<1>1. /\ employee'.state = state /\ employee'.revision = employee.revision + 1
      /\ employee'.era \in {employee.era, employee.era + 1} /\ employee.revision <= MaxChanges
  BY DEF Becomes
<1>2. employee.revision \in Nat /\ employee.era \in Nat /\ employee.era < employee.revision
  BY Eras DEF DInv, Limits
<1> QED BY <1>1, <1>2, Eras

LEMMA ScopeGrows == ASSUME DInv, CInv', ScopeChanged, Unposted PROVE DInv'
<1>1. UNCHANGED <<jobs, lease, log>> /\ Becomes("paused") BY DEF ScopeChanged
<1>2. /\ employee'.state = "paused"
      /\ employee'.revision \in 1..(MaxChanges + 1) /\ employee'.era < employee'.revision
  BY <1>1, BecomesFacts
<1>3. Lane' BY <1>1, <1>2 DEF DInv, Lane, Last, Open, Exists
<1>4. LogGrows BY <1>1 DEF LogGrows
<1>5. jobs' \in [Id -> Job] /\ lease' \in 0..MaxJobs /\ lease <= lease' BY <1>1, Eras DEF DInv, Limits
<1>6. Closing BY <1>1 DEF Closing, Open, Exists
<1> QED BY <1>2, <1>3, <1>4, <1>5, <1>6, UnpostedStep

LEMMA ChangeGrows ==
    ASSUME DInv, CInv', NEW state \in States, Change(state), Unposted PROVE DInv'
<1>1. UNCHANGED <<lease, log>> /\ Becomes(state) BY DEF Change
<1>2. /\ employee'.state = state
      /\ employee'.revision \in 1..(MaxChanges + 1) /\ employee'.era < employee'.revision
  BY <1>1, BecomesFacts
<1>3. LogGrows BY <1>1 DEF LogGrows
<1>4. CASE state = employee.state
  <2>1. UNCHANGED jobs BY <1>4 DEF Change
  <2>2. Lane' BY <1>1, <1>2, <1>4, <2>1 DEF DInv, Lane, Last, Exists, Open
  <2>3. jobs' \in [Id -> Job] /\ lease' \in 0..MaxJobs /\ lease <= lease'
    BY <1>1, <2>1, Eras DEF DInv, Limits
  <2>4. Closing BY <2>1 DEF Closing, Open, Exists
  <2> QED BY <1>2, <1>3, <2>2, <2>3, <2>4, UnpostedStep
<1>5. CASE state # employee.state
  <2>1. jobs' = [i \in Id |-> IF Open(i) THEN Cancelled(jobs[i]) ELSE jobs[i]] BY <1>5 DEF Change
  <2>2. \A i \in Id : /\ jobs'[i] \in Job
                      /\ jobs'[i].status # "absent" <=> Exists(i)
                      /\ jobs'[i].status # "absent" => jobs'[i].status \in Terminal
    <3> SUFFICES ASSUME NEW i \in Id
                 PROVE  /\ jobs'[i] \in Job
                        /\ jobs'[i].status # "absent" <=> Exists(i)
                        /\ jobs'[i].status # "absent" => jobs'[i].status \in Terminal
      OBVIOUS
    <3>1. CASE Open(i)
      <4>1. jobs'[i] = Cancelled(jobs[i]) BY <2>1, <3>1
      <4> QED BY <3>1, <4>1, InvalidRow, Invalidated DEF DInv, Open, Exists, Terminal
    <3>2. CASE ~Open(i)
      <4>1. jobs'[i] = jobs[i] BY <2>1, <3>2
      <4> QED BY <3>2, <4>1, Row DEF DInv, Open, Exists
    <3> QED BY <3>1, <3>2
  <2>3. Lane'
    <3>1. lease' # 0 => Exists(lease)' BY <1>1, <2>2, Eras DEF DInv, Lane, Exists
    <3>2. \A i, k \in Id : i < k /\ Exists(k)' => Exists(i)' BY <2>2 DEF DInv, Lane, Exists
    <3>3. \A i \in Id : ~Open(i)' BY <2>2 DEF Open, Exists
    <3>4. lease' # 0 => ~Open(lease)' BY <1>1, <3>3, Eras
    <3> QED BY <3>1, <3>2, <3>3, <3>4 DEF Lane
  <2>4. jobs' \in [Id -> Job] BY <2>1, <2>2
  <2>5. lease' \in 0..MaxJobs /\ lease <= lease' BY <1>1, Eras DEF DInv, Limits
  <2>6. Closing BY <2>2 DEF Closing, Open, Exists
  <2> QED BY <1>2, <1>3, <2>3, <2>4, <2>5, <2>6, UnpostedStep
<1> QED BY <1>4, <1>5

LEMMA ConsoleGrows == ASSUME DInv, CInv', Console PROVE DInv'
<1>1. Unposted
  <2>1. /\ UNCHANGED <<posts, recorded, losses, bridge, arrived>>
        /\ events < MaxEvents /\ events' = events + 1
    BY DEF Console, staffVars, Happens
  <2> QED BY <2>1, ChannelAssumption DEF DInv, Limits, Unposted
<1> QED BY <1>1, StopGrows, StartGrows, FinishGrows, ChangeGrows, ScopeGrows DEF Console

-----------------------------------------------------------------------------
(* The planner *)

\* The first queued request is the only open one, and younger than the last one leased.
LEMMA ClaimGrows == ASSUME DInv, CInv', Claim PROVE DInv'
<1>1. PICK j \in Id : /\ jobs[j].status = "queued" /\ jobs' = [jobs EXCEPT ![j].status = "running"]
                      /\ lease' = j
  BY DEF Claim
<1>2. /\ employee.state = "active" /\ UNCHANGED <<employee, log>> /\ UNCHANGED channelVars
  BY DEF Claim
<1> DEFINE row == [jobs[j] EXCEPT !.status = "running"]
<1>3. /\ row \in Job /\ row.kind = jobs[j].kind /\ row.source = jobs[j].source
      /\ row.era = jobs[j].era /\ row.status = "running"
  BY StatusRow DEF DInv
<1>4. jobs' = [jobs EXCEPT ![j] = row] BY <1>1
<1> HIDE DEF row
<1>5. jobs' \in [Id -> Job] /\ (\A i \in Id : Kept(i)) BY <1>1, <1>3, <1>4, RowEdited DEF DInv
<1>6. \A i \in Id : /\ jobs'[i].status # "absent" <=> Exists(i)
                    /\ jobs'[i].status # "absent" /\ jobs'[i].status \notin Terminal =>
                          Open(i) /\ jobs'[i].kind = jobs[i].kind
  BY <1>5 DEF Kept, Open, Exists, Terminal
<1>7. Open(j) /\ lease <= j BY <1>1, <1>2 DEF Open, Exists, Terminal, DInv, Lane
<1>8. \A i \in Id : Open(i) => i = j /\ jobs[i].kind = "request"
  BY <1>2, <1>7 DEF DInv, Lane, CInv, OneOpenRequest, Serves
<1>9. Lane'
  <2>1. lease' # 0 => Exists(lease)' BY <1>1, <1>6, <1>7 DEF Exists, Open
  <2>2. \A i, k \in Id : i < k /\ Exists(k)' => Exists(i)' BY <1>6 DEF DInv, Lane, Exists
  <2>3. \A i \in Id : Open(i)' => jobs'[i].kind = "request" /\ lease' <= i /\ i = j
    BY <1>1, <1>6, <1>8, IdFacts DEF Open, Exists
  <2>4. Last(j) BY <1>2, <1>7 DEF DInv, Lane
  <2>5. Last(j)' BY <1>6, <2>4 DEF Last, Exists
  <2> QED BY <1>1, <2>1, <2>2, <2>3, <2>5 DEF Lane
<1>10. LogGrows BY <1>2 DEF LogGrows
<1>11. Unposted BY <1>2, Passes DEF channelVars
<1>12. /\ employee'.revision \in 1..(MaxChanges + 1) /\ employee'.era < employee'.revision
       /\ lease' \in 0..MaxJobs /\ lease <= lease'
  BY <1>1, <1>2, <1>7, Eras, IdFacts DEF DInv, Limits, Id
<1>13. Closing BY <1>6 DEF Closing, Open, Exists
<1> QED BY <1>5, <1>9, <1>10, <1>11, <1>12, <1>13, UnpostedStep

LEMMA TurnUnposted == ASSUME DInv, NEW j, Turn(j) \/ Yield PROVE Unposted
<1>1. UNCHANGED <<bridge, arrived, posts, recorded, events, losses>>
  BY DEF Turn, TakeTurn, Reply, Propose, Begin, AskStaff, EndTurn, Yield, turnVars, channelVars
<1> QED BY <1>1, Passes

LEMMA EndsGrow ==
    ASSUME DInv, CInv', NEW j \in Id, NEW s \in Terminal, Works(j), Unposted,
           jobs' = [jobs EXCEPT ![j] = [Invalid(jobs[j]) EXCEPT !.status = s]],
           UNCHANGED <<employee, lease, log>>
    PROVE  DInv'
<1> DEFINE row == [Invalid(jobs[j]) EXCEPT !.status = s]
<1>1. /\ row \in Job /\ row.kind = jobs[j].kind /\ row.source = jobs[j].source
      /\ row.era = jobs[j].era /\ row.status = s
  BY InvalidRow, Invalidated DEF DInv
<1>2. jobs' = [jobs EXCEPT ![j] = row] OBVIOUS
<1> HIDE DEF row
<1>3. Steady BY <1>1, <1>2, WorksFacts, RowEdited DEF DInv, Steady
<1>4. LogGrows BY DEF LogGrows
<1> QED BY <1>3, <1>4, SteadyStep

LEMMA TurnGrows == ASSUME DInv, CInv', NEW j \in Id, Turn(j) PROVE DInv'
<1>0. Unposted BY TurnUnposted
<1>1. CASE TakeTurn(j)
  <2>1. Works(j) /\ UNCHANGED <<employee, lease, log>> BY <1>1 DEF TakeTurn
  <2>2. LogGrows BY <2>1 DEF LogGrows
  <2>3. CASE jobs[j].calls < MaxCalls
    <3>1. jobs' = [jobs EXCEPT ![j] = Charged(jobs[j])] BY <1>1, <2>3 DEF TakeTurn
    <3>2. Charged(jobs[j]) \in Job BY <2>3, ChargedInJob DEF DInv
    <3>3. Steady BY <2>1, <3>1, <3>2, ChargedRow, RowEdited DEF DInv, Steady
    <3> QED BY <1>0, <2>2, <3>3, SteadyStep
  <2>4. CASE ~(jobs[j].calls < MaxCalls)
    <3>1. jobs' = [jobs EXCEPT ![j] = [Invalid(jobs[j]) EXCEPT !.status = "failed"]]
      BY <1>1, <2>4 DEF TakeTurn
    <3> QED BY <1>0, <2>1, <3>1, EndsGrow DEF Terminal
  <2> QED BY <2>3, <2>4
<1>2. CASE Reply(j)
  <2>1. /\ lease = j /\ Logs(j, "assistant_message", None) /\ UNCHANGED <<employee, jobs, lease>>
    BY <1>2 DEF Reply, Assigned
  <2>2. LogGrows BY <2>1, LogsGrow
  <2>3. Steady BY <2>1, Same DEF DInv
  <2> QED BY <1>0, <2>2, <2>3, SteadyStep
<1>3. CASE Propose(j) \/ Begin(j)
  <2>1. /\ \E a \in {"authorized", "executing"} : jobs' = [jobs EXCEPT ![j].approval = a]
        /\ UNCHANGED <<employee, lease, log>>
    BY <1>3 DEF Propose, Begin
  <2>2. Steady BY <2>1, ApprovalRow DEF DInv, Steady
  <2>3. LogGrows BY <2>1 DEF LogGrows
  <2> QED BY <1>0, <2>2, <2>3, SteadyStep
<1>4. CASE AskStaff(j)
  <2>1. /\ jobs' = [jobs EXCEPT ![j].approval = "none"] /\ UNCHANGED <<employee, lease>>
        /\ UNCHANGED log \/ (LegacyLease = j /\ Open(j) /\ Logs(j, "assistant_question", None))
    BY <1>4 DEF AskStaff, Ask, MayAsk
  <2>2. Steady BY <2>1, ApprovalRow DEF DInv, Steady
  <2>3. LogGrows
    <3>1. LegacyLease = j => lease = j BY IdFacts DEF LegacyLease
    <3> QED BY <2>1, <3>1, LogsGrow DEF LogGrows
  <2> QED BY <1>0, <2>2, <2>3, SteadyStep
<1>5. ASSUME NEW s \in {"completed", "failed"}, EndTurn(j, s) PROVE DInv'
  BY <1>0, <1>5, EndsGrow DEF EndTurn, Terminal
<1> QED BY <1>1, <1>2, <1>3, <1>4, <1>5 DEF Turn

LEMMA YieldGrows == ASSUME DInv, CInv', Yield PROVE DInv'
BY TurnUnposted, MemoryStep DEF Yield

-----------------------------------------------------------------------------
(* The observation service *)

LEMMA ShownGrows ==
    ASSUME DInv, CInv', NEW j \in Id, Observed(j), NEW row \in Job, jobs' = [jobs EXCEPT ![j] = row],
           row.kind = jobs[j].kind, row.source = jobs[j].source, row.era = jobs[j].era,
           row.status = jobs[j].status \/ row.status \in Terminal,
           \/ UNCHANGED log
           \/ \E kind \in {"shadow_observation", "shadow_notes", "shadow_unavailable"} : Logs(j, kind, None),
           UNCHANGED <<employee, lease>>, Unposted
    PROVE  DInv'
<1>1. Open(j) /\ lease = j BY DEF Observed, Shown, Open, Exists, Terminal
<1>2. Steady BY <1>1, RowEdited DEF DInv, Steady
<1>3. LogGrows BY <1>1, LogsGrow DEF LogGrows
<1> QED BY <1>2, <1>3, SteadyStep

LEMMA ReportErrorGrows ==
    ASSUME DInv, CInv', NEW j \in Id, ReportError(j), Unposted PROVE DInv'
<1> DEFINE row == [jobs[j] EXCEPT !.unavailable = TRUE]
<1>1. /\ row \in Job /\ row.kind = jobs[j].kind /\ row.source = jobs[j].source
      /\ row.era = jobs[j].era /\ row.status = jobs[j].status
  BY Row DEF DInv, Job
<1>2. /\ Observed(j) /\ jobs' = [jobs EXCEPT ![j] = row] /\ UNCHANGED <<employee, lease>>
      /\ (UNCHANGED log \/ Logs(j, "shadow_unavailable", None))
  BY DEF ReportError
<1> HIDE DEF row
<1> QED BY <1>1, <1>2, ShownGrows

LEMMA TimeLimitGrows ==
    ASSUME DInv, CInv', NEW j \in Id, TimeLimit(j), Unposted PROVE DInv'
<1> DEFINE row == [jobs[j] EXCEPT !.status = "cancelled"]
<1>1. /\ row \in Job /\ row.kind = jobs[j].kind /\ row.source = jobs[j].source
      /\ row.era = jobs[j].era /\ row.status \in Terminal
  BY StatusRow DEF DInv, Terminal
<1>2. Observed(j) /\ jobs' = [jobs EXCEPT ![j] = row] /\ UNCHANGED <<employee, lease, log>>
  BY DEF TimeLimit
<1> HIDE DEF row
<1> QED BY <1>1, <1>2, ShownGrows

LEMMA NotesGrow ==
    ASSUME DInv, CInv', NEW j \in Id, NEW q, Notes(j, q), Unposted PROVE DInv'
<1> DEFINE row == [jobs[j] EXCEPT !.pending = 0]
<1>1. /\ row \in Job /\ row.kind = jobs[j].kind /\ row.source = jobs[j].source
      /\ row.era = jobs[j].era /\ row.status = jobs[j].status
  BY Row DEF DInv, Job
<1>2. /\ Observed(j) /\ jobs' = [jobs EXCEPT ![j] = row] /\ UNCHANGED <<employee, lease>>
      /\ Logs(j, "shadow_notes", None)
  BY DEF Notes, MayNote
<1> HIDE DEF row
<1> QED BY <1>1, <1>2, ShownGrows

LEMMA CaptureGrows ==
    ASSUME DInv, CInv', NEW j \in Id, Capture(j), Unposted PROVE DInv'
<1>1. /\ Observed(j) /\ jobs[j].frames < MaxFrames /\ jobs' = [jobs EXCEPT ![j] = Sampled(jobs[j])]
      /\ Logs(j, "shadow_observation", None) /\ UNCHANGED <<employee, lease>>
  BY DEF Capture
<1>2. Sampled(jobs[j]) \in Job BY <1>1, SampledInJob DEF DInv
<1> QED BY <1>1, <1>2, SampledRow, ShownGrows DEF DInv

LEMMA ReserveGrows ==
    ASSUME DInv, CInv', NEW j \in Id, NEW q, Reserve(j, q), Unposted PROVE DInv'
<1>1. q \in Nat
  <2>1. q \in DOMAIN log BY DEF Reserve, MayReserve, Sources, Happened
  <2> QED BY <2>1 DEF DInv, CInv, Shape
<1>2. /\ Observed(j) /\ jobs[j].reviews < MaxReviews
      /\ jobs' = [jobs EXCEPT ![j] = Reviewed(jobs[j], q)] /\ UNCHANGED <<employee, lease, log>>
  BY DEF Reserve, MayReserve
<1>3. Reviewed(jobs[j], q) \in Job BY <1>1, <1>2, ReviewedInJob DEF DInv
<1> QED BY <1>1, <1>2, <1>3, ReviewedRow, ShownGrows DEF DInv

LEMMA PassGrows ==
    ASSUME DInv, CInv', Poll \/ PollLate \/ CaptureScreen \/ CaptureFails \/ Look \/ ReserveReview \/ Infer
    PROVE  DInv'
<1>0. UNCHANGED <<bridge, arrived, posts, recorded, events, losses>>
  BY DEF Poll, PollLate, CaptureScreen, CaptureFails, Look, ReserveReview, Infer, passVars
<1>1. Unposted BY <1>0, Passes
<1>2. observer.step # "idle" => observer.job \in Id BY ObserverFacts DEF DInv
<1>3. CASE UNCHANGED conversationVars BY <1>1, <1>3, MemoryStep
<1>4. CASE ~UNCHANGED conversationVars
  <2>1. \/ \E j \in Id : \/ ReportError(j) \/ TimeLimit(j) \/ Capture(j)
                         \/ \E q : Reserve(j, q)
                         \/ \E q : Notes(j, q)
    <3>1. CASE Poll BY <1>4, <3>1 DEF Poll
    <3>2. CASE PollLate BY <3>2 DEF PollLate
    <3>3. CASE CaptureScreen \/ CaptureFails
      BY <1>2, <1>4, <3>3 DEF CaptureScreen, CaptureFails, GivesUp
    <3>4. CASE Look \/ ReserveReview \/ Infer
      BY <1>2, <1>4, <3>4 DEF Look, ReserveReview, Infer, GivesUp
    <3> QED BY <3>1, <3>2, <3>3, <3>4
  <2> QED BY <1>1, <2>1, ReportErrorGrows, TimeLimitGrows, CaptureGrows, ReserveGrows, NotesGrow
<1> QED BY <1>3, <1>4

-----------------------------------------------------------------------------
LEMMA InitDInv == Init => DInv
<1> SUFFICES ASSUME Init PROVE DInv OBVIOUS
<1>1. CInv BY InitCInv
<1>2. /\ employee.revision = 1 /\ employee.era = 0 /\ jobs = [j \in Id |-> NoJob] /\ lease = 0
      /\ log = <<>> /\ posts = <<>> /\ recorded = {} /\ arrived = {} /\ events = 0 /\ losses = 0
      /\ bridge.step = "idle"
  BY DEF Init, WorkforceInit, Idle
<1>3. MaxJobs \in Nat BY FS_CardinalityType, WorkforceAssumption DEF MaxJobs
<1>4. Limits BY <1>2, <1>3, NoRow, WorkforceAssumption, ChannelAssumption DEF Limits
<1>5. \A j \in Id : ~Exists(j) BY <1>2 DEF Exists, NoJob
<1>6. Lane BY <1>2, <1>5 DEF Lane, Open
<1>7. PublicEvents = {} /\ Posted = {} BY <1>2 DEF PublicEvents, Posted
<1>8. SaidInLane BY <1>7 DEF SaidInLane
<1>9. Delivery /\ InHand BY <1>2, <1>7 DEF Delivery, InHand, Posting
<1>10. InOrder BY <1>2 DEF InOrder
<1>11. Len(posts) = 0 /\ Cardinality(recorded) = 0 /\ IsFiniteSet(Posted) BY <1>2, <1>7, FS_EmptySet
<1>12. Repeats BY <1>2, <1>11 DEF Repeats
<1> QED BY <1>1, <1>4, <1>6, <1>8, <1>9, <1>10, <1>12 DEF DInv, Ordered

LEMMA PostingGrows ==
    ASSUME DInv, CInv', Deliver \/ CrashBridge PROVE DInv'
<1>1. UNCHANGED <<employee, jobs, lease, log>>
  BY DEF Deliver, Gather, GatherJob, Post, PostUnanswered, Hold, RecordDelivery, CrashBridge, aside,
         conversationVars, workforceVars
<1>2. Steady /\ LogGrows BY <1>1, Same DEF DInv, LogGrows
<1>3. Lane' BY <1>2, LaneKept DEF DInv
<1>4. SaidInLane' BY <1>1, <1>2, Eras, SaidInLaneKept DEF DInv
<1>5. Limits'
  <2>1. CASE CrashBridge \/ PostUnanswered
    <3>1. /\ events < MaxEvents /\ events' = events + 1 /\ losses' = losses + 1 /\ arrived' = arrived
      BY <2>1 DEF CrashBridge, PostUnanswered, Happens
    <3>2. events' \in 0..MaxEvents /\ losses' \in 0..events'
      BY <3>1, ChannelAssumption DEF DInv, Limits
    <3> QED BY <1>1, <3>1, <3>2 DEF DInv, Limits
  <2>2. CASE UNCHANGED <<arrived, events, losses>> BY <1>1, <2>2 DEF DInv, Limits
  <2> QED BY <2>1, <2>2 DEF Deliver, Gather, GatherJob, Post, Hold, RecordDelivery, aside
<1>6. Ordered'
  BY GatherStep, GatherJobStep, PostStep, PostUnansweredStep, HoldStep, RecordStep, CrashStep DEF Deliver
<1> QED BY <1>3, <1>4, <1>5, <1>6 DEF DInv

LEMMA NextDInv == DInv /\ [Next]_vars => DInv'
<1> SUFFICES ASSUME DInv, [Next]_vars PROVE DInv' OBVIOUS
<1>0. CInv' BY NextCInv DEF DInv
<1>1. ASSUME NEW m \in Spoken, Arrives(m) PROVE DInv'
  <2>1. Unposted /\ UNCHANGED conversationVars BY <1>1, ReceiveUnposted DEF Arrives
  <2> QED BY <1>0, <2>1, MemoryStep
<1>2. CASE \E m \in Written : Write(m) BY <1>0, <1>2, WriteGrows
<1>3. CASE Receive BY <1>0, <1>3, ReceiveGrows
<1>4. CASE Deliver \/ CrashBridge BY <1>0, <1>4, PostingGrows
<1>5. CASE Console BY <1>0, <1>5, ConsoleGrows
<1>6. CASE \E j \in Id : Turn(j) BY <1>0, <1>6, TurnGrows
<1>7. CASE Claim \/ Yield BY <1>0, <1>7, ClaimGrows, YieldGrows
<1>8. CASE Poll \/ PollLate \/ CaptureScreen \/ CaptureFails \/ Look \/ ReserveReview \/ Infer
  BY <1>0, <1>8, PassGrows
<1>9. CASE UNCHANGED vars BY <1>0, <1>9, Passes, MemoryStep DEF vars, channelVars
<1> QED BY <1>1, <1>2, <1>3, <1>4, <1>5, <1>6, <1>7, <1>8, <1>9 DEF Next

\* The invariant of the delivery: one desktop is leased to one job after the other, and the last job
\* is the only one that can be open when another has been leased before it; so whatever the bridge
\* has in hand is all that was said before, but for the late replies of requests that have ended.
THEOREM DeliveryInvariant == Spec => []DInv
<1> QED BY InitDInv, NextDInv, PTL DEF Spec

\* The channel shows what the employee said in the order it was said, but for late replies; and again
\* only after a crash or a lost answer.
THEOREM PostsStayInOrder == Spec => []PostedInOrder
<1>1. ASSUME DInv PROVE PostedInOrder
  <2>1. \A x \in Posted, n \in DOMAIN log :
           n < x /\ log[n].kind \in Public /\ n \notin Posted => Overtaken(n, x)
    BY <1>1 DEF DInv, Ordered, Delivery, PublicEvents
  <2>2. Len(posts) <= Cardinality(Posted) + losses
    <3>1. CASE bridge.step = "record"
      <4>1. PICK x \in Posted : x \notin recorded
        BY <1>1, <3>1 DEF DInv, Ordered, InHand, Posting, Closed
      <4>2. /\ IsFiniteSet(recorded \cup {x})
            /\ Cardinality(recorded \cup {x}) = Cardinality(recorded) + 1
        BY <1>1, <4>1, CountFacts, FS_AddElement
      <4>3. Cardinality(recorded \cup {x}) <= Cardinality(Posted)
        BY <1>1, <4>1, CountFacts, FS_Subset
      <4> QED BY <1>1, <4>2, <4>3, CountFacts DEF DInv, Ordered, Repeats
    <3>2. CASE bridge.step # "record" BY <1>1, <3>2, CountFacts DEF DInv, Ordered, Repeats
    <3> QED BY <3>1, <3>2
  <2> QED BY <1>1, <2>1, <2>2 DEF DInv, Ordered, InOrder, Posted, PostedInOrder
<1> QED BY <1>1, DeliveryInvariant, PTL

\* Every variable of Channel keeps its type, and its bounds: no request is charged a model call and no
\* demonstration a sample or a review beyond its budget.
THEOREM ChannelTypes == Spec => []TypeOK
<1>1. ASSUME DInv PROVE TypeOK
  <2>1. WorkforceTypeOK
    <3>1. employee \in [state: States, revision: 1..(MaxChanges + 1), era: 0..MaxChanges]
      BY <1>1, Eras DEF DInv, CInv, Shape, Limits
    <3> QED BY <1>1, <3>1 DEF DInv, CInv, Shape, Limits, WorkforceTypeOK
  <2>2. posts \in Seq(DOMAIN log) /\ recorded \subseteq DOMAIN log
    <3>1. PublicEvents \subseteq DOMAIN log BY DEF PublicEvents
    <3>2. posts \in Seq(PublicEvents) /\ recorded \subseteq Posted /\ Posted \subseteq PublicEvents
      BY <1>1, PostedFacts DEF DInv, Ordered, Delivery
    <3> QED BY <3>1, <3>2
  <2> QED BY <1>1, <2>1, <2>2 DEF DInv, CInv, Shape, Limits, TypeOK, ConversationTypeOK, Bridge
<1> QED BY <1>1, DeliveryInvariant, PTL
=============================================================================
