---------------------------------- MODULE Channel ----------------------------------
(***************************************************************************)
(* A shared channel bound to one conversation with the employee.  The      *)
(* bridge takes messages in and posts what the employee says; the staff    *)
(* console, the supervisor, the planner and the observer of demonstrations *)
(* act on the same tables meanwhile.                                       *)
(*                                                                         *)
(* The bridge is one process whose handlers hold one lock: it is either    *)
(* receiving one message or posting one batch.                             *)
(***************************************************************************)
EXTENDS Conversation

CONSTANT MaxEvents \* bound: what people do, deliveries of messages and losses of the bridge

ASSUME ChannelAssumption == MaxEvents \in Nat

VARIABLES
    bridge,   \* the handler that holds the bridge's lock
    arrived,  \* the messages sent so far
    posts,    \* what the channel shows
    recorded, \* channel_deliveries
    planner,  \* the turn of the agent
    observer, \* the pass of the observation service
    events,   \* what has happened of MaxEvents
    losses    \* how often the bridge crashed or lost the answer to a POST

channelVars == <<bridge, arrived, posts, recorded, planner, observer, events, losses>>
vars == <<conversationVars, channelVars>>

Idle    == [step |-> "idle", message |-> None, job |-> 0, reply |-> 0, listed |-> {},
            batch |-> {}]
Receiving == {"search", "resolve", "teach", "create", "open", "question", "guide"}
Bridge  == [step: {"idle", "gather", "post", "record"} \cup Receiving,
            message: Message \cup {None}, job: Id \cup {0}, reply: Nat,
            listed: SUBSET Id,  \* jobs whose events are still to be read
            batch: SUBSET Nat]  \* what was found to be posted
Resting == [step |-> "idle", job |-> 0]
Blind   == [step |-> "idle", job |-> 0, seq |-> 0]

TypeOK ==
    /\ ConversationTypeOK
    /\ bridge \in Bridge
    /\ arrived \subseteq Message
    /\ posts \in Seq(DOMAIN log)
    /\ recorded \subseteq DOMAIN log
    /\ planner \in [step: {"idle", "thinking", "deciding", "asking"}, job: Id \cup {0}]
    /\ observer \in [step: {"idle", "capture", "look", "reserve", "infer"}, job: Id \cup {0},
                     seq: Nat]
    /\ events \in 0..MaxEvents /\ losses \in 0..events

Init ==
    /\ WorkforceInit
    /\ questions = <<>>
    /\ bridge = Idle
    /\ arrived = {}
    /\ posts = <<>>
    /\ recorded = {}
    /\ planner = Resting
    /\ observer = Blind
    /\ events = 0 /\ losses = 0

Happens == events < MaxEvents /\ events' = events + 1

-----------------------------------------------------------------------------
(* The bridge receives a message: each step one transaction of the store *)

aside == <<arrived, posts, recorded, planner, observer, events, losses>>

\* on_message.  Discord may deliver a message again.
Arrives(m) ==
    /\ bridge.step = "idle"
    /\ Happens /\ arrived' = arrived \cup {m}
    /\ bridge' = [Idle EXCEPT !.step = "search", !.message = m]
    /\ UNCHANGED <<conversationVars, posts, recorded, planner, observer, losses>>

\* Mutant: the earlier delivery is not looked for.
SearchNothing ==
    /\ bridge.step = "search"
    /\ bridge' = CASE employee.state = "shadowing" ->
                        IF \E j \in Id : Shown(j)
                        THEN [bridge EXCEPT !.step = "teach", !.job = CHOOSE j \in Id : Shown(j)]
                        ELSE Idle
                   [] OTHER -> [bridge EXCEPT !.step = "resolve"]
    /\ UNCHANGED <<conversationVars, aside>>

\* A message that was guidance or teaching stays that; a shadowing employee is taught.
Search ==
    /\ bridge.step = "search"
    /\ bridge' = CASE Delivered(bridge.message) # {} -> Idle
                   [] Delivered(bridge.message) = {} /\ employee.state = "shadowing" ->
                        IF \E j \in Id : Shown(j)
                        THEN [bridge EXCEPT !.step = "teach", !.job = CHOOSE j \in Id : Shown(j)]
                        ELSE Idle
                   [] OTHER -> [bridge EXCEPT !.step = "resolve"]
    /\ UNCHANGED <<conversationVars, aside>>

\* Mutant: the demonstration found is still the one being shown.
TeachFound ==
    /\ bridge.step = "teach" /\ bridge' = Idle
    /\ Logs(bridge.job, "mentor_message", bridge.message)
    /\ UNCHANGED <<employee, jobs, lease, questions, aside>>

TeachInChannel ==
    /\ bridge.step = "teach" /\ bridge' = Idle
    /\ IF Shown(bridge.job)
       THEN Teach(bridge.job, bridge.message) /\ UNCHANGED questions
       ELSE UNCHANGED conversationVars
    /\ UNCHANGED aside

ResolveEmployee ==
    /\ bridge.step = "resolve"
    /\ bridge' = IF employee.state = "active" THEN [bridge EXCEPT !.step = "create"] ELSE Idle
    /\ UNCHANGED <<conversationVars, aside>>

\* What create_job refuses becomes guidance for the request that is open then.
Create ==
    /\ bridge.step = "create"
    /\ \/ CreateJob(bridge.message) /\ bridge' = Idle
       \/ /\ RequestOf(bridge.message) # {} /\ bridge' = Idle
          /\ UNCHANGED conversationVars
       \/ /\ IsActive(bridge.message) /\ bridge' = [bridge EXCEPT !.step = "open"]
          /\ UNCHANGED conversationVars
    /\ UNCHANGED aside

FindOpen ==
    /\ bridge.step = "open"
    /\ \/ \E j \in Id : Open(j) /\ bridge' = [bridge EXCEPT !.step = "question", !.job = j]
       \/ (\A j \in Id : ~Open(j)) /\ bridge' = Idle
    /\ UNCHANGED <<conversationVars, aside>>

\* What staff say is the answer to the first question that waits for one.
FindQuestion ==
    /\ bridge.step = "question"
    /\ \/ \E q \in Waiting(bridge.job) : /\ \A k \in Waiting(bridge.job) : q <= k
                                         /\ bridge' = [bridge EXCEPT !.step = "guide", !.reply = q]
       \/ Waiting(bridge.job) = {} /\ bridge' = [bridge EXCEPT !.step = "guide"]
    /\ UNCHANGED <<conversationVars, aside>>

GuideInChannel ==
    /\ bridge.step = "guide" /\ bridge' = Idle
    /\ \/ Guide(bridge.job, bridge.message, bridge.reply)
       \/ /\ ~MayGuide(bridge.job, bridge.message, bridge.reply)
          /\ UNCHANGED conversationVars
    /\ UNCHANGED aside

-----------------------------------------------------------------------------
(* The bridge posts what is public *)

\* Notes carry a question here; those without one are not public.
Public  == {"assistant_message", "assistant_question", "shadow_notes", "shadow_unavailable"}
Unsent  == {n \in DOMAIN log : log[n].kind \in Public /\ n \notin recorded}
Before(n, k) == log[n].job < log[k].job \/ (log[n].job = log[k].job /\ n <= k)
Item == CHOOSE n \in bridge.batch : \A k \in bridge.batch : Before(n, k)

\* pending reads the list of jobs, then the events of one after the other, in the order of creation.
Gather ==
    /\ bridge.step = "idle" /\ \E j \in Id : Exists(j)
    /\ bridge' = [Idle EXCEPT !.step = "gather", !.listed = {j \in Id : Exists(j)}]
    /\ UNCHANGED <<conversationVars, aside>>

UnsentOf(j) == {n \in Unsent : log[n].job = j}
Collected(j, found) ==
    CASE bridge.listed # {j} -> [bridge EXCEPT !.listed = @ \ {j}, !.batch = found]
      [] bridge.listed = {j} /\ found # {} -> [Idle EXCEPT !.step = "post", !.batch = found]
      [] OTHER -> Idle

GatherJob ==
    /\ bridge.step = "gather"
    /\ \E j \in bridge.listed :
          /\ \A i \in bridge.listed : j <= i
          /\ bridge' = Collected(j, bridge.batch \cup UnsentOf(j))
    /\ UNCHANGED <<conversationVars, aside>>

\* Discord drops a repetition of a recent identity.
Shows(n) ==
    \/ posts' = Append(posts, n)
    \/ (\E i \in DOMAIN posts : posts[i] = n) /\ UNCHANGED posts

Post ==
    /\ bridge.step = "post" /\ Shows(Item)
    /\ bridge' = [bridge EXCEPT !.step = "record"]
    /\ UNCHANGED <<conversationVars, arrived, recorded, planner, observer, events, losses>>

\* The POST takes effect but its answer is an error, or is lost: the delivery is not recorded.
PostUnanswered ==
    /\ bridge.step = "post" /\ Shows(Item)
    /\ Happens /\ losses' = losses + 1
    /\ bridge' = Idle
    /\ UNCHANGED <<conversationVars, arrived, recorded, planner, observer>>

\* The destination or a viewer's permission is refused: the batch is held.
Hold ==
    /\ bridge.step = "post" /\ bridge' = Idle
    /\ UNCHANGED <<conversationVars, aside>>

NextItem == IF bridge.batch = {Item} THEN Idle
            ELSE [bridge EXCEPT !.step = "post", !.batch = @ \ {Item}]

RecordNothing ==    \* mutant
    /\ bridge.step = "record" /\ bridge' = NextItem
    /\ UNCHANGED <<conversationVars, aside>>

RecordDelivery ==
    /\ bridge.step = "record" /\ bridge' = NextItem
    /\ recorded' = recorded \cup {Item}
    /\ UNCHANGED <<conversationVars, arrived, posts, planner, observer, events, losses>>

CrashBridge ==
    /\ bridge.step # "idle" /\ Happens
    /\ bridge' = Idle /\ losses' = losses + 1
    /\ UNCHANGED <<conversationVars, arrived, posts, recorded, planner, observer>>

-----------------------------------------------------------------------------
(* Staff and the supervisor in the console *)

staffVars == <<bridge, posts, recorded, planner, observer, losses>>

Write(m) ==
    /\ m \notin arrived
    /\ Happens /\ arrived' = arrived \cup {m}
    /\ \E j \in Id : \/ \E reply \in Waiting(j) \cup {0} : Guide(j, m, reply)
                     \/ Teach(j, None) /\ UNCHANGED questions
    /\ UNCHANGED staffVars

Stop(j) ==
    /\ Open(j)
    /\ jobs' = [jobs EXCEPT ![j] = Cancelled(@)]
    /\ UNCHANGED <<employee, lease, log, questions>>

\* The console, the supervisor and the registry of applications.
Console ==
    /\ Happens
    /\ \/ \E j \in Id : \/ Stop(j)
                        \/ (StartDemonstration(j) \/ FinishDemonstration(j)) /\ UNCHANGED questions
       \/ (\E state \in States : Change(state)) /\ UNCHANGED questions
       \/ ScopeChanged /\ UNCHANGED questions
    /\ UNCHANGED <<arrived, staffVars>>

-----------------------------------------------------------------------------
(* The planner and its assistance, as far as the conversation goes *)

turnVars == <<bridge, arrived, posts, recorded, observer, events, losses>>

\* The preludes of a worker call and, for most, the check of the request.
Assigned(j) == lease = j /\ employee.state = "active"
Works(j)    == Assigned(j) /\ jobs[j].status = "running"

Claim ==
    /\ planner.step = "idle" /\ employee.state = "active" /\ Unoccupied
    /\ \E j \in Id :
          /\ jobs[j].status = "queued" /\ \A i \in 1..(j - 1) : jobs[i].status # "queued"
          /\ jobs' = [jobs EXCEPT ![j].status = "running"]
          /\ lease' = j
    /\ UNCHANGED <<employee, log, questions, channelVars>>

\* A call of the model is counted.
Charged(job) == [job EXCEPT !.calls = @ + 1]

\* Mutant: the budget of model calls is not read.
TurnWithoutBudget(j) ==
    /\ planner.step = "idle" /\ Works(j) /\ Waiting(j) = {}
    /\ planner' = [step |-> "thinking", job |-> j]
    /\ jobs' = [jobs EXCEPT ![j] = Charged(@)]
    /\ UNCHANGED <<employee, lease, log, questions, turnVars>>

\* A turn of the model waits for the answer to a question; a request without a call left fails.
TakeTurn(j) ==
    /\ planner.step = "idle" /\ Works(j) /\ Waiting(j) = {}
    /\ IF jobs[j].calls < MaxCalls
       THEN /\ planner' = [step |-> "thinking", job |-> j]
            /\ jobs' = [jobs EXCEPT ![j] = Charged(@)]
       ELSE /\ jobs' = [jobs EXCEPT ![j] = [Invalid(@) EXCEPT !.status = "failed"]]
            /\ UNCHANGED planner
    /\ UNCHANGED <<employee, lease, log, questions, turnVars>>

\* Mutant: whoever has the desktop now.
ReplyAnyway(j) ==
    /\ planner = [step |-> "thinking", job |-> j]
    /\ planner' = [planner EXCEPT !.step = "deciding"]
    /\ Logs(j, "assistant_message", None)
    /\ UNCHANGED <<employee, jobs, lease, questions, turnVars>>

\* An event may be filed for a request that has ended.
Reply(j) ==
    /\ planner = [step |-> "thinking", job |-> j] /\ Assigned(j)
    /\ planner' = [planner EXCEPT !.step = "deciding"]
    /\ Logs(j, "assistant_message", None)
    /\ UNCHANGED <<employee, jobs, lease, questions, turnVars>>

\* The agent proposes a question.
Propose(j) ==
    /\ planner.step \in {"thinking", "deciding"} /\ planner.job = j /\ Works(j)
    /\ planner' = [planner EXCEPT !.step = "asking"]
    /\ jobs' = [jobs EXCEPT ![j].approval = "authorized"]
    /\ UNCHANGED <<employee, lease, log, questions, turnVars>>

Begin(j) ==
    /\ planner = [step |-> "asking", job |-> j]
    /\ Works(j) /\ jobs[j].approval = "authorized"
    /\ jobs' = [jobs EXCEPT ![j].approval = "executing"]
    /\ UNCHANGED <<employee, lease, log, questions, channelVars>>

AskStaff(j) ==
    /\ planner = [step |-> "asking", job |-> j] /\ jobs[j].approval = "executing"
    /\ planner' = Resting
    /\ Ask(j)
    /\ UNCHANGED turnVars

\* conclude reads no guidance; a report of failure reads nothing.
EndTurn(j, s) ==
    /\ planner.step \in {"thinking", "deciding"} /\ planner.job = j /\ Works(j)
    /\ s = "completed" => jobs[j].approval = "none"
    /\ planner' = Resting
    /\ jobs' = [jobs EXCEPT ![j] = [Invalid(@) EXCEPT !.status = s]]
    /\ UNCHANGED <<employee, lease, log, questions, turnVars>>

\* A call is refused, or the agent goes on to its next turn.
Yield ==
    /\ planner.step # "idle" /\ jobs[planner.job].approval # "executing"
    /\ planner' = Resting
    /\ UNCHANGED <<conversationVars, turnVars>>

-----------------------------------------------------------------------------
(* The observation service *)

passVars == <<bridge, arrived, posts, recorded, planner, events, losses>>

GivesUp == observer' = Blind /\ UNCHANGED conversationVars

\* The first poll of a pass.
Poll ==
    /\ observer.step = "idle"
    /\ \E j \in Id :
        /\ Observed(j)
        /\ \/ /\ jobs[j].frames < MaxFrames /\ observer' = [step |-> "capture", job |-> j, seq |-> 0]
              /\ UNCHANGED conversationVars
           \/ /\ jobs[j].frames = MaxFrames /\ ReportError(j)
              /\ UNCHANGED <<questions, observer>>
    /\ UNCHANGED passVars

\* Either poll may find the half hour over.
PollLate ==
    /\ observer.step \in {"idle", "look"} /\ observer' = Blind
    /\ \E j \in Id : TimeLimit(j)
    /\ UNCHANGED <<questions, passVars>>

CaptureScreen ==
    /\ observer.step = "capture"
    /\ \/ /\ Capture(observer.job) /\ observer' = [observer EXCEPT !.step = "look"]
          /\ UNCHANGED questions
       \/ ~Observed(observer.job) /\ GivesUp
    /\ UNCHANGED passVars

CaptureFails ==
    /\ observer.step = "capture"
    /\ ReportError(observer.job) /\ observer' = Blind
    /\ UNCHANGED <<questions, passVars>>

Spoke(j) == \E n \in Happened(j, {"mentor_message"}) : n > jobs[j].reviewed

LookAtScreen ==    \* mutant: the mentor's words alone are no reason for a review
    /\ observer.step = "look"
    /\ \/ /\ Observed(observer.job) /\ jobs[observer.job].reviews < MaxReviews
          /\ observer' = [observer EXCEPT !.step = "reserve", !.seq = Latest(Sources(observer.job))]
          /\ UNCHANGED conversationVars
       \/ GivesUp
    /\ UNCHANGED passVars

\* The second poll decides on a review of everything up to the latest source: the mentor has
\* spoken, or the screen has changed for a while.
Look ==
    /\ observer.step = "look"
    /\ \/ /\ Observed(observer.job) /\ jobs[observer.job].reviews < MaxReviews
          /\ observer' = [observer EXCEPT !.step = "reserve", !.seq = Latest(Sources(observer.job))]
          /\ UNCHANGED conversationVars
       \/ /\ ~(/\ Observed(observer.job) /\ jobs[observer.job].reviews < MaxReviews
               /\ Spoke(observer.job))
          /\ GivesUp
    /\ UNCHANGED passVars

ReserveReview ==
    /\ observer.step = "reserve"
    /\ \/ /\ Reserve(observer.job, observer.seq) /\ observer' = [observer EXCEPT !.step = "infer"]
          /\ UNCHANGED questions
       \/ ~MayReserve(observer.job, observer.seq) /\ GivesUp
    /\ UNCHANGED passVars

\* The model answers, or fails (its process dies) after its call was charged.
Infer ==
    /\ observer.step = "infer"
    /\ \/ /\ Notes(observer.job, observer.seq) /\ observer' = Blind
          /\ UNCHANGED questions
       \/ GivesUp
    /\ UNCHANGED passVars

-----------------------------------------------------------------------------
Receive == \/ Search \/ TeachInChannel \/ ResolveEmployee \/ Create \/ FindOpen \/ FindQuestion
           \/ GuideInChannel
Deliver == \/ Gather \/ GatherJob \/ Post \/ PostUnanswered \/ Hold \/ RecordDelivery
Turn(j) == \/ TakeTurn(j) \/ Reply(j) \/ Propose(j) \/ Begin(j) \/ AskStaff(j)
           \/ \E s \in {"completed", "failed"} : EndTurn(j, s)

Next ==
    \/ \E m \in Spoken : Arrives(m)
    \/ \E m \in Written : Write(m)
    \/ Receive
    \/ Deliver
    \/ Console
    \/ \E j \in Id : Turn(j)
    \/ Claim \/ Yield
    \/ Poll \/ PollLate \/ CaptureScreen \/ CaptureFails \/ Look \/ ReserveReview \/ Infer
    \/ CrashBridge

Spec == Init /\ [][Next]_vars

\* The bridge's handlers run to their end and its loop comes round; a held batch is tried again and
\* the destination accepts in the end.  The observer's passes come round and the screen is
\* captured in the end.
Fairness ==
    /\ WF_vars(Receive) /\ WF_vars(Gather) /\ WF_vars(GatherJob) /\ SF_vars(Post)
    /\ WF_vars(RecordDelivery)
    /\ WF_vars(Poll) /\ SF_vars(CaptureScreen) /\ WF_vars(Look) /\ WF_vars(ReserveReview)
    /\ WF_vars(Infer)
FairSpec == Spec /\ Fairness

-----------------------------------------------------------------------------
(* Properties *)

\* The conversation has one open request, whoever sends and however often (a demonstration may be
\* open beside it).  channels.receive, store.create_job.
Serves(j) == Open(j) /\ jobs[j].kind = "request"
OneOpenRequest == \A i, j \in Id : Serves(i) /\ Serves(j) => i = j

\* A message of the channel becomes one request or one piece of guidance, however often Discord
\* delivers it and whatever ends meanwhile.  channels.receive.
MessageOnce ==
    \A m \in Spoken :
        Cardinality(RequestOf(m)) + Cardinality({n \in Delivered(m) : log[n].kind = "staff_message"}) <= 1

\* Under an authority the employee has now, nothing is open from before a change of it: "Never resume
\* an old request under a newly granted authority".  Workforce.change and sync.
NeverResumed ==
    employee.state # "paused" => \A j \in Id : Open(j) => jobs[j].era = employee.era

\* A demonstration gains no event once the mentor has recorded its outcome: neither teaching from the
\* channel nor a sample or notes under way.  receive, finish and capture.
NothingAfterOutcome ==
    \A n \in DOMAIN log : log[n].kind = "mentor_outcome" =>
        \A k \in (n + 1)..Len(log) : log[k].job # log[n].job

\* The channel shows what the employee said in the order it was said, over all requests: nothing comes
\* late or is left out but a reply filed for a request that has ended, which what is said for a later
\* one may overtake.  Nothing is shown again unless the bridge crashed or lost the answer to a POST.
\* pending, deliver_once and the event prelude.
Overtaken(n, x) == log[n].kind = "assistant_message" /\ ~Open(log[n].job) /\ log[n].job < log[x].job
PostedInOrder ==
    LET shown == {posts[i] : i \in DOMAIN posts}
    IN  /\ \A i, k \in DOMAIN posts : i < k => posts[i] <= posts[k] \/ Overtaken(posts[k], posts[i])
        /\ \A x \in shown, n \in DOMAIN log :
               n < x /\ log[n].kind \in Public /\ n \notin shown => Overtaken(n, x)
        /\ Len(posts) <= Cardinality(shown) + losses

\* An answer stays the answer, though channel and console may answer at once.  Conversation.message.
AnsweredOnce ==
    [][\A q \in DOMAIN questions : questions[q].status = "answered" => questions'[q] = questions[q]]_vars

\* Everything public is posted in the end.  deliver_forever.
EventsArePosted == []<>(Unsent = {})

\* What the mentor says is put to a model with the next sample of the screen, while the
\* demonstration goes on and has calls left.  ShadowObserver.tick.
Unheard(j) ==
    /\ Observed(j) /\ jobs[j].reviews < MaxReviews
    /\ \E n \in Happened(j, {"mentor_message"}), k \in Happened(j, {"shadow_observation"}) :
           jobs[j].reviewed < n /\ n < k
MentorIsHeard == []<>(\A j \in Id : ~Unheard(j))

\* docs/original-prompt-audit.md:35 "Approved questions wait durably for deduplicated answers."
\* A question whose call is executing is published unless one is waiting or the request has ended.
QuestionIsPublished ==
    [][\A j \in Id : (AskStaff(j) /\ Open(j) /\ Waiting(j) = {}) => Len(questions') > Len(questions)]_vars
=============================================================================
