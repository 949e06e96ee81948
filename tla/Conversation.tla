------------------------------- MODULE Conversation -------------------------------
(***************************************************************************)
(* One conversation with the employee: what creates a request, what becomes*)
(* guidance for the open one, and the questions the assistant asks.        *)
(* The employee has no other conversation here.                            *)
(***************************************************************************)
EXTENDS Workforce

CONSTANT Registered \* whether the desktops are registered, each with a lease of its own

ASSUME ConversationAssumption == Registered \in BOOLEAN

VARIABLE questions \* the questions, in the order they were asked

conversationVars == <<workforceVars, questions>>

Question == [job: Id, status: {"pending", "answered"}, answer: Message \cup {None}]

ConversationTypeOK ==
    WorkforceTypeOK /\ questions \in Seq(Question)

Waiting(j) == {q \in DOMAIN questions : questions[q].job = j /\ questions[q].status = "pending"}

\* The earlier delivery of this message as guidance or teaching.
Delivered(m) == {n \in DOMAIN log : log[n].kind \in {"staff_message", "mentor_message"}
                                    /\ log[n].message = m}
RequestOf(m) == {j \in Id : jobs[j].kind = "request" /\ Exists(j) /\ jobs[j].source = m}

\* Mutant: only a request that runs counts as open.
CreateBesideQueued(m) ==
    /\ RequestOf(m) = {} /\ \A j \in Id : jobs[j].status # "running"
    /\ \E j \in Id : /\ Free(j)
                     /\ jobs' = [jobs EXCEPT ![j] = [NoJob EXCEPT !.status = "queued", !.source = m,
                                                                 !.era = employee.era]]
    /\ UNCHANGED <<employee, lease, log, questions>>

\* A message with the identity of an earlier request is answered with that request; otherwise the
\* conversation must have nothing open.
CreateJob(m) ==
    /\ RequestOf(m) = {} /\ \A j \in Id : ~Open(j)
    /\ \E j \in Id : /\ Free(j)
                     /\ jobs' = [jobs EXCEPT ![j] = [NoJob EXCEPT !.status = "queued", !.source = m,
                                                                 !.era = employee.era]]
    /\ UNCHANGED <<employee, lease, log, questions>>
IsActive(m) == RequestOf(m) = {} /\ \E j \in Id : Open(j)

\* Guidance for a request; reply is the pending question it answers, 0 for none.
MayGuide(j, m, reply) ==
    Open(j) /\ (reply # 0 => reply \in Waiting(j))

\* Mutant: whatever the question's status, the reply is its answer.
GuideAnyway(j, m, reply) ==
    /\ {n \in Delivered(m) : log[n].job = j} = {} /\ Open(j)
    /\ questions' = IF reply = 0 THEN questions
                    ELSE [questions EXCEPT ![reply] = [@ EXCEPT !.status = "answered", !.answer = m]]
    /\ jobs' = [jobs EXCEPT ![j] = Invalid(@)]
    /\ Logs(j, "staff_message", m)
    /\ UNCHANGED <<employee, lease>>

Guide(j, m, reply) ==
    /\ {n \in Delivered(m) : log[n].job = j} = {} /\ MayGuide(j, m, reply)
    /\ questions' = IF reply = 0 THEN questions
                    ELSE [questions EXCEPT ![reply] = [@ EXCEPT !.status = "answered", !.answer = m]]
    /\ jobs' = [jobs EXCEPT ![j] = Invalid(@)]
    /\ Logs(j, "staff_message", m)
    /\ UNCHANGED <<employee, lease>>

\* The lease that ask looks at: the row that desktops had before they were registered.
LegacyLease == IF Registered THEN 0 ELSE lease

MayAsk(j) ==
    /\ LegacyLease = j /\ Open(j)
    /\ jobs[j].approval = "executing"
    /\ Waiting(j) = {}

\* ask_staff under its reservation; the receipt follows whether or not it is refused.
Ask(j) ==
    /\ jobs' = [jobs EXCEPT ![j].approval = "none"]
    /\ IF MayAsk(j)
       THEN /\ questions' = Append(questions, [job |-> j, status |-> "pending", answer |-> None])
            /\ Logs(j, "assistant_question", None)
       ELSE UNCHANGED <<questions, log>>
    /\ UNCHANGED <<employee, lease>>
=============================================================================
