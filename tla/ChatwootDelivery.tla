-------------------------- MODULE ChatwootDelivery -------------------------
(***************************************************************************)
(* ChannelToChatwootWorker._handle_message: one delivery is a sequence of  *)
(* HTTP requests to Chatwoot - search the contact or create it, find its   *)
(* conversation or create it, upload the files, post the message - of      *)
(* which nothing is undone when a later one fails.  The queue repeats a    *)
(* delivery after a transient error, a crash, a failed delete or the end   *)
(* of its vt, so deliveries for one sender, or even of one message, may    *)
(* overlap.                                                                *)
(*                                                                         *)
(* A request is sent, performed by Chatwoot, and answered; a call may give *)
(* up in between, and Chatwoot may perform the request later.  Which error *)
(* a response raises is kept, its wording is not.  One account, one inbox. *)
(***************************************************************************)
EXTENDS Integers, Sequences, FiniteSets

CONSTANTS
  Users,      \* the identifiers of end users
  Jobs,       \* messages in the queue to_cw; one with neither text nor file is
              \* deleted with no request, and left out
  Sender,     \* the end user of each
  Files,      \* how many files of each are to be uploaded
  Lookalike,  \* <<u, v>>: a search for u also finds the contact of v
  Known,      \* the contacts Chatwoot may have at the start
  Handlers,   \* tasks that may run at once, in all processes
  Budget,     \* how often each kind of fault may happen
  NoJob       \* what an idle handler delivers

Faults == {"break", "expire", "reject"}

ASSUME ChatwootDeliveryAssumption ==
  /\ Sender \in [Jobs -> Users] /\ Files \in [Jobs -> Nat]
  /\ Lookalike \subseteq Users \X Users
  /\ Known \subseteq Seq(Users)
  /\ NoJob \notin Jobs
  /\ Budget \in [Faults -> Nat]
  /\ IsFiniteSet(Handlers) /\ Handlers # {}
  /\ \A k \in Known : \A i, j \in 1..Len(k) : k[i] = k[j] => i = j   \* nobody is a twin yet

VARIABLES
  contacts,  \* Chatwoot's contacts: the identifier of each
  convs,     \* Chatwoot's conversations: the contact of each
  posts,     \* the messages posted, and the conversation of each
  late,      \* requests whose call has given up and that may yet be performed
  call,      \* the delivery each handler is at
  job,       \* whether a message is queued, done or archived
  budget     \* the faults that may still happen

chatwoot == <<contacts, convs, posts>>
vars == <<contacts, convs, posts, late, call, job, budget>>

Ops == {"search", "addContact", "listConvs", "addConv", "upload", "post"}
Idle == [op |-> "none", answered |-> FALSE, job |-> NoJob, contact |-> 0, conv |-> 0, left |-> 0]

Sent(h, op) == call[h].op = op /\ ~call[h].answered
Running(h) == call[h].op # "none"
Leased(j) == \E h \in Handlers : call[h].job = j
Spend(f) == budget[f] > 0 /\ budget' = [budget EXCEPT ![f] = @ - 1]
Used(f) == Budget[f] - budget[f]
Of(seq, x) == {i \in 1..Len(seq) : seq[i] = x}

-----------------------------------------------------------------------------
(* The worker takes a message: one that is not worked on, or one whose vt  *)
(* has run out under another handler.                                      *)
Start(h, j) ==
  /\ ~Running(h) /\ job[j] = "queued"
  /\ IF Leased(j) THEN Spend("expire") ELSE UNCHANGED budget
  /\ call' = [call EXCEPT ![h] = [Idle EXCEPT !.op = "search", !.job = j, !.left = Files[j]]]
  /\ UNCHANGED <<chatwoot, late, job>>

-----------------------------------------------------------------------------
(* Chatwoot performs the request of h; call[h] takes up what it answers.   *)

Answer(h, contact, conv, left) ==
  call' = [call EXCEPT ![h].answered = TRUE, ![h].contact = contact,
                       ![h].conv = conv, ![h].left = left]

Found(u) == {c \in 1..Len(contacts) : contacts[c] = u \/ <<u, contacts[c]>> \in Lookalike}

(* The first contact of a search is taken, whichever Chatwoot puts first.  *)
Search(h) ==
  /\ Sent(h, "search")
  /\ \E c \in IF Found(Sender[call[h].job]) = {} THEN {0} ELSE Found(Sender[call[h].job]) :
       Answer(h, c, 0, call[h].left)
  /\ UNCHANGED <<chatwoot, late, job, budget>>

(* A second contact with an identifier may be created or refused (Refuse). *)
AddContact(h) ==
  /\ Sent(h, "addContact")
  /\ contacts' = Append(contacts, Sender[call[h].job])
  /\ Answer(h, Len(contacts) + 1, 0, call[h].left)
  /\ UNCHANGED <<convs, posts, late, job, budget>>

ListConvs(h) ==
  /\ Sent(h, "listConvs")
  /\ \E v \in IF Of(convs, call[h].contact) = {} THEN {0} ELSE Of(convs, call[h].contact) :
       Answer(h, call[h].contact, v, call[h].left)
  /\ UNCHANGED <<chatwoot, late, job, budget>>

AddConv(h) ==
  /\ Sent(h, "addConv")
  /\ convs' = Append(convs, call[h].contact)
  /\ Answer(h, call[h].contact, Len(convs) + 1, call[h].left)
  /\ UNCHANGED <<contacts, posts, late, job, budget>>

(* A file without a signed id is dropped, and its message goes without it. *)
Upload(h) ==
  /\ Sent(h, "upload")
  /\ Answer(h, call[h].contact, call[h].conv, call[h].left - 1)
  /\ UNCHANGED <<chatwoot, late, job, budget>>

Post(h) ==
  /\ Sent(h, "post")
  /\ posts' = Append(posts, [job |-> call[h].job, conv |-> call[h].conv])
  /\ Answer(h, call[h].contact, call[h].conv, 0)
  /\ UNCHANGED <<contacts, convs, late, job, budget>>

(* A request whose caller has gone is performed after all.                 *)
PerformLate ==
  /\ \E r \in late :
       /\ late' = late \ {r}
       /\ contacts' = IF r.op = "addContact" THEN Append(contacts, Sender[r.job]) ELSE contacts
       /\ convs' = IF r.op = "addConv" THEN Append(convs, r.contact) ELSE convs
       /\ posts' = IF r.op = "post" THEN Append(posts, [job |-> r.job, conv |-> r.conv]) ELSE posts
  /\ UNCHANGED <<call, job, budget>>

-----------------------------------------------------------------------------
(* deliver_channel_to_chatwoot_message: what follows which answer.         *)

Content(c) == IF c.left > 0 THEN "upload" ELSE "post"

(* Mutants: a contact with no conversation is searched again; a contact    *)
(* that was found is created all the same.                                 *)
FollowingRound(c) ==
  CASE c.op = "search" -> IF c.contact = 0 THEN "addContact" ELSE "listConvs"
    [] c.op = "addContact" -> "addConv"
    [] c.op = "listConvs" -> IF c.conv = 0 THEN "search" ELSE Content(c)
    [] c.op \in {"addConv", "upload"} -> Content(c)
FollowingNew(c) ==
  CASE c.op = "search" -> "addContact"
    [] c.op = "addContact" -> "addConv"
    [] c.op = "listConvs" -> IF c.conv = 0 THEN "addConv" ELSE Content(c)
    [] c.op \in {"addConv", "upload"} -> Content(c)

Following(c) ==
  CASE c.op = "search" -> IF c.contact = 0 THEN "addContact" ELSE "listConvs"
    [] c.op = "addContact" -> "addConv"
    [] c.op = "listConvs" -> IF c.conv = 0 THEN "addConv" ELSE Content(c)
    [] c.op \in {"addConv", "upload"} -> Content(c)

Proceed(h) ==
  /\ call[h].answered /\ call[h].op # "post"
  /\ call' = [call EXCEPT ![h].op = Following(call[h]), ![h].answered = FALSE]
  /\ UNCHANGED <<chatwoot, late, job, budget>>

End(h) == call' = [call EXCEPT ![h] = Idle]
Settle(j, to) == job' = [job EXCEPT ![j] = IF @ = "queued" THEN to ELSE @]

(* Mutants: the answer to the post is not awaited; a delivered message     *)
(* stays in the queue.                                                     *)
ReturnUnposted(h) ==
  /\ call[h].op = "post"
  /\ End(h)
  /\ Settle(call[h].job, "done")
  /\ UNCHANGED <<chatwoot, late, budget>>

ReturnUnsettled(h) ==
  /\ call[h].answered /\ call[h].op = "post"
  /\ End(h)
  /\ UNCHANGED <<chatwoot, late, job, budget>>

(* Delivered: the row is deleted.                                          *)
Return(h) ==
  /\ call[h].answered /\ call[h].op = "post"
  /\ End(h)
  /\ Settle(call[h].job, "done")
  /\ UNCHANGED <<chatwoot, late, budget>>

(* The call gives up and its message goes back to the queue: a TransientError *)
(* (5xx or 429 with a JSON body, ClientError, timeout), an error nobody    *)
(* has classified (broken JSON), the death of the process, or, all being   *)
(* done, a failed delete.  A request that was not answered is lost, or     *)
(* performed late.                                                         *)
Break(h) ==
  /\ Running(h)
  /\ Spend("break")
  /\ End(h)
  /\ \/ UNCHANGED late
     \/ /\ ~call[h].answered
        /\ call[h].op \in {"addContact", "addConv", "post"}
        /\ late' = late \cup {[call[h] EXCEPT !.left = budget["break"]]}
  /\ UNCHANGED <<chatwoot, job>>

(* A 4xx: the message is archived.                                         *)
Refuse(h) ==
  /\ Running(h) /\ ~call[h].answered
  /\ IF call[h].op = "addContact" /\ Of(contacts, Sender[call[h].job]) # {}
     THEN UNCHANGED budget ELSE Spend("reject")
  /\ End(h)
  /\ Settle(call[h].job, "archived")
  /\ UNCHANGED <<chatwoot, late>>

(* A body that is not JSON, such as the page of a proxy: _parse_json raises*)
(* FatalError before anyone looks at the status.                           *)
Page(h) ==
  /\ Running(h)
  /\ Spend("reject")
  /\ End(h)
  /\ Settle(call[h].job, "archived")
  /\ UNCHANGED <<chatwoot, late>>

-----------------------------------------------------------------------------
Init ==
  /\ contacts \in Known
  /\ convs = <<>> /\ posts = <<>>
  /\ late = {}
  /\ call = [h \in Handlers |-> Idle]
  /\ job = [j \in Jobs |-> "queued"]
  /\ budget = Budget

Performed(h) ==
  Search(h) \/ AddContact(h) \/ ListConvs(h) \/ AddConv(h) \/ Upload(h) \/ Post(h)

Next ==
  \/ \E h \in Handlers :
       \/ \E j \in Jobs : Start(h, j)
       \/ Performed(h) \/ Proceed(h) \/ Return(h)
       \/ Break(h) \/ Refuse(h) \/ Page(h)
  \/ PerformLate

Spec == Init /\ [][Next]_vars

(* The workers take what is queued and the event loop runs them; a request *)
(* is answered, or its call gives up: aiohttp ends it after five minutes.  *)
Fairness ==
  /\ \A j \in Jobs : WF_vars(\E h \in Handlers : Start(h, j))
  /\ \A h \in Handlers : WF_vars(Performed(h) \/ Proceed(h) \/ Return(h))
FairSpec == Spec /\ Fairness

-----------------------------------------------------------------------------
Calls ==
  [op : Ops, answered : BOOLEAN, job : Jobs, contact : Nat, conv : Nat, left : Nat]
TypeOK ==
  /\ contacts \in Seq(Users)
  /\ convs \in Seq(1..Len(contacts))
  /\ posts \in Seq([job : Jobs, conv : 1..Len(convs)])
  /\ late \subseteq Calls
  /\ call \in [Handlers -> Calls \cup {Idle}]
  /\ job \in [Jobs -> {"queued", "done", "archived"}]
  /\ budget \in [Faults -> Nat]

(* A message that was deleted from the queue is in Chatwoot, and no        *)
(* message is ever in a conversation of someone else than its sender or a  *)
(* contact the search takes for him: whatever handlers create or find in   *)
(* the meantime, ids are not mixed up (cw_client.py:60-101).               *)
Owner(p) == contacts[convs[p.conv]]
DoneIsPosted ==
  /\ \A j \in Jobs : job[j] = "done" => \E i \in 1..Len(posts) : posts[i].job = j
  /\ \A i \in 1..Len(posts) :
       \/ Owner(posts[i]) = Sender[posts[i].job]
       \/ <<Sender[posts[i].job], Owner(posts[i])>> \in Lookalike

(* Repeated deliveries do not multiply contacts or conversations: a sender *)
(* has at most one contact, and a contact at most one conversation, per    *)
(* handler that may search before the first is created and per call that   *)
(* gave up on its request - however many messages he writes, and never a   *)
(* second in a process that works on one message at a time and whose       *)
(* requests are all answered (cw_client.py:60-85).                         *)
TwinsAreExplained ==
  /\ \A u \in Users : Cardinality(Of(contacts, u)) <= Cardinality(Handlers) + Used("break")
  /\ \A c \in 1..Len(contacts) : Cardinality(Of(convs, c)) <= Cardinality(Handlers) + Used("break")

(* A message is posted again only after a call that gave up, before or     *)
(* after its post was performed, or a vt that ran out (cw_client.py:95-101,*)
(* base.py:262-298).                                                       *)
Copies(j) == {i \in 1..Len(posts) : posts[i].job = j}
PostsAreExplained ==
  \A j \in Jobs : Cardinality(Copies(j)) <= 1 + Used("break") + Used("expire")

(* Every message is delivered or archived, whatever half of its contact,   *)
(* conversation or files an earlier delivery has left behind.              *)
EveryJobEnds == \A j \in Jobs : <>(job[j] # "queued")

=============================================================================
