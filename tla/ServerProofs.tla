---------------------------- MODULE ServerProofs ----------------------------
(***************************************************************************)
(* Proofs about Channels and WriteLock, for any people, handlers, tasks,   *)
(* units and bounds.                                                       *)
(*                                                                         *)
(* The wall of a channel does not follow from what a single step does: a   *)
(* person is asked about in one step and sent to in a later one, and a     *)
(* deletion carries recipients that were computed two writes earlier.      *)
(* HandlerInv says what a fan-out still means to send is already in        *)
(* entitled.                                                               *)
(*                                                                         *)
(* The write lock is the second part: its inductive invariant is LockInv,  *)
(* and from it come atomicity of every unit of work, and that a commit     *)
(* publishes only the lock holder's writes.                                *)
(***************************************************************************)
EXTENDS Channels, WriteLock, TLAPS

(* What a handler carries: only a deletion gets to the audience and its    *)
(* recipients are everybody when the channel is public; the fan-out sends  *)
(* to nobody before it began, asks about people unless the event is a      *)
(* broadcast, and has found or listed only those that may hear.            *)
HandlerInv(h) ==
    /\ pc[h] \in {"create", "insert", "remove", "post", "users", "bots"} =>
          job[h].verb # "delete"
    /\ pc[h] \in {"destroy", "publish", "all"} /\ job[h].verb = "delete" /\ ~private =>
          job[h].recipients = People
    /\ pc[h] \notin {"all", "users", "bots"} => sent[h] = {}
    /\ to[h] # Nobody => pc[h] \in {"users", "bots"} /\ to[h] \in entitled[h]
    /\ pc[h] = "all" => todo[h] \subseteq entitled[h]
    /\ sent[h] \subseteq entitled[h]

IInv ==
    /\ TypeOK
    /\ NoOrphanRows
    /\ \A h \in Handlers : HandlerInv(h)

(* A handler that does not move keeps its part of the invariant: what it   *)
(* may send only grows.                                                    *)
LEMMA OthersKeep ==
    ASSUME IInv, Witness, NEW g \in Handlers, private' = private,
           pc'[g] = pc[g], job'[g] = job[g], todo'[g] = todo[g],
           to'[g] = to[g], sent'[g] = sent[g]
    PROVE  HandlerInv(g)'
<1>1. HandlerInv(g)
  BY DEF IInv
<1>2. CASE pc[g] \in Spreading
  <2>1. entitled[g] \subseteq entitled'[g]
    BY <1>2 DEF Witness
  <2> QED
    BY <1>1, <2>1 DEF HandlerInv
<1>3. CASE pc[g] \notin Spreading
  <2>1. sent[g] = {} /\ to[g] = Nobody /\ pc[g] # "all"
    BY <1>1, <1>3 DEF HandlerInv, Spreading
  <2> QED
    BY <1>1, <2>1 DEF HandlerInv
<1> QED
  BY <1>2, <1>3

(* A request that is let in carries no deletion except towards its audience. *)
LEMMA RequestKeeps ==
    ASSUME IInv, Witness, ChannelsAssumption, NEW h \in Handlers, Request(h) PROVE IInv'
<1>1. PICK verb \in Verbs, who \in People, seq \in 0..MaxPosts,
           where \in {"create", "insert", "remove", "upsert", "post", "audience"} :
         /\ Begin(h, verb, who, seq, where)
         /\ where # "audience" => verb # "delete"
  BY DEF Request, CreateChannel, Invite, Kick, Leave, Delete, MarkRead, AddBot,
         RemoveBot, Post, Verbs, People, ChannelsAssumption
<1>2. UNCHANGED <<dbVars, online, fanVars>> /\ requests' \in 0..MaxRequests
  BY DEF Request, IInv, TypeOK, ChannelsAssumption
<1>3. pc[h] = "idle" /\ HandlerInv(h)
  BY DEF Request, IInv
<1>4. pc' = [pc EXCEPT ![h] = where]
      /\ job' = [job EXCEPT ![h] = [verb |-> verb, who |-> who, seq |-> seq,
                                    recipients |-> {}]]
  BY <1>1 DEF Begin, Goto
<1>5. TypeOK'
  BY <1>2, <1>4 DEF IInv, TypeOK, Job, dbVars, fanVars
<1>6. NoOrphanRows'
  BY <1>2 DEF IInv, NoOrphanRows, dbVars
<1>7. HandlerInv(h)'
  <2>1. sent'[h] = {} /\ to'[h] = Nobody
    BY <1>2, <1>3 DEF HandlerInv, fanVars
  <2>2. pc'[h] = where /\ job'[h].verb = verb
    BY <1>4 DEF IInv, TypeOK
  <2> QED
    BY <1>1, <2>1, <2>2 DEF HandlerInv
<1>8. ASSUME NEW g \in Handlers, g # h PROVE HandlerInv(g)'
  BY <1>2, <1>4, <1>8, OthersKeep DEF dbVars, fanVars, IInv, TypeOK
<1> QED
  BY <1>5, <1>6, <1>7, <1>8 DEF IInv

(* A handler that writes a row, or gives up because the row it checked is  *)
(* not as it was, has sent nothing yet.                                    *)
LEMMA WriteKeeps ==
    ASSUME IInv, Witness, ChannelsAssumption, NEW h \in Handlers, Write(h) PROVE IInv'
<1>1. UNCHANGED <<private, online, fanVars, requests>>
  BY DEF Write, Create, InsertMember, RemoveMember, Upsert, InsertPost
<1>2. /\ pc[h] \in {"create", "insert", "remove", "upsert", "post"}
      /\ (Continue(h, "publish") /\ pc[h] # "upsert") \/ Finish(h)
  BY DEF Write, Create, InsertMember, RemoveMember, Upsert, InsertPost
<1>3. HandlerInv(h) /\ TypeOK
  BY DEF IInv
<1>4. \/ pc' = [pc EXCEPT ![h] = "publish"] /\ pc[h] # "upsert" /\ UNCHANGED job
      \/ pc' = [pc EXCEPT ![h] = "idle"] /\ job' = [job EXCEPT ![h] = NoJob]
  BY <1>2 DEF Continue, Finish, Goto
<1>5. job[h].who \in People /\ job[h].seq \in 0..MaxPosts
  BY <1>3 DEF TypeOK, Job
<1>6. TypeOK'
  <2>1. life' \in {"none", "open", "gone"} /\ members' \subseteq People
    BY <1>3, <1>5, ChannelsAssumption
       DEF Write, Create, InsertMember, RemoveMember, Upsert, InsertPost, TypeOK, People
  <2>2. read' \in [People -> 0..MaxPosts]
    BY <1>3, <1>5, ChannelsAssumption
       DEF Write, Create, InsertMember, RemoveMember, Upsert, InsertPost, TypeOK
  <2>3. posts' \in 0..MaxPosts
    BY <1>3, ChannelsAssumption
       DEF Write, Create, InsertMember, RemoveMember, Upsert, InsertPost, TypeOK
  <2>4. job' \in [Handlers -> Job]
    BY <1>3, <1>4, ChannelsAssumption DEF TypeOK, Job, NoJob, Verbs, People
  <2> QED
    BY <1>1, <1>3, <1>4, <2>1, <2>2, <2>3, <2>4 DEF TypeOK, fanVars
<1>7. NoOrphanRows'
  BY DEF IInv, NoOrphanRows, Write, Create, InsertMember, RemoveMember, Upsert, InsertPost
<1>8. HandlerInv(h)'
  <2>1. sent'[h] = {} /\ to'[h] = Nobody
    BY <1>1, <1>2, <1>3 DEF HandlerInv, fanVars
  <2>2. (pc'[h] = "publish" /\ job'[h].verb # "delete") \/ pc'[h] = "idle"
    BY <1>2, <1>3, <1>4 DEF TypeOK, HandlerInv
  <2> QED
    BY <2>1, <2>2 DEF HandlerInv
<1>9. ASSUME NEW g \in Handlers, g # h PROVE HandlerInv(g)'
  BY <1>1, <1>3, <1>4, <1>9, OthersKeep DEF fanVars, TypeOK
<1> QED
  BY <1>6, <1>7, <1>8, <1>9 DEF IInv

(* The audience of a public channel is everybody.                          *)
LEMMA ComputeAudienceKeeps ==
    ASSUME IInv, Witness, ChannelsAssumption, NEW h \in Handlers, ComputeAudience(h)
    PROVE  IInv'
<1>1. UNCHANGED <<dbVars, online, fanVars, requests>> /\ pc[h] = "audience"
  BY DEF ComputeAudience
<1>2. HandlerInv(h) /\ TypeOK
  BY DEF IInv
<1> DEFINE set == IF private THEN members \cup {job[h].who} \cup Admins ELSE People
<1>3. /\ set \subseteq People
      /\ ~private => set = People
      /\ job' = [job EXCEPT ![h].recipients = set]
  <2>1. job[h].who \in People /\ members \subseteq People /\ Admins \subseteq People
    BY <1>2, ChannelsAssumption DEF TypeOK, Job, People
  <2> QED
    BY <2>1 DEF ComputeAudience
<1> HIDE DEF set
<1>4. pc' = [pc EXCEPT ![h] = "destroy"]
  BY DEF ComputeAudience, Goto
<1>5. TypeOK'
  BY <1>1, <1>2, <1>3, <1>4 DEF TypeOK, Job, dbVars, fanVars
<1>6. NoOrphanRows'
  BY <1>1 DEF IInv, NoOrphanRows, dbVars
<1>7. HandlerInv(h)'
  <2>1. sent'[h] = {} /\ to'[h] = Nobody
    BY <1>1, <1>2 DEF HandlerInv, fanVars
  <2>2. pc'[h] = "destroy" /\ (~private => job'[h].recipients = People)
    BY <1>2, <1>3, <1>4 DEF TypeOK, Job
  <2> QED
    BY <1>1, <2>1, <2>2 DEF HandlerInv, dbVars
<1>8. ASSUME NEW g \in Handlers, g # h PROVE HandlerInv(g)'
  BY <1>1, <1>2, <1>3, <1>4, <1>8, OthersKeep DEF dbVars, fanVars, TypeOK
<1> QED
  BY <1>5, <1>6, <1>7, <1>8 DEF IInv

(* The deletion takes the rows of the members with it.                     *)
LEMMA DestroyKeeps ==
    ASSUME IInv, Witness, ChannelsAssumption, NEW h \in Handlers, Destroy(h)
    PROVE  IInv'
<1>1. UNCHANGED <<private, online, fanVars, requests>> /\ pc[h] = "destroy"
  BY DEF Destroy
<1>2. HandlerInv(h) /\ TypeOK
  BY DEF IInv
<1>3. pc' = [pc EXCEPT ![h] = "publish"] /\ UNCHANGED job
  BY DEF Destroy, Continue, Goto
<1>4. TypeOK'
  BY <1>1, <1>2, <1>3, ChannelsAssumption DEF TypeOK, Destroy, fanVars
<1>5. NoOrphanRows'
  BY DEF NoOrphanRows, Destroy
<1>6. HandlerInv(h)'
  <2>1. sent'[h] = {} /\ to'[h] = Nobody /\ pc'[h] = "publish"
    BY <1>1, <1>2, <1>3 DEF HandlerInv, fanVars, TypeOK
  <2> QED
    BY <1>1, <1>2, <1>3, <2>1 DEF HandlerInv
<1>7. ASSUME NEW g \in Handlers, g # h PROVE HandlerInv(g)'
  BY <1>1, <1>2, <1>3, <1>7, OthersKeep DEF fanVars, TypeOK
<1> QED
  BY <1>4, <1>5, <1>6, <1>7 DEF IInv

(* What the fan-out of h may send is entitled as soon as the step is over. *)
LEMMA EntitledNow ==
    ASSUME Witness, NEW h \in Handlers, pc[h] \in Spreading, pc'[h] \in Spreading
    PROVE  /\ entitled[h] \subseteq entitled'[h]
           /\ {p \in People : MayHear(h, p)'} \subseteq entitled'[h]
BY DEF Witness

(* A broadcast lists people that may hear of it unasked.                   *)
LEMMA PublishKeeps ==
    ASSUME IInv, Witness, ChannelsAssumption, NEW h \in Handlers, Publish(h)
    PROVE  IInv'
<1>1. UNCHANGED <<dbVars, online, to, sent, requests>> /\ pc[h] = "publish"
  BY DEF Publish
<1>2. HandlerInv(h) /\ TypeOK
  BY DEF IInv
<1>3. sent[h] = {} /\ to[h] = Nobody
  BY <1>1, <1>2 DEF HandlerInv
<1>4. NoOrphanRows'
  BY <1>1 DEF IInv, NoOrphanRows, dbVars
<1>5. CASE Finish(h) /\ UNCHANGED todo
  <2>1. pc' = [pc EXCEPT ![h] = "idle"] /\ job' = [job EXCEPT ![h] = NoJob]
    BY <1>5 DEF Finish, Goto
  <2>2. TypeOK'
    BY <1>1, <1>2, <1>5, <2>1, ChannelsAssumption
       DEF TypeOK, Job, NoJob, Verbs, People, dbVars
  <2>3. HandlerInv(h)'
    BY <1>1, <1>2, <1>3, <2>1 DEF HandlerInv, TypeOK
  <2>4. ASSUME NEW g \in Handlers, g # h PROVE HandlerInv(g)'
    BY <1>1, <1>2, <1>5, <2>1, <2>4, OthersKeep DEF dbVars, TypeOK
  <2> QED
    BY <1>4, <2>2, <2>3, <2>4 DEF IInv
<1>6. CASE Continue(h, "all") \/ Continue(h, "users")
  <2> DEFINE list == IF job[h].verb = "delete"
                     THEN IF private THEN job[h].recipients ELSE online
                     ELSE IF ToAll(h) THEN online ELSE online \cap Users
  <2>1. /\ todo' = [todo EXCEPT ![h] = list]
        /\ pc' = [pc EXCEPT ![h] = IF job[h].verb = "delete" \/ ToAll(h)
                                   THEN "all" ELSE "users"]
        /\ job' = job
    BY <1>1, <1>2, <1>6 DEF Publish, Finish, Continue, Goto, TypeOK
  <2>2. list \subseteq People
    BY <1>2 DEF TypeOK, Job
  <2>3. job[h].verb = "delete" => \A p \in list : p \in job[h].recipients
    BY <1>1, <1>2 DEF HandlerInv, TypeOK
  <2>4. \A p \in list : job[h].verb = "delete" \/ ToAll(h) => MayHear(h, p)'
    BY <1>1, <2>1, <2>3 DEF MayHear, ToAll, dbVars
  <2> HIDE DEF list
  <2>5. TypeOK'
    BY <1>1, <1>2, <2>1, <2>2 DEF TypeOK, dbVars
  <2>6. pc'[h] \in {"all", "users"} /\ todo'[h] = list
        /\ (pc'[h] = "all" <=> job[h].verb = "delete" \/ ToAll(h))
    BY <1>2, <2>1 DEF TypeOK
  <2>7. HandlerInv(h)'
    <3>1. pc'[h] = "all" => todo'[h] \subseteq entitled'[h]
      BY <1>1, <2>2, <2>4, <2>6, EntitledNow DEF Spreading
    <3> QED
      BY <1>1, <1>2, <1>3, <2>1, <2>6, <3>1 DEF HandlerInv, dbVars
  <2>8. ASSUME NEW g \in Handlers, g # h PROVE HandlerInv(g)'
    BY <1>1, <1>2, <2>1, <2>8, OthersKeep DEF dbVars, TypeOK
  <2> QED
    BY <1>4, <2>5, <2>7, <2>8 DEF IInv
<1> QED
  BY <1>5, <1>6 DEF Publish

(* Who is asked about and found to be a member is entitled at that moment. *)
LEMMA AskKeeps ==
    ASSUME IInv, Witness, ChannelsAssumption, NEW h \in Handlers, NEW p \in People,
           Ask(h, p)
    PROVE  IInv'
<1>1. /\ UNCHANGED <<dbVars, online, pc, job, sent, requests>>
      /\ pc[h] \in {"users", "bots"}
  BY DEF Ask
<1>2. HandlerInv(h) /\ TypeOK
  BY DEF IInv
<1>3. todo' = [todo EXCEPT ![h] = @ \ {p}]
  BY DEF Ask
<1>4. PICK q \in {p, Nobody} : /\ to' = [to EXCEPT ![h] = q]
                               /\ q # Nobody => p = Subject(h) \/ IsMember(p)
  BY DEF Ask
<1>5. TypeOK'
  BY <1>1, <1>2, <1>3, <1>4 DEF TypeOK, dbVars
<1>6. NoOrphanRows'
  BY <1>1 DEF IInv, NoOrphanRows, dbVars
<1>7. HandlerInv(h)'
  <2>1. to'[h] = q
    BY <1>2, <1>4 DEF TypeOK
  <2>2. q # Nobody => MayHear(h, p)'
    BY <1>1, <1>2, <1>4 DEF MayHear, HandlerInv, Subject, IsMember, dbVars
  <2>3. entitled[h] \subseteq entitled'[h] /\ (q # Nobody => p \in entitled'[h])
    BY <1>1, <2>2, EntitledNow DEF Spreading
  <2> QED
    BY <1>1, <1>2, <1>4, <2>1, <2>3 DEF HandlerInv, dbVars
<1>8. ASSUME NEW g \in Handlers, g # h PROVE HandlerInv(g)'
  BY <1>1, <1>2, <1>3, <1>4, <1>8, OthersKeep DEF dbVars, TypeOK
<1> QED
  BY <1>5, <1>6, <1>7, <1>8 DEF IInv

(* A send goes to one that was found before, or listed for a broadcast.    *)
LEMMA SendKeeps ==
    ASSUME IInv, Witness, ChannelsAssumption, NEW h \in Handlers,
           Send(h) \/ \E p \in People : SendUnasked(h, p)
    PROVE  IInv'
<1>1. UNCHANGED <<dbVars, online, pc, job, requests>>
  BY DEF Send, SendUnasked
<1>2. HandlerInv(h) /\ TypeOK
  BY DEF IInv
<1>3. pc[h] \in {"all", "users", "bots"}
  BY <1>2 DEF Send, SendUnasked, HandlerInv
<1>4. PICK p \in People :
         /\ sent' = [sent EXCEPT ![h] = IF p \in online THEN @ \cup {p} ELSE @]
         /\ \/ /\ p = to[h] /\ p # Nobody
               /\ to' = [to EXCEPT ![h] = Nobody]
               /\ UNCHANGED todo
            \/ /\ pc[h] = "all" /\ p \in todo[h]
               /\ todo' = [todo EXCEPT ![h] = @ \ {p}]
               /\ UNCHANGED to
  <2>1. CASE Send(h)
    <3>1. to[h] \in People
      BY <1>2, <2>1 DEF Send, TypeOK
    <3> QED
      BY <2>1, <3>1 DEF Send
  <2>2. CASE \E p \in People : SendUnasked(h, p)
    BY <2>2 DEF SendUnasked
  <2> QED
    BY <2>1, <2>2
<1>5. p \in entitled[h]
  BY <1>2, <1>4 DEF HandlerInv
<1>6. TypeOK'
  BY <1>1, <1>2, <1>4 DEF TypeOK, dbVars
<1>7. NoOrphanRows'
  BY <1>1 DEF IInv, NoOrphanRows, dbVars
<1>8. HandlerInv(h)'
  <2>1. /\ sent'[h] \subseteq sent[h] \cup {p}
        /\ todo'[h] \subseteq todo[h]
        /\ to'[h] \in {to[h], Nobody}
    BY <1>2, <1>4 DEF TypeOK
  <2>2. entitled[h] \subseteq entitled'[h]
    BY <1>1, <1>3, EntitledNow DEF Spreading
  <2> QED
    BY <1>1, <1>2, <1>3, <1>5, <2>1, <2>2 DEF HandlerInv, dbVars
<1>9. ASSUME NEW g \in Handlers, g # h PROVE HandlerInv(g)'
  BY <1>1, <1>2, <1>4, <1>9, OthersKeep DEF dbVars, TypeOK
<1> QED
  BY <1>6, <1>7, <1>8, <1>9 DEF IInv

(* The end of a round sends nothing, and the end of a fan-out forgets it.  *)
LEMMA NextRoundKeeps ==
    ASSUME IInv, Witness, ChannelsAssumption, NEW h \in Handlers, NextRound(h)
    PROVE  IInv'
<1>1. UNCHANGED <<dbVars, online, to, requests>> /\ to[h] = Nobody
  BY DEF NextRound
<1>2. HandlerInv(h) /\ TypeOK
  BY DEF IInv
<1>3. NoOrphanRows'
  BY <1>1 DEF IInv, NoOrphanRows, dbVars
<1>4. CASE pc[h] = "users"
  <2>1. /\ pc' = [pc EXCEPT ![h] = "bots"] /\ UNCHANGED <<job, sent>>
        /\ todo' = [todo EXCEPT ![h] = online \cap Bots]
    BY <1>4 DEF NextRound, Continue, Goto
  <2>2. TypeOK'
    BY <1>1, <1>2, <2>1 DEF TypeOK, dbVars
  <2>3. HandlerInv(h)'
    <3>1. pc'[h] = "bots"
      BY <1>2, <2>1 DEF TypeOK
    <3>2. entitled[h] \subseteq entitled'[h]
      BY <1>4, <3>1, EntitledNow DEF Spreading
    <3> QED
      BY <1>1, <1>2, <1>4, <2>1, <3>1, <3>2 DEF HandlerInv
  <2>4. ASSUME NEW g \in Handlers, g # h PROVE HandlerInv(g)'
    BY <1>1, <1>2, <2>1, <2>4, OthersKeep DEF dbVars, TypeOK
  <2> QED
    BY <1>3, <2>2, <2>3, <2>4 DEF IInv
<1>5. CASE pc[h] # "users"
  <2>1. /\ pc' = [pc EXCEPT ![h] = "idle"] /\ job' = [job EXCEPT ![h] = NoJob]
        /\ sent' = [sent EXCEPT ![h] = {}] /\ UNCHANGED todo
    BY <1>5 DEF NextRound, Finish, Goto
  <2>2. TypeOK'
    BY <1>1, <1>2, <2>1, ChannelsAssumption DEF TypeOK, Job, NoJob, Verbs, People, dbVars
  <2>3. HandlerInv(h)'
    <3>1. pc'[h] = "idle" /\ sent'[h] = {} /\ to'[h] = Nobody
      BY <1>1, <1>2, <2>1 DEF TypeOK
    <3> QED
      BY <3>1 DEF HandlerInv
  <2>4. ASSUME NEW g \in Handlers, g # h PROVE HandlerInv(g)'
    BY <1>1, <1>2, <2>1, <2>4, OthersKeep DEF dbVars, TypeOK
  <2> QED
    BY <1>3, <2>2, <2>3, <2>4 DEF IInv
<1> QED
  BY <1>4, <1>5

(* Sockets come and go: no handler moves.                                  *)
LEMMA SocketsKeep ==
    ASSUME IInv, Witness, NEW p \in People, Connect(p) \/ Disconnect(p)
    PROVE  IInv'
<1>1. UNCHANGED <<dbVars, pc, job, fanVars, requests>> /\ online' \subseteq online \cup {p}
  BY DEF Connect, Disconnect
<1>2. TypeOK' /\ NoOrphanRows'
  BY <1>1 DEF IInv, TypeOK, NoOrphanRows, dbVars, fanVars
<1>3. ASSUME NEW g \in Handlers PROVE HandlerInv(g)'
  BY <1>1, OthersKeep DEF dbVars, fanVars
<1> QED
  BY <1>2, <1>3 DEF IInv

(* Nothing is under way at first.                                          *)
LEMMA InitIInv == Init => IInv
BY ChannelsAssumption
   DEF Init, IInv, TypeOK, NoOrphanRows, HandlerInv, Job, NoJob, Verbs, People

(* Nor does a step of somebody else matter.                                *)
LEMMA StutterKeeps == ASSUME IInv, UNCHANGED vars PROVE IInv'
BY DEF IInv, TypeOK, NoOrphanRows, HandlerInv, vars

(* The steps that could send to an outsider are Ask, Send and SendUnasked. *)
THEOREM ChannelsInvariance == Spec => []IInv
<1>1. IInv /\ [Next]_vars => IInv'
  <2> SUFFICES ASSUME IInv, [Next]_vars PROVE IInv'
    OBVIOUS
  <2> USE ChannelsAssumption
  <2>1. CASE UNCHANGED vars
    BY <2>1, StutterKeeps
  <2>2. CASE Next
    <3>1. Witness
      BY <2>2 DEF Next
    <3>2. ASSUME NEW p \in People, Connect(p) \/ Disconnect(p) PROVE IInv'
      BY <3>1, <3>2, SocketsKeep
    <3>3. ASSUME NEW h \in Handlers,
                 Request(h) \/ Write(h) \/ ComputeAudience(h) \/ Destroy(h) \/ FanOut(h)
          PROVE  IInv'
      BY <3>1, <3>3, RequestKeeps, WriteKeeps, ComputeAudienceKeeps, DestroyKeeps,
         PublishKeeps, AskKeeps, SendKeeps, NextRoundKeeps DEF FanOut
    <3> QED
      BY <2>2, <3>2, <3>3 DEF Next, Step
  <2> QED
    BY <2>1, <2>2
<1> QED
  BY InitIInv, <1>1, PTL DEF Spec

(* Every variable has its type, whatever requests overlap.                 *)
THEOREM ChannelsTypeCorrect == Spec => []TypeOK
<1>1. IInv => TypeOK
  BY DEF IInv
<1> QED
  BY ChannelsInvariance, <1>1, PTL

(* Nothing that happens in a channel is sent to one who was at no time     *)
(* since then a member, the subject or a recipient.                        *)
THEOREM WallHolds == Spec => []OutsidersHearNothing
<1>1. IInv => OutsidersHearNothing
  BY DEF IInv, HandlerInv, OutsidersHearNothing
<1> QED
  BY ChannelsInvariance, <1>1, PTL

(* A deleted channel leaves no membership behind.                          *)
THEOREM DeletionIsClean == Spec => []NoOrphanRows
<1>1. IInv => NoOrphanRows
  BY DEF IInv
<1> QED
  BY ChannelsInvariance, <1>1, PTL

(* No step lowers the last_read_seq of a row that stays.                   *)
THEOREM ReadStateAscends == Spec => ReadNeverGoesBack
<1>1. IInv /\ [Next]_vars => [\A p \in members \cap members' : read[p] <= read'[p]]_vars
  <2> SUFFICES ASSUME IInv, Next, NEW p \in members \cap members'
               PROVE  read[p] <= read'[p]
    OBVIOUS
  <2>1. TypeOK /\ p \in People /\ read[p] \in 0..MaxPosts
    BY DEF IInv, TypeOK
  <2>2. CASE UNCHANGED read
    BY <2>1, <2>2, ChannelsAssumption
  <2>3. ASSUME NEW h \in Handlers, RemoveMember(h) \/ Upsert(h)
        PROVE  read[p] <= read'[p]
    <3>1. job[h].who \in People /\ job[h].seq \in 0..MaxPosts
      BY <2>1 DEF TypeOK, Job
    <3> QED
      BY <2>1, <2>3, <3>1, ChannelsAssumption DEF RemoveMember, Upsert, TypeOK
  <2>4. ASSUME NEW h \in Handlers, Destroy(h) PROVE FALSE
    BY <2>4 DEF Destroy
  <2> QED
    BY <2>2, <2>3, <2>4
       DEF Next, Step, Request, Write, Create, InsertMember, InsertPost, ComputeAudience,
           FanOut, Publish, Ask, Send, SendUnasked, NextRound, Connect, Disconnect, dbVars
<1> QED
  BY ChannelsInvariance, <1>1, PTL DEF Spec, ReadNeverGoesBack

-----------------------------------------------------------------------------
(* Nobody is forgotten                                                     *)

(* Who is owed the event of h is still to be come to, is the one the       *)
(* fan-out sends to next, or has been sent it.  The bots' turn is last.    *)
Covered(h) == todo[h] \cup sent[h] \cup {to[h]}

HearInv(h) ==
    /\ owed[h] \subseteq People \cap online
    /\ pc[h] \in {"users", "bots"} => ~ToAll(h)
    /\ pc[h] \in {"all", "bots"} => owed[h] \subseteq Covered(h)
    /\ pc[h] = "users" => owed[h] \cap Users \subseteq Covered(h)

(* To be owed an event one must stay connected and a member.               *)
LEMMA OwedNow ==
    ASSUME Witness, NEW h \in Handlers
    PROVE  /\ owed'[h] \subseteq People \cap online'
           /\ \A p \in owed'[h] : MayHear(h, p)'
           /\ pc[h] \in Spreading => owed'[h] \subseteq owed[h]
           /\ pc'[h] \notin Spreading => owed'[h] = {}
BY DEF Witness

LEMMA OthersStillHear ==
    ASSUME Witness, NEW g \in Handlers, HearInv(g), private' = private,
           pc'[g] = pc[g], job'[g] = job[g], todo'[g] = todo[g],
           to'[g] = to[g], sent'[g] = sent[g]
    PROVE  HearInv(g)'
BY OwedNow DEF HearInv, Covered, ToAll, Spreading

(* A handler that is not in the middle of its fan-out owes nobody a send.  *)
LEMMA BeforeTheFanOut ==
    ASSUME Witness, NEW h \in Handlers, pc'[h] \notin {"all", "users", "bots"}
    PROVE  HearInv(h)'
BY OwedNow DEF HearInv

LEMMA PublishHears ==
    ASSUME IInv, Witness, NEW h \in Handlers, HearInv(h), Publish(h) PROVE HearInv(h)'
<1>1. UNCHANGED <<dbVars, online, to, sent>> /\ pc[h] = "publish" /\ TypeOK
  BY DEF Publish, IInv
<1>2. CASE Finish(h)
  <2>1. pc'[h] = "idle"
    BY <1>1, <1>2 DEF Finish, Goto, TypeOK
  <2> QED
    BY <2>1, BeforeTheFanOut
<1>3. CASE ~Finish(h)
  <2>1. /\ job' = job
        /\ todo'[h] = IF job[h].verb = "delete"
                      THEN IF private THEN job[h].recipients ELSE online
                      ELSE IF ToAll(h) THEN online ELSE online \cap Users
        /\ pc'[h] = IF job[h].verb = "delete" \/ ToAll(h) THEN "all" ELSE "users"
    BY <1>1, <1>3 DEF Publish, Continue, Goto, TypeOK
  <2>2. \A p \in owed'[h] : job[h].verb = "delete" => p \in job[h].recipients
    BY <2>1, OwedNow DEF MayHear
  <2>3. owed'[h] \subseteq People \cap online
    BY <1>1, OwedNow
  <2>4. ToAll(h)' = ToAll(h)
    BY <1>1, <2>1 DEF ToAll, dbVars
  <2> QED
    BY <1>1, <2>1, <2>2, <2>3, <2>4 DEF HearInv, Covered
<1> QED
  BY <1>2, <1>3

(* Who is asked about and found no member is owed nothing any more.        *)
LEMMA AskHears ==
    ASSUME IInv, Witness, NEW h \in Handlers, HearInv(h), NEW p \in People, Ask(h, p)
    PROVE  HearInv(h)'
<1>1. /\ UNCHANGED <<dbVars, online, pc, job, sent>> /\ pc[h] \in {"users", "bots"}
      /\ TypeOK /\ job[h].verb # "delete" /\ to[h] = Nobody
  BY DEF Ask, IInv, HandlerInv
<1>2. /\ todo'[h] = todo[h] \ {p}
      /\ to'[h] = IF p = Subject(h) \/ IsMember(p) THEN p ELSE Nobody
  BY <1>1 DEF Ask, TypeOK
<1>3. p \in owed'[h] => p = Subject(h) \/ IsMember(p)
  <2>1. ~ToAll(h) /\ ToAll(h)' = ToAll(h)
    BY <1>1 DEF HearInv, ToAll, dbVars
  <2>2. (p = Subject(h) \/ IsMember(p))' = (p = Subject(h) \/ IsMember(p))
    BY <1>1 DEF Subject, IsMember, dbVars
  <2> QED
    BY <1>1, <2>1, <2>2, OwedNow DEF MayHear
<1>4. owed'[h] \subseteq owed[h] /\ owed'[h] \subseteq People \cap online'
  BY <1>1, OwedNow DEF Spreading
<1>5. ToAll(h)' = ToAll(h) /\ pc'[h] = pc[h]
  BY <1>1 DEF ToAll, dbVars
<1>6. Nobody \notin owed'[h]
  BY <1>4, ChannelsAssumption
<1> QED
  BY <1>1, <1>2, <1>3, <1>4, <1>5, <1>6 DEF HearInv, Covered

(* A send misses only one who is not connected.                            *)
LEMMA SendHears ==
    ASSUME IInv, Witness, NEW h \in Handlers, HearInv(h),
           Send(h) \/ \E p \in People : SendUnasked(h, p)
    PROVE  HearInv(h)'
<1>1. UNCHANGED <<dbVars, online, pc, job>> /\ TypeOK
  BY DEF Send, SendUnasked, IInv
<1>2. pc[h] \in {"all", "users", "bots"}
  BY DEF Send, SendUnasked, IInv, HandlerInv
<1>3. /\ owed'[h] \subseteq owed[h] /\ owed'[h] \subseteq People \cap online
      /\ Nobody \notin owed'[h]
  BY <1>1, <1>2, OwedNow, ChannelsAssumption DEF Spreading
<1>4. Covered(h) \cap People \cap online \subseteq Covered(h)'
  <2>1. CASE Send(h)
    BY <1>1, <2>1, ChannelsAssumption DEF Send, Covered, TypeOK
  <2>2. ASSUME NEW p \in People, SendUnasked(h, p)
        PROVE  Covered(h) \cap People \cap online \subseteq Covered(h)'
    BY <1>1, <2>2 DEF SendUnasked, Covered, TypeOK
  <2> QED
    BY <2>1, <2>2
<1>5. ToAll(h)' = ToAll(h) /\ pc'[h] = pc[h]
  BY <1>1 DEF ToAll, dbVars
<1> QED
  BY <1>1, <1>3, <1>4, <1>5 DEF HearInv

(* When the users are through, all of them that are owed were sent it.     *)
LEMMA NextRoundHears ==
    ASSUME IInv, Witness, NEW h \in Handlers, HearInv(h), NextRound(h) PROVE HearInv(h)'
<1>1. UNCHANGED <<dbVars, online, to>> /\ to[h] = Nobody /\ todo[h] = {} /\ TypeOK
  BY DEF NextRound, IInv
<1>2. CASE pc[h] = "users"
  <2>1. /\ pc'[h] = "bots" /\ job' = job /\ sent' = sent
        /\ todo'[h] = online \cap Bots
    BY <1>1, <1>2 DEF NextRound, Continue, Goto, TypeOK
  <2>2. owed'[h] \subseteq owed[h] /\ owed'[h] \subseteq People \cap online
    BY <1>1, <1>2, OwedNow DEF Spreading
  <2>3. owed[h] \cap Users \subseteq sent[h]
    BY <1>1, <1>2, ChannelsAssumption DEF HearInv, Covered, People
  <2>4. ToAll(h)' = ToAll(h)
    BY <1>1, <2>1 DEF ToAll, dbVars
  <2> QED
    BY <1>1, <1>2, <2>1, <2>2, <2>3, <2>4 DEF HearInv, Covered, People
<1>3. CASE pc[h] # "users"
  <2>1. pc'[h] = "idle"
    BY <1>1, <1>3 DEF NextRound, Finish, Goto, TypeOK
  <2> QED
    BY <2>1, BeforeTheFanOut
<1> QED
  BY <1>2, <1>3

(* The steps before the fan-out do not get into it.                        *)
LEMMA EarlierStepsHear ==
    ASSUME IInv, Witness, NEW h \in Handlers,
           Request(h) \/ Write(h) \/ ComputeAudience(h) \/ Destroy(h)
    PROVE  HearInv(h)'
<1>1. pc \in [Handlers -> {"idle", "create", "insert", "remove", "upsert", "post",
                           "audience", "destroy", "publish", "all", "users", "bots"}]
  BY DEF IInv, TypeOK
<1>2. pc'[h] \notin {"all", "users", "bots"}
  BY <1>1 DEF Request, CreateChannel, Invite, Kick, Leave, Delete, MarkRead, AddBot, RemoveBot, Post,
              Begin, Write, Create, InsertMember, RemoveMember, Upsert, InsertPost,
              ComputeAudience, Destroy, Continue, Finish, Goto
<1> QED
  BY <1>2, BeforeTheFanOut

(* No step of a handler touches what another one carries.                  *)
LEMMA OneMoves ==
    ASSUME TypeOK, NEW h \in Handlers, NEW g \in Handlers, g # h,
           Request(h) \/ Write(h) \/ ComputeAudience(h) \/ Destroy(h) \/ FanOut(h)
    PROVE  /\ private' = private /\ pc'[g] = pc[g] /\ job'[g] = job[g]
           /\ todo'[g] = todo[g] /\ to'[g] = to[g] /\ sent'[g] = sent[g]
<1>1. CASE Request(h)
  BY <1>1 DEF TypeOK, Request, CreateChannel, Invite, Kick, Leave, Delete, MarkRead, AddBot, RemoveBot,
              Post, Begin, Goto, dbVars, fanVars
<1>2. CASE Write(h)
  BY <1>2 DEF TypeOK, Write, Create, InsertMember, RemoveMember, Upsert, InsertPost, Continue,
              Finish, Goto, fanVars
<1>3. CASE ComputeAudience(h) \/ Destroy(h)
  BY <1>3 DEF TypeOK, ComputeAudience, Destroy, Continue, Goto, dbVars, fanVars
<1>4. CASE FanOut(h)
  BY <1>4 DEF TypeOK, FanOut, Publish, Ask, Send, SendUnasked, NextRound, Continue, Finish, Goto, dbVars
<1> QED
  BY <1>1, <1>2, <1>3, <1>4

AllHear == \A h \in Handlers : HearInv(h)

LEMMA HearingKeeps ==
    ASSUME IInv, AllHear, [Next]_vars PROVE AllHear'
<1> SUFFICES ASSUME NEW g \in Handlers PROVE HearInv(g)'
  BY DEF AllHear
<1>1. IInv /\ HearInv(g) /\ TypeOK
  BY DEF AllHear, IInv
<1>2. CASE UNCHANGED vars
  BY <1>1, <1>2 DEF HearInv, Covered, ToAll, vars
<1>3. ASSUME NEW p \in People, Connect(p) \/ Disconnect(p), Witness PROVE HearInv(g)'
  BY <1>1, <1>3, OthersStillHear DEF Connect, Disconnect, dbVars, fanVars
<1>4. ASSUME NEW h \in Handlers, h # g, Witness,
             Request(h) \/ Write(h) \/ ComputeAudience(h) \/ Destroy(h) \/ FanOut(h)
      PROVE  HearInv(g)'
  BY <1>1, <1>4, OneMoves, OthersStillHear
<1>5. CASE Witness /\ FanOut(g)
  BY <1>1, <1>5, PublishHears, AskHears, SendHears, NextRoundHears DEF FanOut
<1>6. CASE Witness /\ (Request(g) \/ Write(g) \/ ComputeAudience(g) \/ Destroy(g))
  BY <1>1, <1>6, EarlierStepsHear
<1> QED
  BY <1>2, <1>3, <1>4, <1>5, <1>6 DEF Next, Step

(* The end of a fan-out finds nobody that is owed the event and was not    *)
(* sent it: nothing it does outruns who stayed connected and a member.     *)
THEOREM NobodyIsForgotten == Spec => MembersHear
<1>1. Init => AllHear
  BY DEF Init, HearInv, AllHear
<1>2. IInv /\ AllHear /\ [Next]_vars => AllHear'
  BY HearingKeeps
<1>3. IInv /\ AllHear /\ [Next]_vars =>
        [\A h \in Handlers :
            pc[h] \in {"all", "bots"} /\ pc'[h] = "idle" => owed[h] \subseteq sent[h]]_vars
  <2> SUFFICES ASSUME IInv, Next, NEW h \in Handlers, HearInv(h),
                      pc[h] \in {"all", "bots"}, pc'[h] = "idle"
               PROVE  owed[h] \subseteq sent[h]
    BY DEF AllHear
  <2>1. TypeOK
    BY DEF IInv
  <2>2. PICK g \in Handlers : Request(g) \/ Write(g) \/ ComputeAudience(g) \/ Destroy(g) \/ FanOut(g)
    BY DEF Next, Step, Connect, Disconnect
  <2>3. g = h
    BY <2>1, <2>2, OneMoves
  <2>4. NextRound(h)
    BY <2>2, <2>3 DEF Request, Write, Create, InsertMember, RemoveMember, Upsert, InsertPost,
       ComputeAudience, Destroy, FanOut, Publish, Ask, Send, SendUnasked
  <2> QED
    BY <2>4, ChannelsAssumption DEF NextRound, HearInv, Covered, People
<1> QED
  BY ChannelsInvariance, <1>1, <1>2, <1>3, PTL DEF Spec, MembersHear
-----------------------------------------------------------------------------
(* The write lock under the handlers, for every set of tasks and units     *)

(* Nothing has happened before the first request.                          *)
LEMMA LockStarts == LockInit => LockInv
  <1> SUFFICES ASSUME LockInit PROVE LockInv
    OBVIOUS
  <1>1. LockTypeOK
    <2>1. inTxn \in BOOLEAN
      BY Zenon DEF LockInit
    <2>2. QED
      BY <2>1, WriteLockAssumption DEF LockInit, LockTypeOK, Writes
  <1>2. HolderInv /\ UnitInv /\ ContextInv
    BY WriteLockAssumption
    DEF LockInit, HolderInv, UnitInv, ContextInv, Waiting, Holding
  <1>3. PendingInv
    BY DEF LockInit, PendingInv
  <1>4. AllOrNothing
    BY DEF LockInit, AllOrNothing
  <1>5. QED
    BY <1>1, <1>2, <1>3, <1>4 DEF LockInv

(* A task that queues takes a unit nobody else has.                        *)
LEMMA EnqueueKeepsUnits ==
    ASSUME LockInv, NEW t \in Tasks, NEW u \in Units, NEW w \in Waiting,
           Enqueue(t, u, w)
    PROVE  UnitInv'
  <1> USE WriteLockAssumption DEF LockInv, LockTypeOK, HolderInv, UnitInv, ContextInv,
                                  Enqueue, connVars, Waiting, Holding
  <1>1. \A s \in Tasks : unit[s] # u
    <2> SUFFICES ASSUME NEW s \in Tasks, unit[s] = u PROVE FALSE
      OBVIOUS
    <2>1. status[unit[s]] = "fresh" /\ unit[s] # NoUnit
      OBVIOUS
    <2>2. step[s] = "closing"
      BY <2>1
    <2>3. QED
      BY <2>1, <2>2
  <1>2. \A s \in Tasks : step'[s] = "idle" <=> unit'[s] = NoUnit
    OBVIOUS
  <1>3. \A s1, s2 \in Tasks :
            unit'[s1] = unit'[s2] /\ unit'[s1] # NoUnit => s1 = s2
    BY <1>1
  <1>4. \A s \in Tasks :
          /\ step'[s] \notin {"idle", "closing"} => status'[unit'[s]] = "running"
          /\ step'[s] = "closing" => status'[unit'[s]] \in {"committed", "rolledback"}
          /\ step'[s] \in Waiting \cup {"execute", "begin"} => issued'[unit'[s]] = 0
    BY <1>1
  <1>5. \A v \in Units : status'[v] = "fresh" => issued'[v] = 0
    OBVIOUS
  <1>6. QED
    BY <1>2, <1>3, <1>4, <1>5

(* execute() queues for the lock.                                           *)
LEMMA ExecuteAutocommitKeeps ==
    ASSUME LockInv, NEW t \in Tasks, NEW u \in Units, ExecuteAutocommit(t, u)
    PROVE  LockInv'
  <1>1. LockTypeOK'
    BY WriteLockAssumption
    DEF LockInv, LockTypeOK, HolderInv, UnitInv, ExecuteAutocommit, Enqueue,
        InLiveBlock, lockVars, taskVars, unitVars, connVars, Waiting, Holding,
        Writes
  <1>2. HolderInv'
    BY WriteLockAssumption
    DEF LockInv, LockTypeOK, HolderInv, ExecuteAutocommit, Enqueue, InLiveBlock,
        lockVars, taskVars, unitVars, connVars, Waiting, Holding
  <1>3. UnitInv'
    BY EnqueueKeepsUnits DEF ExecuteAutocommit, Waiting
  <1>4. ContextInv'
    BY WriteLockAssumption
    DEF LockInv, LockTypeOK, HolderInv, UnitInv, ContextInv, ExecuteAutocommit,
        Enqueue, InLiveBlock, lockVars, taskVars, unitVars, connVars, Waiting,
        Holding
  <1>5. PendingInv'
    BY WriteLockAssumption
    DEF LockInv, LockTypeOK, HolderInv, UnitInv, ContextInv, PendingInv,
        ExecuteAutocommit, Enqueue, InLiveBlock, lockVars, taskVars, unitVars,
        connVars, Waiting, Holding, Writes, IssuedBy
  <1>6. AllOrNothing'
    BY WriteLockAssumption
    DEF LockInv, LockTypeOK, HolderInv, UnitInv, ContextInv, PendingInv,
        AllOrNothing, ExecuteAutocommit, Enqueue, InLiveBlock, lockVars,
        taskVars, unitVars, connVars, Waiting, Holding, Writes, IssuedBy
  <1>7. QED
    BY <1>1, <1>2, <1>3, <1>4, <1>5, <1>6 DEF LockInv

(* transaction() queues for the lock.                                       *)
LEMMA OpenTransactionKeeps ==
    ASSUME LockInv, NEW t \in Tasks, NEW u \in Units, OpenTransaction(t, u)
    PROVE  LockInv'
  <1>1. LockTypeOK'
    BY WriteLockAssumption
    DEF LockInv, LockTypeOK, HolderInv, UnitInv, OpenTransaction, Enqueue,
        InLiveBlock, lockVars, taskVars, unitVars, connVars, Waiting, Holding,
        Writes
  <1>2. HolderInv'
    BY WriteLockAssumption
    DEF LockInv, LockTypeOK, HolderInv, OpenTransaction, Enqueue, InLiveBlock,
        lockVars, taskVars, unitVars, connVars, Waiting, Holding
  <1>3. UnitInv'
    BY EnqueueKeepsUnits DEF OpenTransaction, Waiting
  <1>4. ContextInv'
    BY WriteLockAssumption
    DEF LockInv, LockTypeOK, HolderInv, UnitInv, ContextInv, OpenTransaction,
        Enqueue, InLiveBlock, lockVars, taskVars, unitVars, connVars, Waiting,
        Holding
  <1>5. PendingInv'
    BY WriteLockAssumption
    DEF LockInv, LockTypeOK, HolderInv, UnitInv, ContextInv, PendingInv,
        OpenTransaction, Enqueue, InLiveBlock, lockVars, taskVars, unitVars,
        connVars, Waiting, Holding, Writes, IssuedBy
  <1>6. AllOrNothing'
    BY WriteLockAssumption
    DEF LockInv, LockTypeOK, HolderInv, UnitInv, ContextInv, PendingInv,
        AllOrNothing, OpenTransaction, Enqueue, InLiveBlock, lockVars,
        taskVars, unitVars, connVars, Waiting, Holding, Writes, IssuedBy
  <1>7. QED
    BY <1>1, <1>2, <1>3, <1>4, <1>5, <1>6 DEF LockInv

(* A statement joins a live block.                                          *)
LEMMA ExecuteJoinsKeeps ==
    ASSUME LockInv, NEW t \in Tasks, ExecuteJoins(t)
    PROVE  LockInv'
  <1>1. LockTypeOK'
    BY WriteLockAssumption
    DEF LockInv, LockTypeOK, HolderInv, UnitInv, ExecuteJoins, RunStatement,
        InLiveBlock, lockVars, taskVars, unitVars, connVars, Waiting, Holding,
        Writes
  <1>2. HolderInv'
    BY WriteLockAssumption
    DEF LockInv, LockTypeOK, HolderInv, ExecuteJoins, RunStatement, InLiveBlock,
        lockVars, taskVars, unitVars, connVars, Waiting, Holding
  <1>3. UnitInv'
    BY WriteLockAssumption
    DEF LockInv, LockTypeOK, HolderInv, UnitInv, ContextInv, ExecuteJoins,
        RunStatement, InLiveBlock, lockVars, taskVars, unitVars, connVars,
        Waiting, Holding
  <1>4. ContextInv'
    BY WriteLockAssumption
    DEF LockInv, LockTypeOK, HolderInv, UnitInv, ContextInv, ExecuteJoins,
        RunStatement, InLiveBlock, lockVars, taskVars, unitVars, connVars,
        Waiting, Holding
  <1>5. PendingInv'
    BY WriteLockAssumption
    DEF LockInv, LockTypeOK, HolderInv, UnitInv, ContextInv, PendingInv,
        ExecuteJoins, RunStatement, InLiveBlock, lockVars, taskVars, unitVars,
        connVars, Waiting, Holding, Writes, IssuedBy
  <1>6. AllOrNothing'
    BY WriteLockAssumption
    DEF LockInv, LockTypeOK, HolderInv, UnitInv, ContextInv, PendingInv,
        AllOrNothing, ExecuteJoins, RunStatement, InLiveBlock, lockVars,
        taskVars, unitVars, connVars, Waiting, Holding, Writes, IssuedBy
  <1>7. QED
    BY <1>1, <1>2, <1>3, <1>4, <1>5, <1>6 DEF LockInv

(* A block's own statement.                                                 *)
LEMMA BodyWriteKeeps ==
    ASSUME LockInv, NEW t \in Tasks, BodyWrite(t)
    PROVE  LockInv'
  <1>1. LockTypeOK'
    BY WriteLockAssumption
    DEF LockInv, LockTypeOK, HolderInv, UnitInv, BodyWrite, RunStatement, lockVars,
        taskVars, unitVars, connVars, Waiting, Holding, Writes
  <1>2. HolderInv'
    BY WriteLockAssumption
    DEF LockInv, LockTypeOK, HolderInv, BodyWrite, RunStatement, lockVars, taskVars,
        unitVars, connVars, Waiting, Holding
  <1>3. UnitInv'
    BY WriteLockAssumption
    DEF LockInv, LockTypeOK, HolderInv, UnitInv, ContextInv, BodyWrite, RunStatement,
        lockVars, taskVars, unitVars, connVars, Waiting, Holding
  <1>4. ContextInv'
    BY WriteLockAssumption
    DEF LockInv, LockTypeOK, HolderInv, UnitInv, ContextInv, BodyWrite, RunStatement,
        lockVars, taskVars, unitVars, connVars, Waiting, Holding
  <1>5. PendingInv'
    BY WriteLockAssumption
    DEF LockInv, LockTypeOK, HolderInv, UnitInv, ContextInv, PendingInv, BodyWrite,
        RunStatement, lockVars, taskVars, unitVars, connVars, Waiting,
        Holding, Writes, IssuedBy
  <1>6. AllOrNothing'
    BY WriteLockAssumption
    DEF LockInv, LockTypeOK, HolderInv, UnitInv, ContextInv, PendingInv,
        AllOrNothing, BodyWrite, RunStatement, lockVars, taskVars, unitVars,
        connVars, Waiting, Holding, Writes, IssuedBy
  <1>7. QED
    BY <1>1, <1>2, <1>3, <1>4, <1>5, <1>6 DEF LockInv

(* A task is created inside a block.                                        *)
LEMMA SpawnChildKeeps ==
    ASSUME LockInv, NEW t \in Tasks, NEW c \in Tasks, SpawnChild(t, c)
    PROVE  LockInv'
  <1>1. LockTypeOK'
    BY WriteLockAssumption
    DEF LockInv, LockTypeOK, HolderInv, UnitInv, SpawnChild, lockVars, taskVars,
        unitVars, connVars, Waiting, Holding, Writes
  <1>2. HolderInv'
    BY WriteLockAssumption
    DEF LockInv, LockTypeOK, HolderInv, SpawnChild, lockVars, taskVars, unitVars,
        connVars, Waiting, Holding
  <1>3. UnitInv'
    BY WriteLockAssumption
    DEF LockInv, LockTypeOK, HolderInv, UnitInv, ContextInv, SpawnChild, lockVars,
        taskVars, unitVars, connVars, Waiting, Holding
  <1>4. ContextInv'
    BY WriteLockAssumption
    DEF LockInv, LockTypeOK, HolderInv, UnitInv, ContextInv, SpawnChild, lockVars,
        taskVars, unitVars, connVars, Waiting, Holding
  <1>5. PendingInv'
    BY WriteLockAssumption
    DEF LockInv, LockTypeOK, HolderInv, UnitInv, ContextInv, PendingInv, SpawnChild,
        lockVars, taskVars, unitVars, connVars, Waiting, Holding, Writes,
        IssuedBy
  <1>6. AllOrNothing'
    BY WriteLockAssumption
    DEF LockInv, LockTypeOK, HolderInv, UnitInv, ContextInv, PendingInv,
        AllOrNothing, SpawnChild, lockVars, taskVars, unitVars, connVars,
        Waiting, Holding, Writes, IssuedBy
  <1>7. QED
    BY <1>1, <1>2, <1>3, <1>4, <1>5, <1>6 DEF LockInv

(* A task ends.                                                             *)
LEMMA TaskEndsKeeps ==
    ASSUME LockInv, NEW t \in Tasks, TaskEnds(t)
    PROVE  LockInv'
  <1>1. LockTypeOK'
    BY WriteLockAssumption
    DEF LockInv, LockTypeOK, HolderInv, UnitInv, TaskEnds, lockVars, taskVars,
        unitVars, connVars, Waiting, Holding, Writes
  <1>2. HolderInv'
    BY WriteLockAssumption
    DEF LockInv, LockTypeOK, HolderInv, TaskEnds, lockVars, taskVars, unitVars,
        connVars, Waiting, Holding
  <1>3. UnitInv'
    BY WriteLockAssumption
    DEF LockInv, LockTypeOK, HolderInv, UnitInv, ContextInv, TaskEnds, lockVars,
        taskVars, unitVars, connVars, Waiting, Holding
  <1>4. ContextInv'
    BY WriteLockAssumption
    DEF LockInv, LockTypeOK, HolderInv, UnitInv, ContextInv, TaskEnds, lockVars,
        taskVars, unitVars, connVars, Waiting, Holding
  <1>5. PendingInv'
    BY WriteLockAssumption
    DEF LockInv, LockTypeOK, HolderInv, UnitInv, ContextInv, PendingInv, TaskEnds,
        lockVars, taskVars, unitVars, connVars, Waiting, Holding, Writes,
        IssuedBy
  <1>6. AllOrNothing'
    BY WriteLockAssumption
    DEF LockInv, LockTypeOK, HolderInv, UnitInv, ContextInv, PendingInv,
        AllOrNothing, TaskEnds, lockVars, taskVars, unitVars, connVars,
        Waiting, Holding, Writes, IssuedBy
  <1>7. QED
    BY <1>1, <1>2, <1>3, <1>4, <1>5, <1>6 DEF LockInv

(* execute() gets the lock.                                                 *)
LEMMA AcquireAutoKeeps ==
    ASSUME LockInv, NEW t \in Tasks, AcquireAuto(t)
    PROVE  LockInv'
  <1>1. LockTypeOK'
    BY WriteLockAssumption
    DEF LockInv, LockTypeOK, HolderInv, UnitInv, AcquireAuto, lockVars, taskVars,
        unitVars, connVars, Waiting, Holding, Writes
  <1>2. HolderInv'
    BY WriteLockAssumption
    DEF LockInv, LockTypeOK, HolderInv, AcquireAuto, lockVars, taskVars, unitVars,
        connVars, Waiting, Holding
  <1>3. UnitInv'
    BY WriteLockAssumption
    DEF LockInv, LockTypeOK, HolderInv, UnitInv, ContextInv, AcquireAuto, lockVars,
        taskVars, unitVars, connVars, Waiting, Holding
  <1>4. ContextInv'
    BY WriteLockAssumption
    DEF LockInv, LockTypeOK, HolderInv, UnitInv, ContextInv, AcquireAuto, lockVars,
        taskVars, unitVars, connVars, Waiting, Holding
  <1>5. PendingInv'
    BY WriteLockAssumption
    DEF LockInv, LockTypeOK, HolderInv, UnitInv, ContextInv, PendingInv, AcquireAuto,
        lockVars, taskVars, unitVars, connVars, Waiting, Holding, Writes,
        IssuedBy
  <1>6. AllOrNothing'
    BY WriteLockAssumption
    DEF LockInv, LockTypeOK, HolderInv, UnitInv, ContextInv, PendingInv,
        AllOrNothing, AcquireAuto, lockVars, taskVars, unitVars, connVars,
        Waiting, Holding, Writes, IssuedBy
  <1>7. QED
    BY <1>1, <1>2, <1>3, <1>4, <1>5, <1>6 DEF LockInv

(* The autocommit statement runs.                                           *)
LEMMA AutoExecuteKeeps ==
    ASSUME LockInv, NEW t \in Tasks, AutoExecute(t)
    PROVE  LockInv'
  <1>1. LockTypeOK'
    BY WriteLockAssumption
    DEF LockInv, LockTypeOK, HolderInv, UnitInv, AutoExecute, RunStatement, lockVars,
        taskVars, unitVars, connVars, Waiting, Holding, Writes
  <1>2. HolderInv'
    BY WriteLockAssumption
    DEF LockInv, LockTypeOK, HolderInv, AutoExecute, RunStatement, lockVars,
        taskVars, unitVars, connVars, Waiting, Holding
  <1>3. UnitInv'
    BY WriteLockAssumption, SMTT(30)
    DEF LockInv, LockTypeOK, HolderInv, UnitInv, ContextInv, AutoExecute,
        RunStatement, lockVars, taskVars, unitVars, connVars, Waiting, Holding
  <1>4. ContextInv'
    BY WriteLockAssumption
    DEF LockInv, LockTypeOK, HolderInv, UnitInv, ContextInv, AutoExecute,
        RunStatement, lockVars, taskVars, unitVars, connVars, Waiting, Holding
  <1>5. PendingInv'
    BY WriteLockAssumption
    DEF LockInv, LockTypeOK, HolderInv, UnitInv, ContextInv, PendingInv, AutoExecute,
        RunStatement, lockVars, taskVars, unitVars, connVars, Waiting,
        Holding, Writes, IssuedBy
  <1>6. AllOrNothing'
    BY WriteLockAssumption, SMTT(30)
    DEF LockInv, LockTypeOK, HolderInv, UnitInv, ContextInv, PendingInv,
        AllOrNothing, AutoExecute, RunStatement, lockVars, taskVars, unitVars,
        connVars, Waiting, Holding, Writes, IssuedBy
  <1>7. QED
    BY <1>1, <1>2, <1>3, <1>4, <1>5, <1>6 DEF LockInv

(* The autocommit statement raises.                                         *)
LEMMA AutoExecuteRaisesKeeps ==
    ASSUME LockInv, NEW t \in Tasks, AutoExecuteRaises(t)
    PROVE  LockInv'
  <1>1. LockTypeOK'
    BY WriteLockAssumption
    DEF LockInv, LockTypeOK, HolderInv, UnitInv, AutoExecuteRaises, EndUnit, lockVars,
        taskVars, unitVars, connVars, Waiting, Holding, Writes
  <1>2. HolderInv'
    BY WriteLockAssumption
    DEF LockInv, LockTypeOK, HolderInv, AutoExecuteRaises, EndUnit, lockVars,
        taskVars, unitVars, connVars, Waiting, Holding
  <1>3. UnitInv'
    BY WriteLockAssumption
    DEF LockInv, LockTypeOK, HolderInv, UnitInv, ContextInv, AutoExecuteRaises,
        EndUnit, lockVars, taskVars, unitVars, connVars, Waiting, Holding
  <1>4. ContextInv'
    BY WriteLockAssumption
    DEF LockInv, LockTypeOK, HolderInv, UnitInv, ContextInv, AutoExecuteRaises,
        EndUnit, lockVars, taskVars, unitVars, connVars, Waiting, Holding
  <1>5. PendingInv'
    BY WriteLockAssumption
    DEF LockInv, LockTypeOK, HolderInv, UnitInv, ContextInv, PendingInv,
        AutoExecuteRaises, EndUnit, lockVars, taskVars, unitVars, connVars,
        Waiting, Holding, Writes, IssuedBy
  <1>6. AllOrNothing'
    BY WriteLockAssumption
    DEF LockInv, LockTypeOK, HolderInv, UnitInv, ContextInv, PendingInv,
        AllOrNothing, AutoExecuteRaises, EndUnit, lockVars, taskVars, unitVars,
        connVars, Waiting, Holding, Writes, IssuedBy
  <1>7. QED
    BY <1>1, <1>2, <1>3, <1>4, <1>5, <1>6 DEF LockInv

(* execute() commits.                                                       *)
LEMMA AutoCommitKeeps ==
    ASSUME LockInv, NEW t \in Tasks, AutoCommit(t)
    PROVE  LockInv'
  <1>0. (inTxn \in BOOLEAN)'
    BY Zenon DEF AutoCommit
  <1>1. LockTypeOK'
    BY <1>0, WriteLockAssumption
    DEF LockInv, LockTypeOK, HolderInv, UnitInv, AutoCommit, EndUnit, lockVars,
        taskVars, unitVars, connVars, Waiting, Holding, Writes
  <1>2. HolderInv'
    BY WriteLockAssumption
    DEF LockInv, LockTypeOK, HolderInv, AutoCommit, EndUnit, lockVars, taskVars,
        unitVars, connVars, Waiting, Holding
  <1>3. UnitInv'
    BY WriteLockAssumption
    DEF LockInv, LockTypeOK, HolderInv, UnitInv, ContextInv, AutoCommit, EndUnit,
        lockVars, taskVars, unitVars, connVars, Waiting, Holding
  <1>4. ContextInv'
    BY WriteLockAssumption, SMTT(30)
    DEF LockInv, LockTypeOK, HolderInv, UnitInv, ContextInv, AutoCommit, EndUnit,
        lockVars, taskVars, unitVars, connVars, Waiting, Holding
  <1>5. PendingInv'
    BY WriteLockAssumption
    DEF LockInv, LockTypeOK, HolderInv, UnitInv, ContextInv, PendingInv, AutoCommit,
        EndUnit, lockVars, taskVars, unitVars, connVars, Waiting, Holding,
        Writes, IssuedBy
  <1>6. AllOrNothing'
    BY WriteLockAssumption
    DEF LockInv, LockTypeOK, HolderInv, UnitInv, ContextInv, PendingInv,
        AllOrNothing, AutoCommit, EndUnit, lockVars, taskVars, unitVars,
        connVars, Waiting, Holding, Writes, IssuedBy
  <1>7. QED
    BY <1>1, <1>2, <1>3, <1>4, <1>5, <1>6 DEF LockInv

(* transaction() gets the lock.                                             *)
LEMMA AcquireBlockKeeps ==
    ASSUME LockInv, NEW t \in Tasks, AcquireBlock(t)
    PROVE  LockInv'
  <1>1. LockTypeOK'
    BY WriteLockAssumption
    DEF LockInv, LockTypeOK, HolderInv, UnitInv, AcquireBlock, lockVars, taskVars,
        unitVars, connVars, Waiting, Holding, Writes
  <1>2. HolderInv'
    BY WriteLockAssumption
    DEF LockInv, LockTypeOK, HolderInv, AcquireBlock, lockVars, taskVars, unitVars,
        connVars, Waiting, Holding
  <1>3. UnitInv'
    BY WriteLockAssumption
    DEF LockInv, LockTypeOK, HolderInv, UnitInv, ContextInv, AcquireBlock, lockVars,
        taskVars, unitVars, connVars, Waiting, Holding
  <1>4. ContextInv'
    BY WriteLockAssumption
    DEF LockInv, LockTypeOK, HolderInv, UnitInv, ContextInv, AcquireBlock, lockVars,
        taskVars, unitVars, connVars, Waiting, Holding
  <1>5. PendingInv'
    BY WriteLockAssumption
    DEF LockInv, LockTypeOK, HolderInv, UnitInv, ContextInv, PendingInv,
        AcquireBlock, lockVars, taskVars, unitVars, connVars, Waiting,
        Holding, Writes, IssuedBy
  <1>6. AllOrNothing'
    BY WriteLockAssumption
    DEF LockInv, LockTypeOK, HolderInv, UnitInv, ContextInv, PendingInv,
        AllOrNothing, AcquireBlock, lockVars, taskVars, unitVars, connVars,
        Waiting, Holding, Writes, IssuedBy
  <1>7. QED
    BY <1>1, <1>2, <1>3, <1>4, <1>5, <1>6 DEF LockInv

(* BEGIN succeeds.                                                          *)
LEMMA BeginImmediateKeeps ==
    ASSUME LockInv, NEW t \in Tasks, BeginImmediate(t)
    PROVE  LockInv'
  <1>1. LockTypeOK'
    BY WriteLockAssumption
    DEF LockInv, LockTypeOK, HolderInv, UnitInv, BeginImmediate, lockVars, taskVars,
        unitVars, connVars, Waiting, Holding, Writes
  <1>2. HolderInv'
    BY WriteLockAssumption
    DEF LockInv, LockTypeOK, HolderInv, BeginImmediate, lockVars, taskVars, unitVars,
        connVars, Waiting, Holding
  <1>3. UnitInv'
    BY WriteLockAssumption
    DEF LockInv, LockTypeOK, HolderInv, UnitInv, ContextInv, BeginImmediate,
        lockVars, taskVars, unitVars, connVars, Waiting, Holding
  <1>4. ContextInv'
    BY WriteLockAssumption
    DEF LockInv, LockTypeOK, HolderInv, UnitInv, ContextInv, BeginImmediate,
        lockVars, taskVars, unitVars, connVars, Waiting, Holding
  <1>5. PendingInv'
    BY WriteLockAssumption
    DEF LockInv, LockTypeOK, HolderInv, UnitInv, ContextInv, PendingInv,
        BeginImmediate, lockVars, taskVars, unitVars, connVars, Waiting,
        Holding, Writes, IssuedBy
  <1>6. AllOrNothing'
    BY WriteLockAssumption
    DEF LockInv, LockTypeOK, HolderInv, UnitInv, ContextInv, PendingInv,
        AllOrNothing, BeginImmediate, lockVars, taskVars, unitVars, connVars,
        Waiting, Holding, Writes, IssuedBy
  <1>7. QED
    BY <1>1, <1>2, <1>3, <1>4, <1>5, <1>6 DEF LockInv

(* BEGIN fails.                                                             *)
LEMMA BeginRaisesKeeps ==
    ASSUME LockInv, NEW t \in Tasks, BeginRaises(t)
    PROVE  LockInv'
  <1>1. LockTypeOK'
    BY WriteLockAssumption
    DEF LockInv, LockTypeOK, HolderInv, UnitInv, BeginRaises, EndUnit, CloseBlock,
        lockVars, taskVars, unitVars, connVars, Waiting, Holding, Writes
  <1>2. HolderInv'
    BY WriteLockAssumption
    DEF LockInv, LockTypeOK, HolderInv, BeginRaises, EndUnit, CloseBlock, lockVars,
        taskVars, unitVars, connVars, Waiting, Holding
  <1>3. UnitInv'
    BY WriteLockAssumption
    DEF LockInv, LockTypeOK, HolderInv, UnitInv, ContextInv, BeginRaises, EndUnit,
        CloseBlock, lockVars, taskVars, unitVars, connVars, Waiting, Holding
  <1>4. ContextInv'
    BY WriteLockAssumption
    DEF LockInv, LockTypeOK, HolderInv, UnitInv, ContextInv, BeginRaises, EndUnit,
        CloseBlock, lockVars, taskVars, unitVars, connVars, Waiting, Holding
  <1>5. PendingInv'
    BY WriteLockAssumption
    DEF LockInv, LockTypeOK, HolderInv, UnitInv, ContextInv, PendingInv, BeginRaises,
        EndUnit, CloseBlock, lockVars, taskVars, unitVars, connVars, Waiting,
        Holding, Writes, IssuedBy
  <1>6. AllOrNothing'
    BY WriteLockAssumption
    DEF LockInv, LockTypeOK, HolderInv, UnitInv, ContextInv, PendingInv,
        AllOrNothing, BeginRaises, EndUnit, CloseBlock, lockVars, taskVars,
        unitVars, connVars, Waiting, Holding, Writes, IssuedBy
  <1>7. QED
    BY <1>1, <1>2, <1>3, <1>4, <1>5, <1>6 DEF LockInv

(* A block commits.                                                         *)
LEMMA BodyReturnsKeeps ==
    ASSUME LockInv, NEW t \in Tasks, BodyReturns(t)
    PROVE  LockInv'
  <1>0. (inTxn \in BOOLEAN)'
    BY Zenon DEF BodyReturns
  <1>1. LockTypeOK'
    BY <1>0, WriteLockAssumption
    DEF LockInv, LockTypeOK, HolderInv, UnitInv, BodyReturns, lockVars, taskVars,
        unitVars, connVars, Waiting, Holding, Writes
  <1>2. HolderInv'
    BY WriteLockAssumption
    DEF LockInv, LockTypeOK, HolderInv, BodyReturns, lockVars, taskVars, unitVars,
        connVars, Waiting, Holding
  <1>3. UnitInv'
    BY WriteLockAssumption
    DEF LockInv, LockTypeOK, HolderInv, UnitInv, ContextInv, BodyReturns, lockVars,
        taskVars, unitVars, connVars, Waiting, Holding
  <1>4. ContextInv'
    BY WriteLockAssumption
    DEF LockInv, LockTypeOK, HolderInv, UnitInv, ContextInv, BodyReturns, lockVars,
        taskVars, unitVars, connVars, Waiting, Holding
  <1>5. PendingInv'
    BY WriteLockAssumption
    DEF LockInv, LockTypeOK, HolderInv, UnitInv, ContextInv, PendingInv, BodyReturns,
        lockVars, taskVars, unitVars, connVars, Waiting, Holding, Writes,
        IssuedBy
  <1>6. AllOrNothing'
    BY WriteLockAssumption
    DEF LockInv, LockTypeOK, HolderInv, UnitInv, ContextInv, PendingInv,
        AllOrNothing, BodyReturns, lockVars, taskVars, unitVars, connVars,
        Waiting, Holding, Writes, IssuedBy
  <1>7. QED
    BY <1>1, <1>2, <1>3, <1>4, <1>5, <1>6 DEF LockInv

(* A block rolls back.                                                      *)
LEMMA BodyRaisesKeeps ==
    ASSUME LockInv, NEW t \in Tasks, BodyRaises(t)
    PROVE  LockInv'
  <1>0. (inTxn \in BOOLEAN)'
    BY Zenon DEF BodyRaises
  <1>1. LockTypeOK'
    BY <1>0, WriteLockAssumption
    DEF LockInv, LockTypeOK, HolderInv, UnitInv, BodyRaises, lockVars, taskVars,
        unitVars, connVars, Waiting, Holding, Writes
  <1>2. HolderInv'
    BY WriteLockAssumption
    DEF LockInv, LockTypeOK, HolderInv, BodyRaises, lockVars, taskVars, unitVars,
        connVars, Waiting, Holding
  <1>3. UnitInv'
    BY WriteLockAssumption
    DEF LockInv, LockTypeOK, HolderInv, UnitInv, ContextInv, BodyRaises, lockVars,
        taskVars, unitVars, connVars, Waiting, Holding
  <1>4. ContextInv'
    BY WriteLockAssumption
    DEF LockInv, LockTypeOK, HolderInv, UnitInv, ContextInv, BodyRaises, lockVars,
        taskVars, unitVars, connVars, Waiting, Holding
  <1>5. PendingInv'
    BY WriteLockAssumption
    DEF LockInv, LockTypeOK, HolderInv, UnitInv, ContextInv, PendingInv, BodyRaises,
        lockVars, taskVars, unitVars, connVars, Waiting, Holding, Writes,
        IssuedBy
  <1>6. AllOrNothing'
    BY WriteLockAssumption
    DEF LockInv, LockTypeOK, HolderInv, UnitInv, ContextInv, PendingInv,
        AllOrNothing, BodyRaises, lockVars, taskVars, unitVars, connVars,
        Waiting, Holding, Writes, IssuedBy
  <1>7. QED
    BY <1>1, <1>2, <1>3, <1>4, <1>5, <1>6 DEF LockInv

(* A block gives the lock back.                                             *)
LEMMA LeaveBlockKeeps ==
    ASSUME LockInv, NEW t \in Tasks, LeaveBlock(t)
    PROVE  LockInv'
  <1>1. LockTypeOK'
    BY WriteLockAssumption
    DEF LockInv, LockTypeOK, HolderInv, UnitInv, LeaveBlock, EndUnit, CloseBlock,
        lockVars, taskVars, unitVars, connVars, Waiting, Holding, Writes
  <1>2. HolderInv'
    BY WriteLockAssumption
    DEF LockInv, LockTypeOK, HolderInv, LeaveBlock, EndUnit, CloseBlock, lockVars,
        taskVars, unitVars, connVars, Waiting, Holding
  <1>3. UnitInv'
    BY WriteLockAssumption
    DEF LockInv, LockTypeOK, HolderInv, UnitInv, ContextInv, LeaveBlock, EndUnit,
        CloseBlock, lockVars, taskVars, unitVars, connVars, Waiting, Holding
  <1>4. ContextInv'
    BY WriteLockAssumption
    DEF LockInv, LockTypeOK, HolderInv, UnitInv, ContextInv, LeaveBlock, EndUnit,
        CloseBlock, lockVars, taskVars, unitVars, connVars, Waiting, Holding
  <1>5. PendingInv'
    BY WriteLockAssumption
    DEF LockInv, LockTypeOK, HolderInv, UnitInv, ContextInv, PendingInv, LeaveBlock,
        EndUnit, CloseBlock, lockVars, taskVars, unitVars, connVars, Waiting,
        Holding, Writes, IssuedBy
  <1>6. AllOrNothing'
    BY WriteLockAssumption
    DEF LockInv, LockTypeOK, HolderInv, UnitInv, ContextInv, PendingInv,
        AllOrNothing, LeaveBlock, EndUnit, CloseBlock, lockVars, taskVars,
        unitVars, connVars, Waiting, Holding, Writes, IssuedBy
  <1>7. QED
    BY <1>1, <1>2, <1>3, <1>4, <1>5, <1>6 DEF LockInv

(* The process restarts.                                                    *)
LEMMA CrashAndConnectKeeps ==
    ASSUME LockInv, CrashAndConnect
    PROVE  LockInv'
  <1>0. (inTxn \in BOOLEAN)'
    BY Zenon DEF CrashAndConnect
  <1>1. LockTypeOK'
    BY <1>0, WriteLockAssumption
    DEF LockInv, LockTypeOK, HolderInv, UnitInv, CrashAndConnect, Waiting, Holding,
        Writes
  <1>2. HolderInv'
    BY WriteLockAssumption
    DEF LockInv, LockTypeOK, HolderInv, CrashAndConnect, Waiting, Holding
  <1>3. UnitInv'
    BY WriteLockAssumption
    DEF LockInv, LockTypeOK, HolderInv, UnitInv, ContextInv, CrashAndConnect,
        Waiting, Holding
  <1>4. ContextInv'
    BY WriteLockAssumption
    DEF LockInv, LockTypeOK, HolderInv, UnitInv, ContextInv, CrashAndConnect,
        Waiting, Holding
  <1>5. PendingInv'
    BY WriteLockAssumption
    DEF LockInv, LockTypeOK, HolderInv, UnitInv, ContextInv, PendingInv,
        CrashAndConnect, Waiting, Holding, Writes, IssuedBy
  <1>6. AllOrNothing'
    BY WriteLockAssumption
    DEF LockInv, LockTypeOK, HolderInv, UnitInv, ContextInv, PendingInv,
        AllOrNothing, CrashAndConnect, Waiting, Holding, Writes, IssuedBy
  <1>7. QED
    BY <1>1, <1>2, <1>3, <1>4, <1>5, <1>6 DEF LockInv

(* A stuttering step keeps everything.                                     *)
LEMMA LockStutterKeeps == ASSUME LockInv, UNCHANGED allVars PROVE LockInv'
  BY DEF LockInv, LockTypeOK, HolderInv, UnitInv, ContextInv, PendingInv,
         AllOrNothing, IssuedBy, Writes, allVars

(* LockInv is inductive.                                                      *)
LEMMA LockNextKeeps == LockInv /\ [LockNext]_allVars => LockInv'
  <1> SUFFICES ASSUME LockInv, [LockNext]_allVars PROVE LockInv'
    OBVIOUS
  <1>1. CASE UNCHANGED allVars
    BY <1>1, LockStutterKeeps
  <1>2. CASE CrashAndConnect
    BY <1>2, CrashAndConnectKeeps
  <1>3. ASSUME NEW t \in Tasks, TaskStep(t) PROVE LockInv'
    BY <1>3, AcquireAutoKeeps, AutoExecuteKeeps, AutoExecuteRaisesKeeps, AutoCommitKeeps,
       AcquireBlockKeeps, BeginImmediateKeeps, BeginRaisesKeeps,
       BodyReturnsKeeps, BodyRaisesKeeps, LeaveBlockKeeps DEF TaskStep
  <1>4. ASSUME NEW t \in Tasks, TaskRequest(t) PROVE LockInv'
    BY <1>4, ExecuteAutocommitKeeps, OpenTransactionKeeps, ExecuteJoinsKeeps,
       BodyWriteKeeps, SpawnChildKeeps, TaskEndsKeeps DEF TaskRequest
  <1>5. QED
    BY <1>1, <1>2, <1>3, <1>4 DEF LockNext

(* The invariant holds in every behaviour, through failures and crashes.   *)
THEOREM LockInvariance == LockSpec => []LockInv
  BY LockStarts, LockNextKeeps, PTL DEF LockSpec

(* The variables keep their types.                                         *)
THEOREM LockTypeCorrect == LockSpec => []LockTypeOK
  <1>1. LockInv => LockTypeOK
    BY DEF LockInv
  <1>2. QED
    BY <1>1, LockInvariance, PTL

(* Every unit of work, an autocommit statement or a block, is durable as a *)
(* whole or not at all, for any number of tasks and whatever fails.        *)
THEOREM UnitsAreAtomic == LockSpec => []AllOrNothing
  <1>1. LockInv => AllOrNothing
    BY DEF LockInv
  <1>2. QED
    BY <1>1, LockInvariance, PTL

-----------------------------------------------------------------------------
OwnWork == \A w \in (durable' \ durable) \ stray :
              holder # NoTask /\ w[1] = unit[holder]

(* Only the two commits add to durable, and what they publish is pending.  *)
LEMMA DurableGrowsFromPending ==
    ASSUME [LockNext]_allVars
    PROVE  durable' = durable \/ durable' = durable \cup pending
  BY DEF LockNext, TaskStep, TaskRequest, ExecuteAutocommit, OpenTransaction, Enqueue,
         ExecuteJoins, BodyWrite, RunStatement, SpawnChild, TaskEnds,
         AcquireAuto, AutoExecute, AutoExecuteRaises, AutoCommit,
         AcquireBlock, BeginImmediate, BeginRaises, BodyReturns, BodyRaises,
         LeaveBlock, CloseBlock, EndUnit, CrashAndConnect, connVars, allVars

(* A commit makes nobody's writes durable but the lock holder's.           *)
THEOREM CommitsAreOwn == LockSpec => CommitsOwnWork
  <1>1. LockInv /\ [LockNext]_allVars => OwnWork
    BY DurableGrowsFromPending DEF LockInv, PendingInv, OwnWork
  <1>2. LockInv /\ [LockNext]_allVars => [OwnWork]_allVars
    BY <1>1
  <1>3. QED
    BY <1>2, LockInvariance, PTL DEF LockSpec, CommitsOwnWork, OwnWork

SomeoneClosing == stray' # stray => \E t \in Tasks : step[t] = "closing"

(* An inherited context joins a block that is over only while the block's  *)
(* owner is still closing it.                                              *)
THEOREM InheritanceEnds == LockSpec => InheritedBlockDies
  <1>1. ASSUME LockInv, NEW t \in Tasks, ExecuteJoins(t) PROVE SomeoneClosing
    BY <1>1 DEF LockInv, LockTypeOK, HolderInv, UnitInv, ContextInv, ExecuteJoins,
                InLiveBlock, SomeoneClosing, Waiting, Holding
  <1>2. LockInv /\ [LockNext]_allVars => SomeoneClosing
    BY <1>1 DEF SomeoneClosing, LockNext, TaskStep, TaskRequest, ExecuteAutocommit,
         OpenTransaction, Enqueue, BodyWrite, RunStatement, SpawnChild,
         TaskEnds, AcquireAuto, AutoExecute, AutoExecuteRaises, AutoCommit,
         AcquireBlock, BeginImmediate, BeginRaises, BodyReturns, BodyRaises,
         LeaveBlock, CloseBlock, EndUnit, CrashAndConnect, connVars, allVars
  <1>3. QED
    BY <1>2, LockInvariance, PTL DEF LockSpec, InheritedBlockDies, SomeoneClosing

=============================================================================
