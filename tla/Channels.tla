------------------------------ MODULE Channels ------------------------------
(***************************************************************************)
(* server/app/routers/channels.py and the channel wall of server/app/ws.py *)
(* on one text channel: its creation, the membership verbs, read state,    *)
(* posts and deletion, and the fan-out of what they publish.  A handler    *)
(* checks what it is allowed to do against rows it read, other requests    *)
(* run at its awaits, and then it writes; its event is fanned out by its   *)
(* own task, one connected person at a time, asking is_member anew before  *)
(* each send.                                                              *)
(*                                                                         *)
(* reply_mode, the text of messages (MessageStore) and the privacy filter  *)
(* (Delivery) are left out.                                                *)
(***************************************************************************)
EXTENDS Naturals, FiniteSets

CONSTANTS
    Handlers,    \* request tasks that may run at the same time
    Users, Bots, \* the people of the house
    Admins,      \* users that are admins
    Owner,       \* the user that creates the channel
    Nobody,      \* no person
    MaxPosts,    \* bound: messages posted, and the seqs that are read
    MaxRequests  \* bound: requests made

People == Users \cup Bots

ASSUME ChannelsAssumption ==
    /\ Users \cap Bots = {}
    /\ Owner \in Users
    /\ Admins \subseteq Users
    /\ Nobody \notin People
    /\ MaxPosts \in Nat
    /\ MaxRequests \in Nat

VARIABLES
    life,    \* of the row in channels: none, open or gone
    private, \* visibility = 'private'
    members, \* channel_members: the people with a row
    read,    \* last_read_seq of the rows
    posts,   \* messages in the channel
    online,  \* people with a socket (user_conns, bot_conns)
    pc,      \* where each handler, with the fan-out of its event, is
    job,     \* what a handler carries: its verb, its subject, recipients
    todo,    \* people the fan-out has listed and not yet come to
    to,      \* the person it has found to be a member and sends to next
    sent,    \* the people its event was sent to
    owed,    \* history: who was owed the event ever since its commit
    entitled,\* history: who was entitled to it at some time since then
    requests

dbVars == <<life, private, members, read, posts>>
fanVars == <<todo, to, sent>>
historyVars == <<owed, entitled>>
vars == <<life, private, members, read, posts, online, pc, job, todo, to, sent,
          owed, entitled, requests>>

Verbs == {"create", "invite", "kick", "leave", "add_bot", "remove_bot",
          "read", "post", "delete"}
Job == [verb : Verbs, who : People, seq : 0..MaxPosts, recipients : SUBSET People]
NoJob == [verb |-> "create", who |-> Owner, seq |-> 0, recipients |-> {}]
Adding == {"invite", "add_bot"}
Removing == {"kick", "leave", "remove_bot"}

(* Public text channels implicitly include every user, never a bot.        *)
IsMember(p) == life = "open" /\ (p \in members \/ (p \in Users /\ ~private))

Init ==
    /\ life = "none"
    /\ private \in BOOLEAN
    /\ members = {}
    /\ read = [p \in People |-> 0]
    /\ posts = 0
    /\ online = {}
    /\ pc = [h \in Handlers |-> "idle"]
    /\ job = [h \in Handlers |-> NoJob]
    /\ todo = [h \in Handlers |-> {}]
    /\ to = [h \in Handlers |-> Nobody]
    /\ sent = [h \in Handlers |-> {}]
    /\ owed = [h \in Handlers |-> {}]
    /\ entitled = [h \in Handlers |-> {}]
    /\ requests = 0

Goto(h, where) == pc' = [pc EXCEPT ![h] = where]
Continue(h, where) == Goto(h, where) /\ UNCHANGED job
Finish(h) == Goto(h, "idle") /\ job' = [job EXCEPT ![h] = NoJob]

-----------------------------------------------------------------------------
(* The checks of a request.  A refused request changes nothing.            *)

Begin(h, verb, who, seq, where) ==
    /\ job' = [job EXCEPT ![h] = [verb |-> verb, who |-> who, seq |-> seq,
                                  recipients |-> {}]]
    /\ Goto(h, where)

CreateChannel(h) == life = "none" /\ Begin(h, "create", Owner, 0, "create")

Invite(h, u) == life = "open" /\ private /\ Begin(h, "invite", u, 0, "insert")

Kick(h, u) ==
    /\ life = "open" /\ private
    /\ u # Owner
    /\ Begin(h, "kick", u, 0, "remove")

Leave(h, u) == life = "open" /\ private /\ Begin(h, "leave", u, 0, "remove")

(* _require_bot_manage_access                                              *)
ManagesBots(u) == IsMember(u) /\ (private => u = Owner)

AddBot(h, b) ==
    /\ \E u \in Users : ManagesBots(u)
    /\ Begin(h, "add_bot", b, 0, "insert")

RemoveBot(h, b) ==
    /\ \E u \in Users : ManagesBots(u)
    /\ Begin(h, "remove_bot", b, 0, "remove")

MarkRead(h, u, seq) == IsMember(u) /\ Begin(h, "read", u, seq, "upsert")

Post(h, p) == IsMember(p) /\ posts < MaxPosts /\ Begin(h, "post", p, 0, "post")

Delete(h, u) ==
    /\ life = "open"
    /\ u \in Admins \cup {Owner}
    /\ Begin(h, "delete", u, 0, "audience")

Request(h) ==
    /\ pc[h] = "idle"
    /\ requests < MaxRequests
    /\ requests' = requests + 1
    /\ \/ CreateChannel(h)
       \/ \E u \in Users :
             \/ Invite(h, u)
             \/ Kick(h, u)
             \/ Leave(h, u)
             \/ Delete(h, u)
             \/ \E seq \in 0..MaxPosts : MarkRead(h, u, seq)
       \/ \E b \in Bots : AddBot(h, b) \/ RemoveBot(h, b)
       \/ \E p \in People : Post(h, p)
    /\ UNCHANGED <<dbVars, online, fanVars>>

-----------------------------------------------------------------------------
(* The writes.  A row needs its channel: the foreign key of                *)
(* channel_members and messages makes an INSERT fail once it is gone.      *)

Create(h) ==
    /\ pc[h] = "create"
    /\ IF life = "none"
       THEN /\ life' = "open"
            /\ members' = IF private THEN {Owner} ELSE {}
            /\ Continue(h, "publish")
       ELSE Finish(h) /\ UNCHANGED <<life, members>>
    /\ UNCHANGED <<private, read, posts>>

InsertMember_NoForeignKey(h) ==
    /\ pc[h] = "insert"
    /\ IF job[h].who \notin members
       THEN members' = members \cup {job[h].who} /\ Continue(h, "publish")
       ELSE Finish(h) /\ UNCHANGED members
    /\ UNCHANGED <<life, private, read, posts>>

InsertMember(h) ==
    /\ pc[h] = "insert"
    /\ IF life = "open" /\ job[h].who \notin members
       THEN members' = members \cup {job[h].who} /\ Continue(h, "publish")
       ELSE Finish(h) /\ UNCHANGED members
    /\ UNCHANGED <<life, private, read, posts>>

(* The row takes last_read_seq with it.                                    *)
RemoveMember(h) ==
    /\ pc[h] = "remove"
    /\ IF job[h].who \in members
       THEN /\ members' = members \ {job[h].who}
            /\ read' = [read EXCEPT ![job[h].who] = 0]
            /\ Continue(h, "publish")
       ELSE Finish(h) /\ UNCHANGED <<members, read>>
    /\ UNCHANGED <<life, private, posts>>

(* The upsert does not look at the membership mark_read has checked.       *)
Upsert(h) ==
    /\ pc[h] = "upsert"
    /\ IF life = "open"
       THEN /\ members' = members \cup {job[h].who}
            /\ read' = [read EXCEPT ![job[h].who] = IF @ >= job[h].seq THEN @
                                                    ELSE job[h].seq]
       ELSE UNCHANGED <<members, read>>
    /\ Finish(h)
    /\ UNCHANGED <<life, private, posts>>

InsertPost(h) ==
    /\ pc[h] = "post"
    /\ IF life = "open" /\ posts < MaxPosts
       THEN posts' = posts + 1 /\ Continue(h, "publish")
       ELSE Finish(h) /\ UNCHANGED posts
    /\ UNCHANGED <<life, private, members, read>>

Write(h) ==
    /\ \/ Create(h)
       \/ InsertMember(h)
       \/ RemoveMember(h)
       \/ Upsert(h)
       \/ InsertPost(h)
    /\ UNCHANGED <<online, fanVars, requests>>

(* _destroy_channel works its audience out before the row goes.            *)
ComputeAudience(h) ==
    /\ pc[h] = "audience"
    /\ job' = [job EXCEPT ![h].recipients =
                  IF private THEN members \cup {job[h].who} \cup Admins ELSE People]
    /\ Goto(h, "destroy")
    /\ UNCHANGED <<dbVars, online, fanVars, requests>>

(* One transaction: the record, and the row with all that refers to it.    *)
Destroy(h) ==
    /\ pc[h] = "destroy"
    /\ life' = "gone"
    /\ members' = {}
    /\ read' = [p \in People |-> 0]
    /\ posts' = 0
    /\ Continue(h, "publish")
    /\ UNCHANGED <<private, online, fanVars, requests>>

-----------------------------------------------------------------------------
(* publish() and handle_bus_event.                                         *)

ToAll(h) == job[h].verb = "create" /\ ~private
Subject(h) == IF job[h].verb \in Adding \cup Removing THEN job[h].who ELSE Nobody

(* Who should hear of the event of h, by the state of the moment.          *)
MayHear(h, p) ==
    IF job[h].verb = "delete" THEN p \in job[h].recipients
    ELSE ToAll(h) \/ p = Subject(h) \/ IsMember(p)

(* The channel of a message or of a creation is looked up first; a         *)
(* channel_delete comes with its recipients; a broadcast lists every       *)
(* socket, everything else the users' first.                               *)
Publish(h) ==
    /\ pc[h] = "publish"
    /\ IF job[h].verb \in {"create", "post"} /\ life # "open"
       THEN Finish(h) /\ UNCHANGED todo
       ELSE /\ todo' = [todo EXCEPT ![h] =
                  IF job[h].verb = "delete"
                  THEN IF private THEN job[h].recipients ELSE online
                  ELSE IF ToAll(h) THEN online ELSE online \cap Users]
            /\ Continue(h, IF job[h].verb = "delete" \/ ToAll(h) THEN "all" ELSE "users")
    /\ UNCHANGED <<dbVars, online, to, sent, requests>>

Ask_ForgetsSubject(h, p) ==
    /\ pc[h] \in {"users", "bots"}
    /\ to[h] = Nobody
    /\ p \in todo[h]
    /\ todo' = [todo EXCEPT ![h] = @ \ {p}]
    /\ to' = [to EXCEPT ![h] = IF IsMember(p) THEN p ELSE Nobody]
    /\ UNCHANGED <<dbVars, online, pc, job, sent, requests>>

Ask_TrustsTheList(h, p) ==
    /\ pc[h] \in {"users", "bots"}
    /\ to[h] = Nobody
    /\ p \in todo[h]
    /\ todo' = [todo EXCEPT ![h] = @ \ {p}]
    /\ to' = [to EXCEPT ![h] = p]
    /\ UNCHANGED <<dbVars, online, pc, job, sent, requests>>

(* is_member, except for the subject of a membership event (also).         *)
Ask(h, p) ==
    /\ pc[h] \in {"users", "bots"}
    /\ to[h] = Nobody
    /\ p \in todo[h]
    /\ todo' = [todo EXCEPT ![h] = @ \ {p}]
    /\ to' = [to EXCEPT ![h] = IF p = Subject(h) \/ IsMember(p) THEN p ELSE Nobody]
    /\ UNCHANGED <<dbVars, online, pc, job, sent, requests>>

Send(h) ==
    /\ to[h] # Nobody
    /\ sent' = [sent EXCEPT ![h] = IF to[h] \in online THEN @ \cup {to[h]} ELSE @]
    /\ to' = [to EXCEPT ![h] = Nobody]
    /\ UNCHANGED <<dbVars, online, pc, job, todo, requests>>

SendUnasked(h, p) ==
    /\ pc[h] = "all"
    /\ p \in todo[h]
    /\ todo' = [todo EXCEPT ![h] = @ \ {p}]
    /\ sent' = [sent EXCEPT ![h] = IF p \in online THEN @ \cup {p} ELSE @]
    /\ UNCHANGED <<dbVars, online, pc, job, to, requests>>

(* After the users the bots are listed; after the bots the event is done.  *)
NextRound(h) ==
    /\ pc[h] \in {"all", "users", "bots"}
    /\ todo[h] = {}
    /\ to[h] = Nobody
    /\ IF pc[h] = "users"
       THEN /\ Continue(h, "bots")
            /\ todo' = [todo EXCEPT ![h] = online \cap Bots]
            /\ UNCHANGED sent
       ELSE /\ Finish(h)
            /\ sent' = [sent EXCEPT ![h] = {}]
            /\ UNCHANGED todo
    /\ UNCHANGED <<dbVars, online, to, requests>>

FanOut(h) ==
    \/ Publish(h)
    \/ \E p \in People : Ask(h, p) \/ SendUnasked(h, p)
    \/ Send(h)
    \/ NextRound(h)

(* connect_user, connect_bot and the disconnects; one socket a person.     *)
Connect(p) ==
    /\ p \notin online
    /\ online' = online \cup {p}
    /\ UNCHANGED <<dbVars, pc, job, fanVars, requests>>

Disconnect(p) ==
    /\ p \in online
    /\ online' = online \ {p}
    /\ UNCHANGED <<dbVars, pc, job, fanVars, requests>>

(* History: from the commit of a change (its handler comes to publish)     *)
(* until its event is done.                                                *)
Spreading == {"publish", "all", "users", "bots"}

Witness ==
    LET may(h) == {p \in People : MayHear(h, p)'}
    IN /\ owed' = [h \in Handlers |->
             IF pc'[h] \notin Spreading THEN {}
             ELSE IF pc[h] \notin Spreading THEN may(h) \cap online'
             ELSE owed[h] \cap may(h) \cap online']
       /\ entitled' = [h \in Handlers |->
             IF pc'[h] \notin Spreading THEN {}
             ELSE IF pc[h] \notin Spreading THEN may(h)
             ELSE entitled[h] \cup may(h)]

Step ==
    \/ \E h \in Handlers :
          Request(h) \/ Write(h) \/ ComputeAudience(h) \/ Destroy(h) \/ FanOut(h)
    \/ \E p \in People : Connect(p) \/ Disconnect(p)

Next == Step /\ Witness

Spec == Init /\ [][Next]_vars

-----------------------------------------------------------------------------
(* Properties *)

(* Every variable has its type: the fan-outs deal in people of the house.   *)
TypeOK ==
    /\ life \in {"none", "open", "gone"}
    /\ private \in BOOLEAN
    /\ members \subseteq People
    /\ read \in [People -> 0..MaxPosts]
    /\ posts \in 0..MaxPosts
    /\ online \subseteq People
    /\ pc \in [Handlers -> {"idle", "create", "insert", "remove", "upsert", "post",
                            "audience", "destroy", "publish", "all", "users", "bots"}]
    /\ job \in [Handlers -> Job]
    /\ todo \in [Handlers -> SUBSET People]
    /\ to \in [Handlers -> People \cup {Nobody}]
    /\ sent \in [Handlers -> SUBSET People]
    /\ requests \in 0..MaxRequests

(* The wall of a channel: what happens in it is sent to nobody who was not *)
(* a member (or the subject, or a recipient of its deletion) at some time  *)
(* since it happened, however membership changes during the fan-out.       *)
OutsidersHearNothing ==
    \A h \in Handlers : sent[h] \subseteq entitled[h]

(* Nobody is forgotten: who is connected and a member from the commit of a *)
(* change until its fan-out is over has been sent it, and so has the one   *)
(* who was added or removed.                                               *)
MembersHear ==
    [][\A h \in Handlers :
          pc[h] \in {"all", "bots"} /\ pc'[h] = "idle" => owed[h] \subseteq sent[h]]_vars

(* A deleted channel leaves no membership behind, whatever request had     *)
(* found it open.                                                          *)
NoOrphanRows == life # "open" => members = {}

(* "Monotonic: never lowered" while the row lasts.                         *)
ReadNeverGoesBack ==
    [][\A p \in members \cap members' : read[p] <= read'[p]]_vars

(* The upsert of mark_read "must never manufacture membership of a DM or a *)
(* private channel": rows of a private channel come from its creation, an  *)
(* invitation or an added bot.                                             *)
PrivateRowsAreGiven ==
    [][private =>
          \A p \in members' \ members :
              \E h \in Handlers : pc[h] \in {"create", "insert"} /\ job[h].who = p]_vars

=============================================================================
