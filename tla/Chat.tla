-------------------------------- MODULE Chat --------------------------------
(***************************************************************************)
(* A trip's group chat with its poll, a direct conversation, moderation    *)
(* and the live events (services/chat.py, services/chat_moderation.py,     *)
(* websockets/socketio_server.py).                                         *)
(*                                                                         *)
(* A send inserts its row, counts, emits, and commits; a vote rewrites the *)
(* poll's whole JSON.  Two overlapping requests see each other's rows once *)
(* they are committed.                                                     *)
(***************************************************************************)
EXTENDS Integers, FiniteSets

CONSTANTS Users,       \* who chats: travellers of one trip, and its agency's owner
          Owner,       \* the agency's owner
          Options,     \* the poll's options
          Calls,     \* the requests that overlap
          Threshold,   \* FLAGGED_MESSAGE_NOTIFICATION_THRESHOLD
          MaxCalls  \* bound: requests

ASSUME ChatAssumption ==
  /\ Owner \in Users /\ "none" \notin Options
  /\ Threshold \in Nat \ {0} /\ MaxCalls \in Nat

VARIABLES member,   \* travellers APPROVED or COMMITTED in the trip's group
          trip,     \* "open", or "agreed": CONFIRMING or later with this agency's offer
          open,     \* the direct conversation's row is there
          lastRead, \* last_read_at of its participants
          stored,   \* messages committed
          votes,    \* the poll: who voted for each option
          alerts,   \* compliance reminders per user
          job,      \* the requests in flight
          client,   \* one screen: the room joined, the messages on it
          now,      \* when the last request began; bounds them too
          ballots,  \* history: what each user last voted for
          slipped,  \* history: messages emitted and not yet committed when the screen joined
          raced,    \* history: users whose flagged sends overlapped
          unsure    \* history: users whose last vote another's commit may have undone

chatVars == <<member, trip, open, lastRead, stored, votes, alerts, job, client,
              now, ballots, slipped, raced, unsure>>

NoJob == [at |-> "none"]
Rooms == {"group", "direct"}

\* created_at is when the transaction began, and names the message.
Message == [room : Rooms, sender : Users, flagged : BOOLEAN, created : 1..MaxCalls]

ChatTypeOK ==
  /\ member \subseteq Users \ {Owner} /\ trip \in {"open", "agreed"} /\ open \in BOOLEAN
  /\ stored \subseteq Message /\ client.seen \subseteq Message
  /\ votes \in [Options -> SUBSET Users] /\ ballots \in [Users -> Options \cup {"none"}]
  /\ alerts \in [Users -> Nat] /\ lastRead \in [Users -> 0..MaxCalls]

Begin(w, j) ==
  /\ job[w] = NoJob /\ now < MaxCalls
  /\ now' = now + 1 /\ job' = [job EXCEPT ![w] = j]
End(w) == job' = [job EXCEPT ![w] = NoJob]

room == <<open, lastRead, stored>>
history == <<ballots, slipped, raced, unsure>>

(***************************************************************************)
(* Access.                                                                 *)
(***************************************************************************)
\* Other services' writes.
GroupChanges ==
  /\ now < MaxCalls /\ now' = now + 1
  /\ \/ \E u \in Users \ {Owner} :
          member' = (IF u \in member THEN member \ {u} ELSE member \cup {u}) /\ UNCHANGED trip
     \/ trip' = (IF trip = "open" THEN "agreed" ELSE "open") /\ UNCHANGED member
  /\ UNCHANGED <<room, votes, alerts, job, client, history>>

AssertGroupChatAccess(u) == u \in member \/ (u = Owner /\ trip = "agreed")

\* A traveller needs a trip, an agency a deal or a package's member, and two
\* travellers a trip that both are on.
AssertDirectUserEligibility(u) == u = Owner \/ u \in member
AssertDirectConversationEligibility(u, v) ==
  /\ AssertDirectUserEligibility(u) /\ AssertDirectUserEligibility(v)
  /\ IF Owner \in {u, v} THEN trip = "agreed" ELSE {u, v} \subseteq member

(***************************************************************************)
(* Messages.                                                               *)
(***************************************************************************)
Send(w, u, where, flagged) ==
  /\ Begin(w, [at |-> "send", message |-> [room |-> where, sender |-> u,
                                           flagged |-> flagged, created |-> now + 1]])
  /\ UNCHANGED <<member, trip, room, votes, alerts, client, history>>

SendGroupMessage(w, u, flagged) == AssertGroupChatAccess(u) /\ Send(w, u, "group", flagged)

\* A participant stays one, whatever became of the trip.
SendDirectMessage(w, u, flagged) == open /\ Send(w, u, "direct", flagged)

Flushed(w) == job[w].at \in {"counted", "emitted"}
FlaggedOf(u) == {m \in stored : m.sender = u /\ m.flagged}

\* Mutant: the message at hand is not counted.
FlushUncounted(w) ==
  LET m == job[w].message
      due == m.flagged /\ Cardinality(FlaggedOf(m.sender)) = Threshold
  IN /\ job[w].at = "send"
     /\ m.room = "direct" => \A v \in Calls : ~(Flushed(v) /\ job[v].message.room = "direct")
     /\ job' = [job EXCEPT ![w] = [at |-> "counted", message |-> m, alert |-> due]]
     /\ raced' = IF \E v \in Calls : Flushed(v) /\ job[v].message.sender = m.sender
                                       /\ job[v].message.flagged /\ m.flagged
                 THEN raced \cup {m.sender} ELSE raced
     /\ UNCHANGED <<member, trip, room, votes, alerts, client, now, ballots, slipped, unsure>>

\* The insert; a direct message also writes the conversation, whose row is
\* locked to the end.  A flagged send then counts the sender's flagged rows:
\* the committed ones and its own.
FlushMessage(w) ==
  LET m == job[w].message
      due == m.flagged /\ Cardinality(FlaggedOf(m.sender)) + 1 = Threshold
  IN /\ job[w].at = "send"
     /\ m.room = "direct" => \A v \in Calls : ~(Flushed(v) /\ job[v].message.room = "direct")
     /\ job' = [job EXCEPT ![w] = [at |-> "counted", message |-> m, alert |-> due]]
     /\ raced' = IF \E v \in Calls : Flushed(v) /\ job[v].message.sender = m.sender
                                       /\ job[v].message.flagged /\ m.flagged
                 THEN raced \cup {m.sender} ELSE raced
     /\ UNCHANGED <<member, trip, room, votes, alerts, client, now, ballots, slipped, unsure>>

\* To whoever joined the room; the commit comes after.
Emit(w) ==
  LET m == job[w].message IN
  /\ job[w].at = "counted" /\ job' = [job EXCEPT ![w].at = "emitted"]
  /\ client' = IF m.room = client.room THEN [client EXCEPT !.seen = @ \cup {m}] ELSE client
  /\ UNCHANGED <<member, trip, room, votes, alerts, now, history>>

CommitMessage(w) ==
  LET m == job[w].message IN
  /\ job[w].at = "emitted" /\ End(w)
  /\ stored' = stored \cup {m}
  /\ alerts' = [alerts EXCEPT ![m.sender] = IF job[w].alert THEN @ + 1 ELSE @]
  /\ UNCHANGED <<member, trip, open, lastRead, votes, client, now, history>>

\* What was emitted, or handed to the WhatsApp task, stays out.
RollbackMessage(w) ==
  /\ Flushed(w) /\ End(w)
  /\ UNCHANGED <<member, trip, room, votes, alerts, client, now, history>>

\* The key is unique: the slower of two requests fails or finds the row.
CreateOrGetConversation(u, v) ==
  /\ u # v /\ ~open /\ now < MaxCalls
  /\ AssertDirectConversationEligibility(u, v)
  /\ open' = TRUE /\ now' = now + 1 /\ lastRead' = [x \in Users |-> now]
  /\ UNCHANGED <<member, trip, stored, votes, alerts, job, client, history>>

MarkConversationRead(u) ==
  /\ open /\ lastRead[u] < now
  /\ lastRead' = [lastRead EXCEPT ![u] = now]
  /\ UNCHANGED <<member, trip, open, stored, votes, alerts, job, client, now, history>>

(***************************************************************************)
(* What the screens read.                                                  *)
(***************************************************************************)
Direct == {m \in stored : m.room = "direct"}

\* _conversation_payload counts with the reader's own row, and
\* get_conversations joins every conversation with its reader's row.
ConversationPayload(u) ==
  [unread |-> Cardinality({m \in Direct : m.sender # u /\ m.created > lastRead[u]}),
   last |-> {m \in Direct : \A n \in Direct : n.created <= m.created}]
GetConversations(u) ==
  LET joined == {r \in Direct \X {u} : r[1].sender # r[2] /\ r[1].created > lastRead[r[2]]}
  IN [unread |-> Cardinality(joined),
      last |-> {m \in Direct : ~\E n \in Direct : n.created > m.created}]

\* The page that ends before the cursor.
GetGroupMessages(cursor, limit) ==
  LET older == {m \in stored : m.room = "group" /\ m.created < cursor}
  IN {m \in older : Cardinality({n \in older : n.created > m.created}) < limit}
GetDirectMessages(cursor, limit) ==
  LET older == {m \in Direct : m.created < cursor}
  IN {m \in older : Cardinality({n \in older : n.created > m.created}) < limit}

Subscribe(where) ==
  /\ client.room = "none"
  /\ client' = [client EXCEPT !.room = where]
  /\ slipped' = {job[w].message : w \in {v \in Calls : job[v].at = "emitted"}}
  /\ UNCHANGED <<member, trip, room, votes, alerts, job, now, ballots, raced, unsure>>

\* Mutant: the newest message is not loaded.
LoadOlder ==
  LET page == IF client.room = "group" THEN GetGroupMessages(now, MaxCalls)
              ELSE GetDirectMessages(now, MaxCalls)
  IN /\ client.room # "none" /\ ~client.loaded
     /\ client' = [client EXCEPT !.seen = @ \cup page, !.loaded = TRUE]
     /\ UNCHANGED <<member, trip, room, votes, alerts, job, now, history>>

\* The screen joins, then loads pages back to the start.
LoadHistory ==
  LET page == IF client.room = "group" THEN GetGroupMessages(now + 1, MaxCalls)
              ELSE GetDirectMessages(now + 1, MaxCalls)
  IN /\ client.room # "none" /\ ~client.loaded
     /\ client' = [client EXCEPT !.seen = @ \cup page, !.loaded = TRUE]
     /\ UNCHANGED <<member, trip, room, votes, alerts, job, now, history>>

(***************************************************************************)
(* The poll.                                                               *)
(***************************************************************************)
VoteOnPoll(w, u, o) ==
  /\ AssertGroupChatAccess(u)
  /\ Begin(w, [at |-> "vote", user |-> u, option |-> o, seen |-> votes])
  /\ UNCHANGED <<member, trip, room, votes, alerts, client, history>>

\* Mutant: the earlier vote is not taken back.
AddedVote(seen, u, o) ==
  [p \in Options |-> seen[p] \cup (IF p = o THEN {u} ELSE {})]

UpdatedOptions(seen, u, o) ==
  [p \in Options |-> (seen[p] \ {u}) \cup (IF p = o THEN {u} ELSE {})]

\* Whose vote was committed after the votes were loaded.
Overtaken(seen) == {x \in Users : \E o \in Options : (x \in votes[o]) # (x \in seen[o])}

\* The whole JSON is written, unless it is what was loaded.
CommitVote(w) ==
  LET j == job[w] IN
  /\ j.at = "vote" /\ End(w)
  /\ votes' = IF UpdatedOptions(j.seen, j.user, j.option) = j.seen THEN votes
              ELSE UpdatedOptions(j.seen, j.user, j.option)
  /\ ballots' = [ballots EXCEPT ![j.user] = j.option]
  /\ unsure' = IF votes' = votes THEN unsure \cup Overtaken(j.seen)
               ELSE (unsure \cup Overtaken(j.seen)) \ {j.user}
  /\ UNCHANGED <<member, trip, room, alerts, client, now, slipped, raced>>

ChatInit ==
  /\ member = Users \ {Owner} /\ trip = "agreed"
  /\ open = FALSE /\ lastRead = [u \in Users |-> 0] /\ stored = {}
  /\ votes = [o \in Options |-> {}] /\ alerts = [u \in Users |-> 0]
  /\ job = [w \in Calls |-> NoJob] /\ now = 0
  /\ client = [room |-> "none", loaded |-> FALSE, seen |-> {}]
  /\ ballots = [u \in Users |-> "none"] /\ slipped = {} /\ raced = {} /\ unsure = {}

ChatNext ==
  \/ GroupChanges
  \/ \E u, v \in Users : CreateOrGetConversation(u, v)
  \/ \E u \in Users : MarkConversationRead(u)
  \/ \E where \in Rooms : Subscribe(where)
  \/ LoadHistory
  \/ \E w \in Calls :
       \/ \E u \in Users, flagged \in BOOLEAN :
            SendGroupMessage(w, u, flagged) \/ SendDirectMessage(w, u, flagged)
       \/ FlushMessage(w)
       \/ Emit(w)
       \/ CommitMessage(w)
       \/ RollbackMessage(w)
       \/ \E u \in Users, o \in Options : VoteOnPoll(w, u, o)
       \/ CommitVote(w)

ChatSpec == ChatInit /\ [][ChatNext]_chatVars

-----------------------------------------------------------------------------
(***************************************************************************)
(* Properties.                                                             *)
(***************************************************************************)
\* A user stands under one option at most, however votes overlap; and under
\* the one last chosen, unless another vote that was loaded before it was
\* committed after it, until the user votes again (vote_on_poll).
PollKeepsVotes ==
  \A u \in Users :
    /\ Cardinality({o \in Options : u \in votes[o]}) <= 1
    /\ u \notin unsure => \A o \in Options : u \in votes[o] <=> ballots[u] = o

\* The reminder comes once, with the message that reaches the threshold, when
\* a sender's flagged sends do not overlap (_notify_if_repeated_leakage_attempts).
RemindedAtThreshold ==
  \A u \in Users \ raced :
    alerts[u] = IF Cardinality(FlaggedOf(u)) >= Threshold THEN 1 ELSE 0

\* A screen that joined the room, then loaded the history, has every message
\* of the room that is stored, but for those emitted before it joined and
\* committed after it loaded (emit_to_group, emit_to_conversation, get_*_messages).
ScreenComplete ==
  client.loaded => {m \in stored : m.room = client.room} \subseteq client.seen \cup slipped

\* The inbox and the open conversation report the same unread count and last
\* message (_conversation_payload, get_conversations).
InboxAgrees == \A u \in Users : GetConversations(u) = ConversationPayload(u)

\* Both: what a user sees is what is stored.
ScreensAgree == ScreenComplete /\ InboxAgrees
=============================================================================
