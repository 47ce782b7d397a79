---------------------------- MODULE SnapshotFeed ----------------------------
(***************************************************************************)
(* What the server promises to the clients of its snapshot stream: a       *)
(* subscriber sees snapshots only while it is subscribed, never an older   *)
(* one after a newer one, never one that was not published, and it does    *)
(* not stay behind the newest one for ever, unless that one is too large   *)
(* to be sent.  It may miss intermediate snapshots: the stream is a        *)
(* register, not a queue.                                                  *)
(***************************************************************************)
EXTENDS Naturals

CONSTANTS Conn,      \* the connections
          Oversized, \* snapshots that cannot be delivered
          MaxSeq     \* bound of the sequence numbers

VARIABLES published,   \* sequence number of the newest snapshot, 0: none yet
          subscribers, \* connections that completed the handshake and are open
          seen         \* newest snapshot each connection received, 0: none

feedVars == <<published, subscribers, seen>>

FeedInit == /\ published = 0
            /\ subscribers = {}
            /\ seen = [c \in Conn |-> 0]

FeedPublish == /\ \E s \in published + 1 .. MaxSeq : published' = s
               /\ UNCHANGED <<subscribers, seen>>

\* Connections come and go, several at once.
FeedMembership == /\ subscribers' \in SUBSET Conn
                  /\ UNCHANGED <<published, seen>>

\* A subscriber receives a snapshot; the connection may end with it.
FeedDeliver(c) ==
  /\ c \in subscribers
  /\ \E s \in 1 .. published :
       /\ s >= seen[c] /\ s \notin Oversized
       /\ seen' = [seen EXCEPT ![c] = s]
  /\ subscribers' \in {subscribers, subscribers \ {c}}
  /\ UNCHANGED published

FeedNext == FeedPublish \/ FeedMembership \/ \E c \in Conn : FeedDeliver(c)

FeedSafety == FeedInit /\ [][FeedNext]_feedVars

\* A subscriber that stays receives the newest snapshot or a newer one, unless
\* it is one that cannot be delivered.
FeedProgress ==
  \A c \in Conn : \A s \in (1 .. MaxSeq) \ Oversized :
    (c \in subscribers /\ published = s) ~> (seen[c] >= s \/ c \notin subscribers)
=============================================================================
