--------------------------- MODULE SharedSession ---------------------------
(***************************************************************************)
(* What _SharedStream and the _shared_streams registry promise, per client *)
(* (custom_components/ezviz_stream/ezviz_client.py:291-301): however many  *)
(* viewers come and go, they share one upstream session, opened once for   *)
(* the group and given up when its last viewer has left.                   *)
(***************************************************************************)
CONSTANTS Viewers, Slots

VARIABLES
    viewers,    \* slot -> the viewers attached to it
    session     \* slot -> its session: "idle", "open", or "ended" upstream

Init ==
    /\ viewers = [c \in Slots |-> {}]
    /\ session = [c \in Slots |-> "idle"]

\* A viewer joins, whatever became of the session.
Join(c, v) ==
    /\ \A d \in Slots : v \notin viewers[d]
    /\ viewers' = [viewers EXCEPT ![c] = @ \cup {v}]
    /\ UNCHANGED session

\* Opened for a group that has none, and once only: an ended session is not
\* opened again while the same group is there.
Open(c) ==
    /\ viewers[c] # {}
    /\ session[c] = "idle"
    /\ session' = [session EXCEPT ![c] = "open"]
    /\ UNCHANGED viewers

UpstreamEnds(c) ==
    /\ session[c] = "open"
    /\ session' = [session EXCEPT ![c] = "ended"]
    /\ UNCHANGED viewers

\* The last viewer to leave gives the session up, and only the last.
Leave(c, v) ==
    /\ v \in viewers[c]
    /\ viewers' = [viewers EXCEPT ![c] = @ \ {v}]
    /\ session' = [session EXCEPT ![c] = IF viewers[c] = {v} THEN "idle" ELSE @]

Next ==
    \E c \in Slots :
        \/ Open(c) \/ UpstreamEnds(c)
        \/ \E v \in Viewers : Join(c, v) \/ Leave(c, v)

Spec == Init /\ [][Next]_<<viewers, session>>
=============================================================================
