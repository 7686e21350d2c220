---------------------------- MODULE Credentials ----------------------------
(***************************************************************************)
(* What authentication promises of sessions and access tokens, however     *)
(* requests interleave: a credential that was revoked or has expired never *)
(* opens anything again, one whose owner is deactivated opens nothing      *)
(* until the owner is back, and a request is admitted by one indivisible   *)
(* look at a live credential, taken after the request has arrived.         *)
(***************************************************************************)
CONSTANTS Creds, Requesters, None

VARIABLES life,   \* of each credential: "none", "live", "suspended", "ended"
          visit   \* of each requester: what it presented, and the verdict

Away == [cred |-> None, verdict |-> "away"]

Init == /\ life = [c \in Creds |-> "none"]
        /\ visit = [r \in Requesters |-> Away]

\* A credential lives once; it may be issued to an owner just deactivated.
LifeStep(c) ==
  \/ life[c] = "none" /\ life'[c] \in {"live", "suspended"}
  \/ life[c] = "live" /\ life'[c] \in {"suspended", "ended"}
  \/ life[c] = "suspended" /\ life'[c] \in {"live", "ended"}

Ask(r) == \E c \in Creds :
  /\ visit[r] = Away
  /\ life[c] # "none"
  /\ visit'[r] = [cred |-> c, verdict |-> "asked"]

Admit(r) ==
  /\ visit[r].verdict = "asked"
  /\ life[visit[r].cred] = "live"
  /\ visit'[r] = [visit[r] EXCEPT !.verdict = "admitted"]

Leave(r) == visit'[r] = Away

\* A deactivation suspends every credential of a user at once, and a request
\* may issue or end a credential as it leaves.
Next ==
  /\ \A c \in Creds : life'[c] = life[c] \/ LifeStep(c)
  /\ \A r \in Requesters :
       visit'[r] = visit[r] \/ Ask(r) \/ Admit(r) \/ Leave(r)

Spec == Init /\ [][Next]_<<life, visit>>
=============================================================================
