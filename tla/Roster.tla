------------------------------- MODULE Roster -------------------------------
(***************************************************************************)
(* What a group promises its members - without member rows, requests and   *)
(* checks.  A group has a set of members, with its owner in it for good.   *)
(* A message is addressed to those who are members at one moment, but its  *)
(* sender, and shown to no one else; before the broadcast is done each of  *)
(* them is shown it, or is found without a connection, or with connections *)
(* that have no room for it.  And a private conversation comes to be once. *)
(***************************************************************************)
EXTENDS Naturals

CONSTANTS Users, Owner, Msgs

VARIABLES
    founded,    \* whether there is a group
    members,    \* users in it
    connected,  \* users with a connection
    phase,      \* of a message's broadcast
    author,     \* sender of a message
    audience,   \* users it is still to be shown to
    shown,      \* users it was shown to
    full,       \* users found connected without room for it
    pair        \* how often the private conversation was made

groupVars == <<founded, members>>
castVars  == <<phase, author, audience, shown, full>>
vars == <<groupVars, connected, castVars, pair>>

Init ==
    /\ founded = FALSE /\ members = {} /\ connected \in SUBSET Users
    /\ phase = [m \in Msgs |-> "none"] /\ author = [m \in Msgs |-> Owner]
    /\ audience = [m \in Msgs |-> {}] /\ shown = [m \in Msgs |-> {}]
    /\ full = [m \in Msgs |-> {}] /\ pair = 0

Found(M) ==
    /\ ~founded
    /\ founded' = TRUE /\ members' = M \cup {Owner}
    /\ UNCHANGED <<connected, castVars, pair>>

Join(u) ==
    /\ founded
    /\ members' = members \cup {u}
    /\ UNCHANGED <<founded, connected, castVars, pair>>

Leave(u) ==
    /\ u # Owner
    /\ members' = members \ {u}
    /\ UNCHANGED <<founded, connected, castVars, pair>>

Connect(u) ==
    /\ connected' = connected \cup {u}
    /\ UNCHANGED <<groupVars, castVars, pair>>

Disconnect(u) ==
    /\ connected' = connected \ {u}
    /\ UNCHANGED <<groupVars, castVars, pair>>

Goto(m, here, there) == phase[m] = here /\ phase' = [phase EXCEPT ![m] = there]

Send(m, u) ==
    /\ founded /\ Goto(m, "none", "sent")
    /\ author' = [author EXCEPT ![m] = u]
    /\ UNCHANGED <<groupVars, connected, audience, shown, full, pair>>

Address(m) ==
    /\ Goto(m, "sent", "open")
    /\ audience' = [audience EXCEPT ![m] = members \ {author[m]}]
    /\ UNCHANGED <<groupVars, connected, author, shown, full, pair>>

(* The audience has been dealt with as far as u goes, or looks at u again. *)
Serve(m, u) ==
    /\ u \in audience[m] \cap connected
    /\ audience' \in {audience, [audience EXCEPT ![m] = @ \ {u}]}

Show(m, u) ==
    /\ Serve(m, u)
    /\ shown' = [shown EXCEPT ![m] = @ \cup {u}]
    /\ UNCHANGED <<groupVars, connected, phase, author, full, pair>>

Overflow(m, u) ==
    /\ Serve(m, u)
    /\ full' = [full EXCEPT ![m] = @ \cup {u}]
    /\ UNCHANGED <<groupVars, connected, phase, author, shown, pair>>

Miss(m, u) ==
    /\ u \in audience[m] \ connected
    /\ audience' = [audience EXCEPT ![m] = @ \ {u}]
    /\ UNCHANGED <<groupVars, connected, phase, author, shown, full, pair>>

End(m) ==
    /\ audience[m] = {} /\ Goto(m, "open", "done")
    /\ UNCHANGED <<groupVars, connected, author, audience, shown, full, pair>>

Fail(m) ==
    /\ Goto(m, "sent", "failed") \/ Goto(m, "open", "failed")
    /\ audience' = [audience EXCEPT ![m] = {}]
    /\ UNCHANGED <<groupVars, connected, author, shown, full, pair>>

Pair ==
    /\ pair = 0 /\ pair' = 1
    /\ UNCHANGED <<groupVars, connected, castVars>>

Next ==
    \/ \E M \in SUBSET Users : Found(M)
    \/ \E u \in Users :
          \/ Join(u) \/ Leave(u) \/ Connect(u) \/ Disconnect(u)
          \/ \E m \in Msgs : Send(m, u) \/ Show(m, u) \/ Overflow(m, u)
                              \/ Miss(m, u)
    \/ \E m \in Msgs : Address(m) \/ End(m) \/ Fail(m)
    \/ Pair

Spec == Init /\ [][Next]_vars

=============================================================================
