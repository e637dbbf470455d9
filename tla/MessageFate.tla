----------------------------- MODULE MessageFate -----------------------------
(***************************************************************************)
(* What the mind promises about every message it is told: it waits, is     *)
(* summarised once, together with messages of its own scope only, and then *)
(* becomes a memory or is dismissed.  Nothing goes back.  What is settled  *)
(* stays settled until the person, or everything, is erased on request.    *)
(* SharedMind implements it.                                               *)
(***************************************************************************)
EXTENDS Sequences

CONSTANTS Person, Scope

VARIABLES said,   \* said[m] is the scope in which message m was said
          fate    \* where message m has got to

fates == <<said, fate>>

Init ==
    /\ said = <<>>
    /\ fate = [m \in DOMAIN said |-> "waiting"]

Having(stations) == {m \in DOMAIN said : fate[m] \in stations}

Meet(ms, station) ==
    /\ fate' = [m \in DOMAIN said |-> IF m \in ms THEN station ELSE fate[m]]
    /\ UNCHANGED said

Hear(scope) ==
    /\ said' = Append(said, scope)
    /\ fate' = [m \in DOMAIN said' |-> IF m \in DOMAIN said THEN fate[m] ELSE "waiting"]

Summarise(ms) == ms \subseteq Having({"waiting"}) /\ Meet(ms, "summarised")

\* Messages of one scope are settled together, and in one way.
Settle(scope, ms, end) ==
    /\ ms \subseteq {m \in Having({"summarised"}) : said[m] = scope}
    /\ Meet(ms, end)

Erase(p) == Meet({m \in DOMAIN said : said[m].owner = p}, "erased")

Wipe(ms) == ms \subseteq Having({"remembered"}) /\ Meet(ms, "erased")

Lose(ms) == ms \subseteq Having({"waiting", "summarised", "remembered"}) /\ Meet(ms, "lost")

\* As long as nothing goes wrong, nothing is lost.
Calm ==
    \/ \E scope \in Scope : Hear(scope)
    \/ \E ms \in SUBSET DOMAIN said :
           \/ Summarise(ms)
           \/ \E scope \in Scope, end \in {"remembered", "dismissed"} : Settle(scope, ms, end)
           \/ Wipe(ms)
    \/ \E p \in Person : Erase(p)

Next == Calm \/ \E ms \in SUBSET DOMAIN said : Lose(ms)

Spec == Init /\ [][Next]_fates
CalmSpec == Init /\ [][Calm]_fates

=============================================================================
