----------------------------- MODULE MCScheduler -----------------------------
(* Small instance of Scheduler: two workers on two parking lots and a client.  *)
EXTENDS Scheduler, TLC

CONSTANTS w1, w2, c1

Both == {w1, w2}
Apart == w1 :> 0 @@ w2 :> 1 @@ c1 :> 1
Same == w1 :> 0 @@ w2 :> 0 @@ c1 :> 0
Together == w1 :> 1 @@ w2 :> 1 @@ c1 :> 0

Remote(n) == <<"remote", "signal">> :> n
Background(how) == <<"background", how>> :> 1
Urgent(how) == <<"urgent", how>> :> 1

Plan(noSignal, home, initial, stop, calls) ==
  [noSignal |-> noSignal, home |-> home, initial |-> initial, stop |-> stop, calls |-> calls]

CheckedPlans ==
  {Plan(TRUE, Apart, Both, FALSE, Remote(2)),
   Plan(FALSE, Same, {w1}, FALSE, Remote(2)),
   Plan(FALSE, Apart, Both, FALSE, <<"remote", "nosignal">> :> 2),
   Plan(FALSE, Apart, {w1}, FALSE, Remote(1) @@ Background("nosignal") @@ Urgent("nosignal")),
   Plan(TRUE, Apart, {w1}, FALSE, Remote(1) @@ Background("signal") @@ Urgent("signal")),
   Plan(FALSE, Apart, {w1}, FALSE, Remote(1) @@ Urgent("ignore")),
   Plan(TRUE, Apart, {w1}, FALSE, Remote(1) @@ <<"yield", "signal">> :> 1),
   Plan(FALSE, Together, Both, TRUE, Remote(1)),
   Plan(TRUE, Together, {w1}, TRUE, Remote(1))}
=============================================================================
