----------------------------- MODULE MCDispatch -----------------------------
(* Model checking of Dispatch: the skip requests users may send.            *)
EXTENDS Dispatch

\* No step, one step, both steps, a step twice, and numbers out of range.
MCSkipRequest == {<<>>, <<1>>, <<2>>, <<2, 1>>, <<2, 2>>, <<0>>, <<N + 1>>}

=============================================================================
