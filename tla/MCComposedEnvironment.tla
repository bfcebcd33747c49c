----------------------- MODULE MCComposedEnvironment -----------------------
EXTENDS ComposedEnvironment, TLC

Make(turns, setup, invoker, stateAdapter, observer, flusher) ==
    [turns |-> turns, setup |-> setup, invoker |-> invoker, state |-> stateAdapter,
     observer |-> observer, flusher |-> flusher]

(* Synchronous, callback and remote state environments, with what lasts    *)
(* longest around them, and response-only environments without any.        *)
Considered ==
    { Make(1, TRUE,  "sync",  "sync",     "async", "none"),
      Make(1, TRUE,  "async", "callback", "sync",  "none"),
      Make(2, FALSE, "async", "async",    "none",  "async"),
      Make(1, FALSE, "sync",  "async",    "sync",  "sync"),
      Make(2, FALSE, "sync",  "none",     "sync",  "sync"),
      Make(2, FALSE, "async", "none",     "async", "none") }
=============================================================================
