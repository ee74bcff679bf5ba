------------------------------- MODULE ChainRun -------------------------------
(***************************************************************************)
(* A chain of middlewares and its handler run by itself, in one step: the  *)
(* results it can come to.  A Timeout in the chain stands for two: what    *)
(* the elements below it make of a copy of the context, and its own error. *)
(* This is what Dispatch, where goroutines run elements one step at a time,*)
(* is measured by.                                                         *)
(***************************************************************************)
EXTENDS Middleware

\* A finished run: the context it leaves and its error, or a panic.
Result(s, err) == [s |-> s, err |-> err, panic |-> FALSE]
Panics(s)      == [s |-> s, err |-> 500, panic |-> TRUE]

\* The results of a handler; none if it never returns.  A streaming one returns
\* the error of its writer function, or nil after all its flushes.
RunHandler(k, s) ==
  CASE k \in Panicking -> {Panics(s)}
    [] k = "hang"   -> {}
    [] k = "stream" -> {Result(Streamed(s), err) : err \in {e \in {0, 500} : e = 0 => Flushes <= PipeCap}}
    [] OTHER        -> {Result(Returns(k, s).s, Returns(k, s).err)}

\* What element k makes of a result of the elements below it.
Around(k, q, r) ==
  CASE r.panic /\ k # "recover" -> r
    [] r.panic /\ k = "recover" -> Result(r.s, 500)
    [] OTHER -> Result(Up(k, q, r.s, r.err).s, Up(k, q, r.s, r.err).err)

\* The results of element k, where below has those of the elements below it for
\* each context they may start in.
RunElement(k, q, s, below) ==
  CASE k \in Terminal -> RunHandler(k, s)
    [] k = "timeout" ->
         {Result(s, 408)} \cup {Result(CopyBack(s, r.s), r.err) : r \in below[Copied(s)]}
    [] OTHER ->
         UNION {IF o.go THEN {Around(k, q, r) : r \in below[o.s]} ELSE {Result(o.s, o.err)} :
                  o \in Down(k, q, s)}

\* The results of the last n elements.
Run(elements, q) ==
  LET run[n \in Nat] ==
        [s \in Context |->
           IF n = 0 THEN {}
                    ELSE RunElement(elements[Len(elements) + 1 - n], q, s, run[n - 1])]
  IN  run

\* The error handler and the final copy of the writer's headers.
Respond(r) ==
  Answer(SyncHeaders(IF r.err = 0 THEN r.s ELSE ErrorResponse(r.s, r.err)))
=============================================================================
