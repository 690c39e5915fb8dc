--------------------------- MODULE MCHttpHandler ---------------------------
(* Small instances of HttpHandler and the servlets they run. *)
EXTENDS HttpHandler, TLC

Call(out, mode, async, status, idleOff) ==
  [out |-> out, mode |-> mode, async |-> async, status |-> status,
   idleOff |-> idleOff]

\* Servlets that answer at once, asynchronously, or with a status.
PlainServlets ==
  {Call("buffer", "length", FALSE, FALSE, FALSE),
   Call("none", "length", FALSE, TRUE, FALSE),
   Call("spill", "chunked", FALSE, FALSE, FALSE),
   Call("flush", "chunked", TRUE, FALSE, FALSE),
   Call("flush", "length", TRUE, FALSE, TRUE),
   Call("none", "length", TRUE, TRUE, FALSE)}

\* Servlets that send files, at once or asynchronously.
FileServlets ==
  {Call("sendfile", "length", FALSE, FALSE, FALSE),
   Call("sendfile", "chunked", TRUE, FALSE, TRUE),
   Call("buffer", "length", FALSE, FALSE, FALSE)}

AllServlets == PlainServlets \cup FileServlets

\* One of each kind, for instances with several handlers.
PoolServlets ==
  {Call("buffer", "length", FALSE, FALSE, FALSE),
   Call("flush", "length", TRUE, FALSE, TRUE)}

LiveServlets ==
  {Call("sendfile", "length", FALSE, FALSE, FALSE),
   Call("spill", "length", TRUE, FALSE, FALSE)}

Symmetry == Permutations(Handlers) \cup Permutations(Fds) \cup Permutations(Files)
=============================================================================
