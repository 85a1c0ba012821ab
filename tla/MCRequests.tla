----------------------------- MODULE MCRequests -----------------------------
(* Requests for TLC: two worlds. *)
EXTENDS Requests, TLC

CONSTANTS disk, usb, m1, m2, node1, node10, home, later

Home == [gauge |-> 1, swap |-> 1,
         usage |-> (node1 :> 1 @@ node10 :> 2),
         fs    |-> (disk :> [size |-> 4, avail |-> 1] @@ usb :> None),
         stack |-> (m1 :> "running" @@ m2 :> "exited"),
         temps |-> <<40, 0, 50, 40>>,
         named |-> {1, 3},
         logs  |-> <<"info", "error", "info">>]

\* A container has left node1, swap is switched off, a disk reads as empty while
\* another is mounted, of the stack only what has stopped is left, sensors answer
\* nonsense, a line is logged.
Later == [gauge |-> None, swap |-> Off,
          usage |-> (node1 :> None @@ node10 :> 2),
          fs    |-> (disk :> [size |-> 0, avail |-> 0] @@ usb :> [size |-> 2, avail |-> 2]),
          stack |-> (m1 :> None @@ m2 :> "exited"),
          temps |-> <<40, 60, 150, 40>>,
          named |-> {1, 3},
          logs  |-> <<"info", "error", "info", "error">>]

TwoWorlds == (home :> Home @@ later :> Later)

LongerNames == (node1 :> {node10} @@ node10 :> {})

\* A field a route: no query serves two.
MyRoutes == {{f} : f \in Fields}
=============================================================================
