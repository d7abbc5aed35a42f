--------------------------- MODULE MCPosixLaunch ---------------------------
(* Contexts of the service, of the library's tests and of others, for TLC. *)
EXTENDS PosixLaunch, TLC

B(type, side) == [type |-> type, side |-> side]
RedirectTo(d) == [type |-> "redirect", side |-> "out", to |-> d]

Standard == [d \in 0 .. 2 |-> <<"own", d>>]
MCTables == {Standard @@ (3 :> <<"own", 3>>), 2 :> <<"own", 2>>}

\* process::run
Worker == (1 :> B("inherit", "out")) @@ (2 :> B("inherit", "out"))
          @@ (3 :> B("capture", "out"))
\* posix_launch_test.cpp
Both == (0 :> B("capture", "in")) @@ (1 :> B("capture", "out"))
\* streams put on descriptors of each other
Crossed == (1 :> RedirectTo(4)) @@ (3 :> B("silence", "out"))
           @@ (4 :> B("capture", "out")) @@ (5 :> B("capture", "out"))
\* pipeline_test.cpp
Top == (0 :> B("capture", "in")) @@ (2 :> RedirectTo(1))
Middle == 2 :> B("capture", "out")
Bottom == (1 :> B("capture", "out")) @@ (2 :> B("inherit", "out"))

MCPlans ==
  {<<Worker>>, <<Both>>, <<Crossed>>, <<Top, Bottom>>, <<Top, Middle, Bottom>>}
=============================================================================
