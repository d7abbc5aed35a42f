---------------------------- MODULE MCHttpSocket ----------------------------
(* Requests for the server socket, for TLC. *)
EXTENDS HttpSocket, TLC

F(name, v) == Field(name, v)
Host == F(<<"Host">>, <<"x">>)
Long == F(<<"x", "x">>, <<"x", "x">>)
Connection(v) == F(<<"Connection">>, v)
Expect == F(<<"Expect">>, <<"x">>)

Modern(fs, cs, ts) == Request("1", <<Host>> \o fs, cs, ts)
Old(fs) == Request("0", fs, <<>>, <<>>)
Payloads == <<<<"0", "cr">>, <<"lf">>>>

Chunked == Modern(<<Long, F(<<"Transfer-Encoding">>, <<"chunked">>)>>, Payloads,
                  <<Long>>)
Counting == Modern(<<F(<<"Content-Length">>, <<"3">>), Long>>, Payloads, <<>>)

Pieces ==
  {<<Chunked>>, <<Counting, Old(<<>>)>>, <<[Chunked EXCEPT !.pad = TRUE]>>,
   <<Old(<<Expect, Long>>)>>, <<Old(<<Long, Long>>)>>,
   <<Modern(<<F(<<"x", "x">>, <<>>), Expect, Expect>>, <<>>, <<>>)>>}

Heads ==
  {<<Modern(<<>>, <<>>, <<>>), Old(<<>>)>>,
   <<Old(<<Connection(<<"keep-alive">>)>>), Modern(<<Expect>>, <<>>, <<>>)>>,
   <<Modern(<<Connection(<<"close", "comma", "keep-alive">>)>>, <<>>, <<>>)>>,
   <<Modern(<<Connection(<<"keep-alive">>), Connection(<<"close">>),
              Connection(<<"keep-alive">>)>>, <<>>, <<>>)>>,
   <<Chunked, Counting>>,
   <<Modern(<<F(<<"Content-Length">>, <<"x">>)>>, <<>>, <<>>)>>}
=============================================================================
