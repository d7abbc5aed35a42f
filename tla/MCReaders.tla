----------------------------- MODULE MCReaders -----------------------------
(* Streams of messages, and texts for the decoders, for TLC. *)
EXTENDS Readers, TLC

Msg == INSTANCE Messages
Rqs == INSTANCE Requests
Rsp == INSTANCE Responses

CL(v) == Msg!Field(<<"Content-Length">>, v)
TE(v) == Msg!Field(<<"Transfer-Encoding">>, v)
Host == Msg!Field(<<"Host">>, <<"x">>)

\* Payload that looks like the end of a chunked body.
Tricky == <<<<"0", "cr">>, <<"lf">>>>

Padded(m) == [m EXCEPT !.pad = TRUE]
Ended(m, eol) == [m EXCEPT !.eol = eol]
ChunkEnded(m, eol) == [m EXCEPT !.chunkEol = eol]
UpTo(n, S) == UNION {[1 .. k -> S] : k \in 0 .. n}

-----------------------------------------------------------------------------
(* Requests *)

RequestFields ==
  {Host, CL(<<"2">>), CL(<<"x">>), CL(<<"2", "1">>), TE(<<"chunked">>),
   TE(<<"gzip">>), TE(<<"chunked", "comma", "gzip">>)}

Plain == Rqs!Request("0", <<>>, <<>>, <<>>)

\* Every head of up to three of these fields, with a payload that fits.
Requests ==
  {<<Rqs!Request(v, fs, Tricky, <<>>), Plain>> :
     v \in {"0", "1"}, fs \in UpTo(3, RequestFields)}

Sized == Rqs!Request("1", <<CL(<<"2">>), Host>>, Tricky, <<>>)
Chunked ==
  Rqs!Request("1", <<Host, TE(<<"gzip", "comma", "sp", "chunked">>)>>, Tricky,
              <<Msg!Field(<<"x">>, <<"x">>)>>)

Valueless == Rqs!Request("1", <<Host, Msg!Field(<<"x">>, <<>>)>>, <<>>, <<>>)

\* Bodies, empty values, padding, line ends and pipelining, to be cut everywhere.
RequestPieces ==
  {<<Plain, Sized>>, <<Chunked, Plain>>, <<Padded(Chunked), Padded(Sized)>>,
   <<Ended(Sized, <<"lf">>), Ended(Plain, <<"lf">>)>>,
   <<Ended(Sized, <<"cr", "x">>)>>,
   <<ChunkEnded(Chunked, <<"lf">>)>>,
   <<Valueless, Plain>>, <<Padded(Valueless)>>}

-----------------------------------------------------------------------------
(* Responses *)

Statuses == {<<"2", "0", "0">>, <<"1", "0", "1">>, <<"2", "0", "4">>,
             <<"3", "0", "4">>, <<"4", "0", "4">>}

ResponseFields == RequestFields \ {Host, CL(<<"2", "1">>)}

Answer(method, fs, chunks) ==
  Rsp!Response(<<"2", "0", "0">>, method, fs, chunks, <<>>)

Empty == Answer("G", <<CL(<<"0">>)>>, <<>>)

\* Every head of up to two of these fields, for every kind of response.
Responses ==
  {<<Rsp!Response(st, me, fs, Tricky, <<>>), Empty>> :
     st \in Statuses, me \in {"G", "HEAD", "CONNECT", "none"},
     fs \in UpTo(2, ResponseFields)}

Counted == Answer("G", <<CL(<<"2">>)>>, Tricky)
InChunks ==
  [Answer("G", <<TE(<<"gzip", "comma", "sp", "chunked">>)>>, Tricky)
     EXCEPT !.trailers = <<Msg!Field(<<"x">>, <<"x">>)>>]
Unsized == Answer("G", <<>>, Tricky)

ResponsePieces ==
  {<<Empty, Counted>>, <<InChunks, Empty>>, <<Padded(InChunks)>>,
   <<Counted, Unsized>>, <<Answer("HEAD", <<CL(<<"2">>)>>, <<>>), Unsized>>,
   <<Answer("CONNECT", <<>>, <<>>), Counted>>,
   <<Ended(Unsized, <<"lf">>)>>, <<Ended(Counted, <<"cr", "x">>)>>,
   <<ChunkEnded(InChunks, <<"lf">>)>>,
   <<Padded(Answer("G", <<Msg!Field(<<"x">>, <<>>), CL(<<"0">>)>>, <<>>))>>}

-----------------------------------------------------------------------------
(* The decoders, over every short text *)

ShortTexts == UpTo(4, {"0", "1", "2", "a", "comma", "sp", "chunked", "gzip"})
=============================================================================
