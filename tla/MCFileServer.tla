---------------------------- MODULE MCFileServer ----------------------------
(* Requests for TLC: every byte range and pairs of them, conditions, paths,  *)
(* and states of the socket, each with the rest as usual.                    *)
EXTENDS FileServer

MCTree == <<>> :> "directory" @@ <<"d">> :> "directory"
          @@ <<"f">> :> "file" @@ <<"d", "f">> :> "file"

Get == [dir |-> FALSE, method |-> "GET", path |-> <<"f">>, write_state |-> "empty",
        native |-> TRUE, capacity |-> 3, content_type |-> "", range |-> <<>>,
        if_range |-> <<>>, if_match |-> <<>>, if_none_match |-> <<>>,
        if_unmodified_since |-> <<>>, if_modified_since |-> <<>>,
        etag |-> <<>>, modified |-> 12]

\* "02" and "34" fit a type up to 37, "40" and "100" do not.
Numbers == {<<>>, <<"0">>, <<"1">>, <<"0", "2">>, <<"4">>, <<"3", "4">>, <<"4", "0">>,
            <<"1", "0", "0">>}
Specs == {a \o <<"dash">> \o b : a, b \in Numbers}
Ranges(specs) == {<<<<"bytes=">> \o s>> : s \in specs}
Few == {<<"0", "dash", "1">>, <<"2", "dash">>, <<"dash", "3">>, <<"4", "dash", "4">>}
Lists == {a \o <<"comma", "sp">> \o b : a, b \in Few}
Odd == {<<>>, <<"dash", "dash">>, <<"1", "sp", "dash">>, <<"1">>,
        <<"0", "dash", "0", "comma", "x">>, <<"comma">>}

Syntax == {[Get EXCEPT !.range = r, !.native = FALSE] :
             r \in Ranges(Specs \cup Lists \cup Odd) \cup {<<<<"x", "0", "dash">>>>}}

Transfers ==
  {[Get EXCEPT !.range = r, !.native = n, !.capacity = k, !.content_type = t] :
     r \in {<<>>} \cup Ranges(Few \cup {<<"0", "dash", "0", "comma", "2", "dash">>,
                                       <<"1", "dash", "2", "comma", "dash", "1">>}),
     n \in BOOLEAN, k \in {1, 2, 3, 4, 5, 7, 12, 40}, t \in {"", "type"}}

\* A date is of the 1900s (before 10) or later.
Date(form, at) == [form |-> form, at |-> at]
Dates == {<<>>, <<Date("rfc1123", 11)>>, <<Date("asctime", 12)>>,
          <<Date("rfc1036", 13)>>, <<Date("other", 12)>>,
          <<Date("rfc1123", 11), Date("rfc1123", 12)>>}
Quote(tag) == <<"quote">> \o tag \o <<"quote">>
ListsOfTags == {<<>>, <<<<"star">>>>, <<<<"x">>>>, <<Quote(<<"x">>)>>,
                <<Quote(<<"a">>) \o <<"comma", "x">>>>, <<<<"a">>, <<"W/", "x">>>>}

Conditional ==
  {[Get EXCEPT !.if_match = m, !.if_none_match = nm, !.etag = e,
               !.if_unmodified_since = u, !.if_modified_since = s] :
     m, nm \in ListsOfTags, u, s \in {<<>>, <<Date("rfc1123", 11)>>},
     e \in {<<>>, Quote(<<"x">>), <<"W/">> \o Quote(<<"x">>)}}
  \cup {[Get EXCEPT !.if_unmodified_since = u, !.if_modified_since = s,
                    !.if_range = r, !.range = <<<<"bytes=", "dash", "2">>>>,
                    !.modified = m] :
     u, s, r \in Dates, m \in {11, 12, 14}}

Segments == {"", ".", "..", "d", "f"}
Paths == {[Get EXCEPT !.dir = TRUE, !.path = <<a, b, c>>, !.method = m] :
            a, b, c \in Segments, m \in {"GET", "HEAD"}}
WriteStates == {"empty", "continue_issued", "metadata_issued", "finished"}
Calls == {[Get EXCEPT !.dir = d, !.method = m, !.write_state = w, !.native = n,
                      !.range = r] :
            d, n \in BOOLEAN, m \in {"GET", "HEAD", "POST"}, w \in WriteStates,
            r \in {<<>>} \cup Ranges(Few)}

MCRequests ==
  Syntax \cup Transfers \cup Conditional \cup Paths
    \cup {r \in Calls : r.method # "POST" \/ r.dir}
=============================================================================
