--------------------------- MODULE MCSSERestorer ---------------------------
(* Finite instances of SSERestorer.  The characters are "[", "]", "x" and  *)
(* one of two bytes, "L" then "c"; "a" and "b" occur in originals only.    *)
EXTENDS SSERestorer

CONSTANTS k1, k2

Long  == <<"[", "L", "c", "]">>
Short == <<"[", "x", "]">>

Widths == [b \in Bytes |-> CASE b = "L" -> 2 [] b = "c" -> 0 [] OTHER -> 1]

(* Originals longer and shorter than their placeholders.                   *)
PlainMapping == Long :> <<"a", "L", "c", "b", "a", "b">> @@ Short :> <<"b">>

Pieces == {<<"[">>, <<"L", "c">>, <<"]">>, <<"x">>, <<"[", "x">>, <<"L", "c", "]", "[">>, Long}

Deltas(keys, kinds, texts) == [kind : kinds, key : keys, text : texts]

Others == [kind : {"whole"}, text : {Short}]

Single(lines) == {<<l>> : l \in lines}

(* A stream cut in every way, another that it is interleaved with, events  *)
(* of the other kinds, and events of two data lines.                       *)
Several == {<<Delta(k1, <<"[">>), Delta(k1, <<"x">>)>>, <<Delta(k2, <<"[">>), Delta(k1, <<"]">>)>>,
            <<Delta(k1, <<"[">>), Whole(Short)>>, <<Whole(Short), Whole(<<>>)>>}
Mixed  == Single(Deltas({k1}, {"delta"}, Pieces) \cup Deltas({k1}, {"late"}, {<<"]">>, Long})
                 \cup Deltas({k2}, {"delta"}, {<<"[">>, <<"x", "]">>}) \cup Others)
          \cup Several \cup {<<>>}
NoLate == Single(Deltas({k1}, {"delta"}, Pieces) \cup Others) \cup {<<>>}

ASSUME OriginalsApart(Mapping)

=============================================================================
