----------------------------- MODULE MCPieRuntime ------------------------------
EXTENDS PieRuntime

MCNames == {"absent", "constant", "pick", "pick2", "var"}
MCKind == [absent |-> "weak", constant |-> "abs", pick |-> "ifunc",
           pick2 |-> "ifunc_in_data", var |-> "object"]

Targets == <<18, 16, 14, 12, 10, 8, 6, 4, 2, 0>>

(* Every set of words of .data that hold the address of one symbol.        *)
PackedLinks ==
    {[data |-> 20, tls |-> 0, tpoff |-> 0, got |-> <<>>, packed |-> TRUE,
      requests |-> LET targets == SelectSeq(Targets, LAMBDA a : a \in t)
                   IN [k \in DOMAIN targets |->
                         [section |-> "data", offset |-> targets[k], symbol |-> "var"]]] :
     t \in SUBSET Range(Targets)}

Requests == [section : {"data"}, offset : {0, 4, 7}, symbol : MCNames]
            \cup [section : {"tls"}, offset : {0}, symbol : {"var", "pick"}]
            \cup [section : {"text"}, offset : {0}, symbol : {"var"}]

(* Every pair of relocations, with every GOT of up to four names.          *)
MixedLinks ==
    [data : {10}, tls : {4}, tpoff : {0, 1}, packed : BOOLEAN,
     got : {<<>>, <<"var">>, <<"pick", "var">>, <<"absent", "constant", "var">>,
            <<"absent", "constant">>, <<"pick2">>, <<"absent", "constant", "pick", "var">>},
     requests : UNION {[1 .. n -> Requests] : n \in 0 .. 2}]

MCLinks == PackedLinks \cup MixedLinks
=============================================================================
