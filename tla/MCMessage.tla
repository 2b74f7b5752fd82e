----------------------------- MODULE MCMessage -----------------------------
(***************************************************************************)
(* Message for TLC: types with and without parameters, one that differs    *)
(* from another by case only, and texts the parser refuses (a type with a  *)
(* '.' and a '+', parameters in the other order, something behind them).   *)
(***************************************************************************)
EXTENDS Message

MCData == {<<>>, <<"a">>, <<"b", "c">>}

JsonUtf8 == << <<"type", Json>>, <<"charset", "UTF8">> >>

ApiJson == "application/vnd.api+json"

MCContentTypes == {Type(Json, "", ""), Type(Text, "utf8", ""),
                   Type(Octets, "", "part"), Type("", "", ""),
                   Type(ApiJson, "utf8", "")}

MCTexts == {JsonUtf8,
            << <<"type", "Application/JSON">> >>,
            << <<"type", ApiJson>> >>,
            << <<"type", Text>>, <<"charset", "ascii">>, <<"boundary", "part">> >>,
            << <<"type", Json>>, <<"boundary", "part">>, <<"charset", "ascii">> >>,
            Append(JsonUtf8, <<"junk", "">>)}

MCMethods == {[scheme |-> "Basic", user |-> <<"u">>, password |-> <<"p">>],
              [scheme |-> "Bearer", token |-> <<"t">>]}

=============================================================================
