-------------------------- MODULE MCServiceBridge --------------------------
(* Lines of every shape: attributes padded, blank, missing, not numbers, or of one digit. *)
EXTENDS ServiceBridge

names == {<<"a">>, <<"b">>, <<" ", "a", " ">>, <<" ">>}
qLens == {<<"9">>, <<"x">>}
reqLens == {<<"3", "2">>, <<"3", "3">>}
rspLens == {<<"3", "2", "\r">>, <<" ", "3", "3">>, <<"9">>, <<"9", "\r">>}

MCLines ==
  {n \o <<",">> \o q \o <<",">> \o r \o <<",">> \o s :
     n \in names, q \in qLens, r \in reqLens, s \in rspLens}
    \cup {<<"c", ",", "9", ",", ",", "9", ",", "9", "x", ",">>,
          <<"a", ",", "9", ",", "9">>, <<"a", "b">>, <<"a">>, <<>>}
=============================================================================
