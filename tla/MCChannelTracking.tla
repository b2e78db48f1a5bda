-------------------------- MODULE MCChannelTracking --------------------------
(* ChannelTracking with two changes of one order and two handlers, of      *)
(* which the first can be made to fail for ever.                           *)
EXTENDS ChannelTracking, TLC

CONSTANTS e1, e2, s1, o1

OneScope == (e1 :> s1) @@ (e2 :> s1)
OneOrder == (e1 :> o1) @@ (e2 :> o1)
SSEThenTracking == <<"sse-broadcast", "channel-tracking">>
=============================================================================
