------------------------ MODULE MCEnterpriseConsole ------------------------
(* Small instance of EnterpriseConsole: two packets, one of them from a    *)
(* spammer, one of the two seeded rules and room for two more.             *)
EXTENDS EnterpriseConsole

\* A digest with collisions: it does not see the action.
MCHashOf(fields) == <<fields[1] % 2, fields[2]>>

MCSeededRows == <<"SECURED_ROUTE_ACCESS">>
MCPackets == {"spam", "plain"}
MCSpamPackets == {"spam"}
MCConditions == {{"plain"}}
MCSeededRules ==
  << [id |-> 302, matches |-> {"spam"}, type |-> "DISCARD", target |-> "trash"] >>
MCSeededChannel == [id |-> 501, toRecipient |-> TRUE, keepCopy |-> TRUE]
=============================================================================
