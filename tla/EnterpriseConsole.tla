-------------------------- MODULE EnterpriseConsole --------------------------
(***************************************************************************)
(* The settings pages of the web console (src/src/App.tsx): filter rules,  *)
(* the simulated incoming e-mail they are applied to, the auto-responder,  *)
(* the forwarding channels, and the audit ledger (AuditLedger) that the    *)
(* handlers write to.  A packet is abstracted to its sender being one the  *)
(* deposit step takes for a spammer or not, and to the rules it satisfies: *)
(* a rule holds the set of packets its condition matches.  Every rule's    *)
(* mailbox and every packet's recipient are the one address the screen     *)
(* never changes, and every rule is enabled.  The tabs only choose which   *)
(* page is shown, and each is one click away: they guard nothing here.     *)
(***************************************************************************)
EXTENDS AuditLedger, Naturals

CONSTANTS
  Packets,         \* what the simulator can send
  SpamPackets,     \* those whose sender reads like a spammer
  Conditions,      \* the sets of packets a rule typed in can match
  SeededRules,     \* the two rules the console starts with
  SeededChannel,
  MaxPackets       \* bound: simulated packets

VARIABLES
  rulesList,       \* in the order they were added
  ruleActionType,  \* the form's action type
  forwardingList,
  autoReplyEnabled,
  emails,          \* the folders of the packets deposited, newest first
  evaluated        \* packets the simulator has evaluated

vars == <<ledgerVars, rulesList, ruleActionType, forwardingList,
          autoReplyEnabled, emails, evaluated>>

(* The options of the action list, and the one the browser shows while the *)
(* form's value is none of them: the first.                                *)
ActionOptions == {"MOVE_TO_FOLDER", "DISCARD"}
ShownAction ==
  IF ruleActionType \in ActionOptions THEN ruleActionType ELSE "MOVE_TO_FOLDER"

(* What the folder typed into a rule means to the evaluation: a text with  *)
(* "trash" in it, else one with "spam" in it, else nothing.                *)
Targets == {"trash", "spam", "other"}

Rules == [id : Nat, matches : SUBSET Packets,
          type : ActionOptions \cup {"FORWARD"}, target : Targets]

Channels == [id : Nat, toRecipient : BOOLEAN, keepCopy : BOOLEAN]

ASSUME ConsoleAssumption ==
  /\ SpamPackets \subseteq Packets
  /\ Conditions \subseteq SUBSET Packets
  /\ SeededRules \in Seq(Rules)
  /\ SeededChannel \in Channels
  /\ MaxPackets \in Nat

ConsoleInit ==
  /\ LedgerInit
  /\ rulesList = SeededRules
  /\ ruleActionType = "FORWARD"
  /\ forwardingList = {SeededChannel}
  /\ autoReplyEnabled = TRUE
  /\ emails = <<>>
  /\ evaluated = 0

-----------------------------------------------------------------------------
(* The evaluation of one packet.                                           *)

\* Mutant of ApplyRule: the first rule that places the packet is the last word.
FaultyApplyRule(packet, verdict, rule) ==
  IF packet \notin rule.matches \/ verdict.folder # "Inbox" THEN verdict
  ELSE CASE rule.type = "DISCARD" -> [folder |-> "Trash", discard |-> TRUE]
         [] rule.type = "MOVE_TO_FOLDER" /\ rule.target = "trash" ->
              [verdict EXCEPT !.folder = "Trash"]
         [] rule.type = "MOVE_TO_FOLDER" /\ rule.target = "spam" ->
              [verdict EXCEPT !.folder = "Spam"]
         [] OTHER -> verdict

(* One rule's effect on the verdict so far.                                *)
ApplyRule(packet, verdict, rule) ==
  IF packet \notin rule.matches THEN verdict
  ELSE CASE rule.type = "DISCARD" -> [folder |-> "Trash", discard |-> TRUE]
         [] rule.type = "MOVE_TO_FOLDER" /\ rule.target = "trash" ->
              [verdict EXCEPT !.folder = "Trash"]
         [] rule.type = "MOVE_TO_FOLDER" /\ rule.target = "spam" ->
              [verdict EXCEPT !.folder = "Spam"]
         [] OTHER -> verdict

Verdict(packet) ==
  FoldLeft(LAMBDA verdict, rule : ApplyRule(packet, verdict, rule),
           [folder |-> "Inbox", discard |-> FALSE], rulesList)

RetainCopy == \A f \in forwardingList : f.toRecipient => f.keepCopy

DepositFolder(packet) ==
  IF packet \in SpamPackets THEN "Spam" ELSE Verdict(packet).folder

handleSimulateIncomingEmail(packet) ==
  /\ evaluated < MaxPackets
  /\ evaluated' = evaluated + 1
  /\ emails' = IF ~Verdict(packet).discard \/ RetainCopy
                 THEN <<DepositFolder(packet)>> \o emails
                 ELSE emails
  /\ UNCHANGED <<ledgerVars, rulesList, ruleActionType,
                 forwardingList, autoReplyEnabled>>

-----------------------------------------------------------------------------
(* The handlers.                                                           *)

(* A new rule or channel is named by the clock, later than those there.    *)
NextId(items) == 1 + FoldSet(LAMBDA item, m : IF item.id > m THEN item.id ELSE m, 0, items)

handleCreateEmailRule(matches, target) ==
  /\ rulesList' = Append(rulesList,
                         [id |-> NextId(Range(rulesList)), matches |-> matches, type |-> ruleActionType,
                          target |-> target])
  /\ Audit("RULE_CREATE")
  /\ UNCHANGED <<ruleActionType, forwardingList,
                 autoReplyEnabled, emails, evaluated>>

(* Every rule but the one named id, in the same order.                     *)
RulesWithout(id) ==
  FoldLeft(LAMBDA kept, r : IF r.id = id THEN kept ELSE Append(kept, r), <<>>, rulesList)

(* No audit row is written.                                                *)
handleDeleteEmailRule(id) ==
  /\ rulesList' = RulesWithout(id)
  /\ UNCHANGED <<ledgerVars, ruleActionType, forwardingList, autoReplyEnabled, emails,
                 evaluated>>

handleUpdateAutoReply ==
  /\ Audit("AUTO_REPLY_UPDATE")
  /\ UNCHANGED <<rulesList, ruleActionType, forwardingList, autoReplyEnabled, emails,
                 evaluated>>

(* fwdKeepCopy starts as true and no control changes it.                   *)
handleCreateForwarding(toRecipient) ==
  /\ forwardingList' = forwardingList \cup
       {[id |-> NextId(forwardingList), toRecipient |-> toRecipient, keepCopy |-> TRUE]}
  /\ Audit("FORWARD_CREATE")
  /\ UNCHANGED <<rulesList, ruleActionType, autoReplyEnabled, emails, evaluated>>

(* No audit row is written.                                                *)
handleDeleteForwarding(id) ==
  /\ forwardingList' = {f \in forwardingList : f.id # id}
  /\ UNCHANGED <<ledgerVars, rulesList, ruleActionType, autoReplyEnabled, emails,
                 evaluated>>

-----------------------------------------------------------------------------
(* The pages: what each offers.                                            *)

(* Choosing the option already shown is no change, so the handler of the   *)
(* list does not run.                                                      *)
RuleForm ==
  \/ \E type \in ActionOptions \ {ShownAction} :
       /\ ruleActionType' = type
       /\ UNCHANGED <<ledgerVars, rulesList, forwardingList, autoReplyEnabled, emails,
                      evaluated>>
  \/ \E matches \in Conditions, target \in Targets :
       handleCreateEmailRule(matches, target)

PacketSimulator == \E packet \in Packets : handleSimulateIncomingEmail(packet)

RuleQueue == \E r \in Range(rulesList) : handleDeleteEmailRule(r.id)

(* The checkbox takes effect at once, without the form being sent.         *)
AutoReplyForm ==
  \/ handleUpdateAutoReply
  \/ /\ autoReplyEnabled' = ~autoReplyEnabled
     /\ UNCHANGED <<ledgerVars, rulesList, ruleActionType, forwardingList, emails,
                    evaluated>>

ForwardForm == \E toRecipient \in BOOLEAN : handleCreateForwarding(toRecipient)

ForwardTable == \E f \in forwardingList : handleDeleteForwarding(f.id)

LedgerTab ==
  /\ LedgerPanel
  /\ UNCHANGED <<rulesList, ruleActionType, forwardingList, autoReplyEnabled, emails,
                 evaluated>>

ConsoleNext ==
  \/ RuleForm
  \/ PacketSimulator
  \/ RuleQueue
  \/ AutoReplyForm
  \/ ForwardForm
  \/ ForwardTable
  \/ LedgerTab

ConsoleSpec == ConsoleInit /\ [][ConsoleNext]_vars

-----------------------------------------------------------------------------

ConsoleTypeOK ==
  /\ LedgerTypeOK
  /\ ruleActionType \in ActionOptions \cup {"FORWARD"}
  /\ rulesList \in Seq(Rules)
  /\ forwardingList \subseteq Channels
  /\ autoReplyEnabled \in BOOLEAN
  /\ emails \in Seq({"Inbox", "Spam", "Trash"})
  /\ evaluated \in 0..MaxPackets

(* A rule that decides where a packet goes.                                *)
Places(rule, packet) ==
  /\ packet \in rule.matches
  /\ \/ rule.type = "DISCARD"
     \/ rule.type = "MOVE_TO_FOLDER" /\ rule.target # "other"

(* The folder a rule that places a packet names.                           *)
Placement(rule) ==
  IF rule.type = "MOVE_TO_FOLDER" /\ rule.target = "spam" THEN "Spam" ELSE "Trash"

(* Whatever rules have been added and removed, the evaluation loop puts a  *)
(* packet where the last rule that places it says, and into the Inbox only *)
(* when no rule places it; a spammer's packet goes to Spam.                *)
PlacedByLastRule ==
  \A packet \in Packets :
    LET placing == {i \in DOMAIN rulesList : Places(rulesList[i], packet)}
    IN DepositFolder(packet) =
         IF packet \in SpamPackets THEN "Spam"
         ELSE IF placing = {} THEN "Inbox"
         ELSE Placement(rulesList[CHOOSE i \in placing : \A j \in placing : j <= i])

(* The screen shows the alert under the ledger's label when the last sweep *)
(* found rows that do not match and nothing has been written since.        *)
CompromiseIsShown == auditSweepStatus = "compromised" => AlertShown
=============================================================================
