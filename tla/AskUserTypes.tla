---------------------------- MODULE AskUserTypes ----------------------------
(***************************************************************************)
(* The enumerations the parts of the ask-user extension exchange and the   *)
(* pure conversions between them: what the user picked in the popup        *)
(* (NResponseType), what the backend hands to the agent (UIResponseType),  *)
(* the policy type the agent answers with and the data it is sent as.      *)
(***************************************************************************)
EXTENDS Integers

NResponseType == {"Allow", "Deny", "Never", "Error", "None"}

UIResponseType == {"URT_NO_ONCE", "URT_NO_SESSION", "URT_NO_LIFE",
                   "URT_YES_ONCE", "URT_YES_SESSION", "URT_YES_LIFE",
                   "URT_TIMEOUT", "URT_ERROR"}

RequestType == {"RT_Action", "RT_Cancel", "RT_Close"}

\* SupportedTypes.h: the policy types of the service and of the client.
ASK_USER          == 10
ALLOW_ONCE        == 11
ALLOW_PER_SESSION == 12
ALLOW_PER_LIFE    == 13
DENY_ONCE         == 14
DENY_PER_SESSION  == 15
DENY_PER_LIFE     == 16

\* Cynara's PredefinedPolicyType: 16-bit values of the cynara headers.
PREDEFINED_DENY  == 0
PREDEFINED_ALLOW == 65535
MaxPolicyType    == 65535
PolicyType       == 0 .. MaxPolicyType

\* AgentErrorMsg: the three values of the error string.
NoError == ""
ErrorMsg == "ERROR"
TimeoutMsg == "TIMEOUT"

\* PluginData is a string: a decimal number or any other text.
Number(n) == [number |-> n]
Text(s)   == [text |-> s]
IsText(d) == "text" \in DOMAIN d

\* The agent's answers as plugin data.
AgentData == {Number(p) : p \in ALLOW_ONCE .. DENY_PER_LIFE}
               \cup {Text(NoError), Text(ErrorMsg), Text(TimeoutMsg)}

-----------------------------------------------------------------------------
\* (mutant) the response is passed on unconverted.
UIResponseRaw(response) == response

\* NotificationBackend::responseCb, the switch over NResponseType.
UIResponseOf(response) ==
  CASE response = "Allow" -> "URT_YES_LIFE"
    [] response = "Deny"  -> "URT_NO_ONCE"
    [] response = "Never" -> "URT_NO_LIFE"
    [] response = "Error" -> "URT_ERROR"
    [] response = "None"  -> "URT_TIMEOUT"

\* (mutant) "once" and "for life" denials are swapped.
PolicyTypeSwapped(type) ==
  CASE type = "URT_YES_LIFE" -> ALLOW_PER_LIFE
    [] type = "URT_NO_ONCE"  -> DENY_PER_LIFE
    [] OTHER                 -> DENY_ONCE

\* Agent::UIResponseToPolicyType.
UIResponseToPolicyType(type) ==
  CASE type = "URT_YES_ONCE"    -> ALLOW_ONCE
    [] type = "URT_YES_SESSION" -> ALLOW_PER_SESSION
    [] type = "URT_YES_LIFE"    -> ALLOW_PER_LIFE
    [] type = "URT_NO_ONCE"     -> DENY_ONCE
    [] type = "URT_NO_SESSION"  -> DENY_PER_SESSION
    [] type = "URT_NO_LIFE"     -> DENY_PER_LIFE
    [] OTHER                    -> DENY_ONCE

\* Translator::Agent::answerToData.
answerToData(policy, errMsg) ==
  IF errMsg = NoError THEN Number(policy) ELSE Text(errMsg)

\* The data Agent::processUIResponse sends for a UI response; PolicyType() is 0.
ResponseData(type) ==
  CASE type = "URT_ERROR"   -> answerToData(0, ErrorMsg)
    [] type = "URT_TIMEOUT" -> answerToData(0, TimeoutMsg)
    [] OTHER -> answerToData(UIResponseToPolicyType(type), NoError)

\* (mutant) the text of a failure is not looked for.
dataToAnswerTimeout(data) ==
  IF IsText(data)
  THEN IF data.text = TimeoutMsg THEN {PREDEFINED_DENY} ELSE {}
  ELSE IF data.number > MaxPolicyType THEN {} ELSE {data.number % (MaxPolicyType + 1)}

\* Translator::Plugin::dataToAnswer: the policy type, or nothing when it throws (a
\* text that is no number, a number beyond 16 bits).  There is no lower bound: the
\* conversion to the unsigned type takes a negative number modulo 2^16.
dataToAnswer(data) ==
  IF IsText(data)
  THEN IF data.text \in {ErrorMsg, TimeoutMsg} THEN {PREDEFINED_DENY} ELSE {}
  ELSE IF data.number > MaxPolicyType THEN {} ELSE {data.number % (MaxPolicyType + 1)}
=============================================================================
