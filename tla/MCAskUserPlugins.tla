-------------------------- MODULE MCAskUserPlugins --------------------------
(* Answers: every policy type of the client, the agent's two error texts,   *)
(* and data update() has to refuse.                                         *)
EXTENDS AskUserPlugins, TLC

MCAnswers ==
  {Number(n) : n \in ALLOW_ONCE .. DENY_PER_LIFE}
    \cup {Number(MaxPolicyType + 1 + ALLOW_PER_LIFE), 
          Text(ErrorMsg), Text(TimeoutMsg), Text("unreadable")}

KeySymmetry == Permutations(Keys) \cup Permutations(Sessions)
=============================================================================
