---------------------------- MODULE TimeoutPatch ----------------------------
(* The rewriting of source text by the auto-remediation agent, and what the  *)
(* scanner says of a text (infrastructure/scanners/auto_remediation_agent.py,*)
(* white_box_agent.py).  A call is the list of tokens that follow            *)
(* "requests.get(", its own closing parenthesis included; a file is the list *)
(* of its calls.  "open" is the name and the parenthesis of an inner call,   *)
(* "timeout" a keyword argument timeout=, "mention" any other argument with  *)
(* the word timeout in it.                                                   *)
EXTENDS Integers, Sequences, SequencesExt

Token == {"arg", "comma", "open", "close", "timeout", "mention"}

(* A call ends at its own closing parenthesis, so it has a first one.        *)
Calls ==
    {call \in Seq(Token) :
        \E i \in DOMAIN call : call[i] = "close" /\ \A j \in 1 .. i - 1 : call[j] # "close"}

(* An emptied file has no calls.                                             *)
Empty == <<>>

(***************************************************************************)
(* The rewriting                                                           *)
(***************************************************************************)

(* The pattern takes for arguments whatever stands before the first closing  *)
(* parenthesis.                                                              *)
FirstClose(call) ==
    CHOOSE i \in DOMAIN call : call[i] = "close" /\ \A j \in 1 .. i - 1 : call[j] # "close"

Captured(call) == SubSeq(call, 1, FirstClose(call) - 1)

\* Mutant: arguments that speak of a timeout are given another one.
AddTimeoutAlways(call) ==
    LET args == Captured(call)
        sep  == IF args = <<>> THEN <<>> ELSE <<"comma">>
    IN  args \o sep \o <<"timeout">> \o SubSeq(call, FirstClose(call), Len(call))

(* A timeout after the captured arguments, unless they speak of one.         *)
AddTimeout(call) ==
    LET args == Captured(call)
        sep  == IF args = <<>> THEN <<>> ELSE <<"comma">>
    IN  IF Contains(args, "timeout") \/ Contains(args, "mention") THEN call
        ELSE args \o sep \o <<"timeout">> \o SubSeq(call, FirstClose(call), Len(call))

(* Every call of the file is rewritten, flagged or not.                      *)
Rewrite(file) == [i \in DOMAIN file |-> AddTimeout(file[i])]

(***************************************************************************)
(* The scan                                                                *)
(***************************************************************************)

Count(s, token) == Len(SelectSeq(s, LAMBDA t : t = token))

(* Whether position i of a call is among its own arguments.                  *)
Outermost(call, i) ==
    LET before == SubSeq(call, 1, i - 1) IN Count(before, "open") = Count(before, "close")

HasTimeout(call) == \E i \in DOMAIN call : call[i] = "timeout" /\ Outermost(call, i)

(* A comma follows an argument.                                              *)
Parses(call) ==
    \A i \in DOMAIN call : call[i] = "comma" => i > 1 /\ call[i - 1] \notin {"comma", "open"}

(* Bandit passes over a file that does not parse.                            *)
Flagged(file) ==
    /\ \A i \in DOMAIN file : Parses(file[i])
    /\ \E i \in DOMAIN file : ~HasTimeout(file[i])

(***************************************************************************)
(* What a fix may do                                                       *)
(***************************************************************************)

(* The call is the same but for a timeout of its own at its end.             *)
Preserves(call, fixed) ==
    \/ fixed = call
    \/ /\ Parses(fixed)
       /\ \E sep \in {<<>>, <<"comma">>} :
            fixed = Front(call) \o sep \o <<"timeout">> \o <<"close">>

FilePreserved(file, fixed) ==
    /\ Len(fixed) = Len(file)
    /\ \A i \in DOMAIN file : Preserves(file[i], fixed[i])
=============================================================================
