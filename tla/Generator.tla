----------------------------- MODULE Generator -----------------------------
(***************************************************************************)
(* What load_txs makes of a scenario's steps                               *)
(* (crates/core/src/generator/trait.rs, templater.rs, util.rs): senders,   *)
(* placeholders and the contracts stored under their names, fuzzed values, *)
(* and the plan of the spam transactions.                                  *)
(*                                                                         *)
(* A text of a scenario is a sequence of pieces: a placeholder             *)
(* <<"key", name>> or a word.  A name is a sequence of words, joined by    *)
(* "_" in the source.  A create step has fields name, pool, from, code,    *)
(* args and params; a call has to, pool, from, params, args, value, fee,   *)
(* auth, fuzz, kind and all (for_all_accounts).  An absent text is empty,  *)
(* an absent signature is NoSignature.                                     *)
(***************************************************************************)
EXTENDS Agents, TLC

CONSTANT ParamSeed   \* [names of fuzzed fields -> the number hashed for their values]

Key(name) == <<"key", name>>
SENDER_KEY == <<"_sender">>
SETCODE_KEY == <<"_setCodeSender">>
Account(a) == <<"account", a>>
SetcodeSigner == <<"account", "setcode">>
NoSignature == <<"none">>

\* Results: a record with ok TRUE, an error, or a panic.
Failed == [ok |-> FALSE, panic |-> FALSE]
Panicked == [ok |-> FALSE, panic |-> TRUE]
Done(r) == [ok |-> TRUE, panic |-> FALSE] @@ r
FirstBad(results) == results[Min({i \in DOMAIN results : ~results[i].ok})]
AllOk(results) == \A i \in DOMAIN results : results[i].ok

\* Op(x), with x evaluated once.
With(x, Op(_)) == CHOOSE r \in {Op(v) : v \in {x}} : TRUE
-----------------------------------------------------------------------------
(* Placeholders.  A context ctx has the rows of named_txs, the chain (RPC URL and *)
(* genesis hash), the scenario label, env, the agent store and the nonces.        *)

ScenarioDbKey(name, label) == name \o label

MutantGetNamedTx(ctx, name) ==
  LET found == {i \in DOMAIN ctx.rows : /\ ctx.rows[i].name = ScenarioDbKey(name, ctx.label)
                                        /\ ctx.rows[i].chain = ctx.chain}
  IN [known |-> found # {}, address |-> IF found = {} THEN <<>> ELSE ctx.rows[Min(found)].address]

\* The last row of that name on this chain.
GetNamedTx(ctx, name) ==
  LET found == {i \in DOMAIN ctx.rows : /\ ctx.rows[i].name = ScenarioDbKey(name, ctx.label)
                                        /\ ctx.rows[i].chain = ctx.chain}
  IN [known |-> found # {}, address |-> IF found = {} THEN <<>> ELSE ctx.rows[Max(found)].address]

NamesIn(text) == {text[i][2] : i \in {j \in DOMAIN text : text[j][1] = "key"}}
NamesInAll(texts) == UNION {NamesIn(texts[i]) : i \in DOMAIN texts}

\* A name that is in the map already is not looked up again.
FindPlaceholderValues(names, map, ctx) ==
  LET missing == names \ (DOMAIN map \cup {SENDER_KEY, SETCODE_KEY}) IN
  IF \A n \in missing : GetNamedTx(ctx, n).known
  THEN Done([map |-> map @@ [n \in missing |-> GetNamedTx(ctx, n).address]])
  ELSE Failed

\* Not the value and the priority fee.
FindFncallPlaceholders(call, map, ctx) ==
  FindPlaceholderValues(NamesInAll(call.args) \cup NamesIn(call.from) \cup NamesIn(call.to)
                          \cup NamesIn(call.auth), map, ctx)
FindCreatePlaceholders(step, map, ctx) ==
  FindPlaceholderValues(NamesInAll(step.args) \cup NamesIn(step.from) \cup NamesIn(step.code), map, ctx)

ReplacePlaceholders(text, map) ==
  [i \in DOMAIN text |-> IF text[i][1] = "key" /\ text[i][2] \in DOMAIN map
                         THEN map[text[i][2]] ELSE text[i]]

Substitute(text, name, value) == ReplacePlaceholders(text, name :> value)
-----------------------------------------------------------------------------
(* Strict definitions: the sender is known *)

\* The pool's account of that index, or the account `from` spells.
SenderOf(step, idx, ctx) ==
  LET from == ReplacePlaceholders(step.from, ctx.env) IN
  IF step.pool # NoPool
  THEN IF step.pool \in DOMAIN ctx.store
       THEN LET signers == ctx.store[step.pool].signers
            IN Done([from |-> signers[(idx % Len(signers)) + 1]])
       ELSE Failed
  ELSE IF Len(from) = 1 /\ from[1][1] = "account" THEN Done([from |-> from[1][2]]) ELSE Failed

MakeStrictCreate(step, ctx) ==
  LET sender == SenderOf(step, 0, ctx) IN
  IF ~sender.ok THEN Failed
  ELSE Done([step EXCEPT !.code = Substitute(@, SENDER_KEY, Account(sender.from)),
                         !.from = Account(sender.from)])

\* The special placeholders of a text; {_setCodeSender} only without {_sender}.
SpecialReplace(text, from) ==
  IF SENDER_KEY \in NamesIn(text) THEN Substitute(text, SENDER_KEY, Account(from))
  ELSE Substitute(text, SETCODE_KEY, SetcodeSigner)

\* The address is looked up without env; the nonce is the tracked one plus idx.
SignAuthorization(call, idx, ctx) ==
  LET found == FindFncallPlaceholders(call, <<>>, ctx) IN
  IF ~found.ok THEN Failed
  ELSE IF NamesIn(ReplacePlaceholders(call.auth, found.map)) # {} THEN Failed
  ELSE Done([list |-> <<[address |-> ReplacePlaceholders(call.auth, found.map),
                         nonce |-> ctx.setcodeNonce + idx]>>])

\* An amount is a number of wei, or a number with a unit, here "gwei".
UNIT == 1000
Wei(n) == <<<<"wei", n>>>>
IsWei(text) == Len(text) = 1 /\ text[1][1] = "wei"
HasUnit(text) == Len(text) = 1 /\ text[1][1] = "gwei"
ParseValue(text) == IF HasUnit(text) THEN Done([wei |-> Wei(UNIT * text[1][2])])
                    ELSE IF IsWei(text) THEN Done([wei |-> text]) ELSE Failed

\* What is no amount may be a placeholder, and is left.
StrictValue(text) == IF ParseValue(text).ok THEN ParseValue(text)
                     ELSE IF NamesIn(text) # {} \/ text = <<>> THEN Done([wei |-> text]) ELSE Failed

MakeStrictCall(call, idx, ctx) ==
  LET sender == SenderOf(call, idx, ctx)
      auth == IF call.auth = <<>> THEN Done([list |-> <<>>]) ELSE SignAuthorization(call, idx, ctx)
      value == StrictValue(call.value)
  IN IF ~sender.ok \/ ~auth.ok \/ ~value.ok THEN Failed
     ELSE Done([from |-> sender.from, to |-> SpecialReplace(call.to, sender.from),
                args |-> [i \in DOMAIN call.args |-> SpecialReplace(call.args[i], sender.from)],
                params |-> call.params, value |-> value.wei, fee |-> call.fee,
                auth |-> auth.list])
-----------------------------------------------------------------------------
(* Transactions *)

\* Without a signature there is no calldata; a placeholder that is left is no value.
EncodeCalldata(args, params) ==
  CASE params = NoSignature -> Done([data |-> <<>>])
    [] Len(params) # Len(args) -> Failed
    [] NamesInAll(args) # {} -> Failed
    [] OTHER -> Done([data |-> args])

\* A value that is not in wei after replacement is dropped; a fee may have a unit,
\* and is an error when it is no amount.
TemplateFunctionCall(strict, map) ==
  LET input == EncodeCalldata([i \in DOMAIN strict.args |-> ReplacePlaceholders(strict.args[i], map)],
                              strict.params)
      to    == ReplacePlaceholders(strict.to, map)
      value == ReplacePlaceholders(strict.value, map)
      raw   == ReplacePlaceholders(strict.fee, map)
      fee   == IF raw = <<>> THEN Done([wei |-> <<>>]) ELSE ParseValue(raw)
  IN IF ~input.ok \/ NamesIn(to) # {} \/ ~fee.ok THEN Failed
     ELSE Done([from |-> strict.from, to |-> to, data |-> input.data, auth |-> strict.auth,
                value |-> IF IsWei(value) THEN value ELSE <<>>, fee |-> fee.wei])

TemplateContractDeploy(strict, map) ==
  LET arg(a) == IF a = <<Key(SENDER_KEY)>> THEN <<strict.from>> ELSE ReplacePlaceholders(a, map)
      code   == ReplacePlaceholders(strict.code, map)
      input  == EncodeCalldata([i \in DOMAIN strict.args |-> arg(strict.args[i])], strict.params)
  IN CASE ~input.ok -> Failed
       [] NamesIn(code) # {} -> Panicked
       [] OTHER -> Done([from |-> strict.from[2], data |-> <<code>> \o input.data])

\* The step of a Create or Setup plan: the map it leaves and the transaction.
CreateTx(step, map, ctx) ==
  With(FindCreatePlaceholders(step, map, ctx), LAMBDA found :
  With(MakeStrictCreate(step, ctx), LAMBDA strict :
    IF ~found.ok \/ ~strict.ok THEN Failed
    ELSE With(TemplateContractDeploy(strict, found.map), LAMBDA tx :
           IF tx.ok THEN Done([map |-> found.map, tx |-> tx]) ELSE tx)))

CallTx(call, idx, map, ctx) ==
  With(MakeStrictCall(call, idx, ctx), LAMBDA strict :
    IF strict.ok THEN TemplateFunctionCall(strict, map) ELSE Failed)

SetupTx(step, idx, map, ctx) ==
  With(FindFncallPlaceholders(step, map, ctx), LAMBDA found :
    IF ~found.ok THEN Failed
    ELSE With(CallTx(step, idx, found.map, ctx), LAMBDA tx :
           IF tx.ok THEN Done([map |-> found.map, tx |-> tx]) ELSE Failed))

\* The accounts a setup step is sent from; -1 where the step is an error.
AccountIndices(step, store) ==
  CASE ~step.all -> <<0>>
    [] step.pool \in DOMAIN store -> [i \in 1..Len(store[step.pool].signers) |-> i - 1]
    [] OTHER -> <<-1>>
-----------------------------------------------------------------------------
(* Fuzzing *)

VALUE_KEY == "value of the tx"
MAX_PRIORITY_FEE_KEY == "priority fee of the tx"

\* A fuzz parameter has param (or ""), value and fee ("unset", "true", "false"),
\* min and max.  Exactly one of the three is set, and not to false.
ParseMapKey(fuzz) ==
  LET set == {f \in {"param", "value", "fee"} :
                CASE f = "param" -> fuzz.param # "" [] f = "value" -> fuzz.value # "unset"
                  [] OTHER -> fuzz.fee # "unset"}
  IN CASE set = {"param"} -> Done([key |-> fuzz.param])
       [] set = {"value"} /\ fuzz.value = "true" -> Done([key |-> VALUE_KEY])
       [] set = {"fee"} /\ fuzz.fee = "true" -> Done([key |-> MAX_PRIORITY_FEE_KEY])
       [] OTHER -> Failed

Keccak256(n) == (5 * n + 3) % 16

\* From min up to, not including, max.
SeedValues(seed, amount, min, max) ==
  [i \in 1..amount |-> (Keccak256(seed + i - 1) % (max - min)) + min]

\* A later parameter of the same name replaces the values of an earlier one.
ExtendFuzzMap(fuzzMap, fuzz, amount) ==
  LET key == ParseMapKey(fuzz) IN
  IF ~fuzzMap.ok THEN fuzzMap
  ELSE IF ~key.ok THEN Failed
  ELSE IF fuzz.min >= fuzz.max THEN Panicked
  ELSE Done([values |-> key.key :> SeedValues(ParamSeed[key.key], amount, fuzz.min, fuzz.max)
                        @@ fuzzMap.values])

\* lookup_tx_placeholders, call after call: the placeholders, then the fuzz map.
LookupTxPlaceholders(found, call, amount, ctx) ==
  LET map == FindFncallPlaceholders(call, found.map, ctx)
      fuzzed == FoldInOrder(LAMBDA m, f : ExtendFuzzMap(m, f, amount),
                            Done([values |-> found.values]), call.fuzz)
  IN IF ~found.ok THEN found
     ELSE IF ~map.ok THEN Failed
     ELSE IF ~fuzzed.ok THEN fuzzed
     ELSE Done([map |-> map.map, values |-> fuzzed.values])

\* A value replaces every argument whose parameter has a fuzzed name.
GetFuzzedArgs(call, values, i) ==
  IF call.params = NoSignature THEN Done([args |-> <<>>])
  ELSE IF Len(call.params) < Len(call.args) THEN Failed
  ELSE Done([args |-> [a \in DOMAIN call.args |->
               IF call.params[a] \in DOMAIN values THEN Wei(values[call.params[a]][i]) ELSE call.args[a]]])

FuzzesValue(call) == \E f \in DOMAIN call.fuzz : call.fuzz[f].value = "true"
FuzzesFee(call) == \E f \in DOMAIN call.fuzz : call.fuzz[f].fee = "true"

\* WorldID proofs replace the sixth argument.
ProofArgs(call, args) ==
  IF call.kind # "groth16-verifyProof" THEN Done([args |-> args])
  ELSE IF Len(args) < 6 THEN Panicked
  ELSE Done([args |-> [args EXCEPT ![6] = <<<<"proof", 0>>>>]])

PrepareTx(call, i, values, map, ctx) ==
  LET fuzzed == GetFuzzedArgs(call, values, i)
      proof == ProofArgs(call, fuzzed.args)
      req == [call EXCEPT !.args = proof.args,
                          !.value = IF FuzzesValue(call) THEN Wei(values[VALUE_KEY][i]) ELSE @,
                          !.fee = IF FuzzesFee(call) THEN Wei(values[MAX_PRIORITY_FEE_KEY][i]) ELSE @]
  IN IF ~fuzzed.ok THEN fuzzed
     ELSE IF ~proof.ok THEN proof
     ELSE CallTx(req, i - 1, map, ctx)
-----------------------------------------------------------------------------
(* PlanType::Spam.  A request is the sequence of its calls. *)

MutantSpamRequests(num, steps) == num - (num % steps)

\* Rounded up so that every step is sent as often as the others.
SpamRequests(num, steps) == IF num % steps = 0 THEN num ELSE num + (steps - (num % steps))

SpamPlan(spam, num, ctx) ==
  LET total   == SpamRequests(num, Len(spam))
      found   == FoldInOrder(LAMBDA f, call : LookupTxPlaceholders(f, call, total, ctx),
                             Done([map |-> ctx.env, values |-> <<>>]), Concat(spam))
      per     == total \div Len(spam)
      request(s, i) == [c \in DOMAIN spam[s] |-> PrepareTx(spam[s][c], i, found.values, found.map, ctx)]
      requests == [k \in 1..total |-> request(((k - 1) \div per) + 1, ((k - 1) % per) + 1)]
      bad     == {k \in DOMAIN requests : ~AllOk(requests[k])}
  IN CASE spam = <<>> -> Panicked
       [] spam # <<>> /\ ~found.ok -> found
       [] spam # <<>> /\ found.ok /\ bad # {} -> FirstBad(requests[Min(bad)])
       [] OTHER -> Done([txs |-> requests])
=============================================================================
