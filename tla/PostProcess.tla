---------------------------- MODULE PostProcess ----------------------------
(***************************************************************************)
(* The reversible post-processing transforms of a MoveSequence, in         *)
(* src/crates/movy-fuzz/src/mutators/sequence/post.rs: process_balance and *)
(* process_key_store, which turn a raw sequence into one ready to execute, *)
(* and remove_process_key_store and remove_process_balance, which undo     *)
(* them.  Around them, the assembler of the spec (4.3) appends calls to    *)
(* the raw sequence, and the pipeline applies the transforms before an     *)
(* execution and removes them after; those parts, and ObjectData::from_ptb *)
(* which classifies the results, are not under src/ and are modelled from  *)
(* the spec.                                                               *)
(*                                                                         *)
(* A sequence is a record of inputs and commands; argument references are *)
(* 0-based, as SequenceArgument's u16 indices are.                        *)
(***************************************************************************)
EXTENDS Integers, Sequences, SequencesExt

CONSTANTS
  UserFunctions,  \* the functions the assembler may call
  FromBalance,    \* 0x2::coin::from_balance<T>(Balance<T>): Coin<T>
  CoinTypes,      \* concrete coin type tags
  NumTyParams,    \* function -> number of type parameters
  Params,         \* function -> sequence of parameter tokens
  Returns,        \* function -> sequence of return tokens
  MaxCommands     \* bound on the commands the assembler appends

(***************************************************************************)
(* A token is [kind, tparam, coin]: kind "Balance" is Balance<T> with T    *)
(* the type parameter tparam (0-based) or, when tparam = -1, the concrete  *)
(* coin; "KeyStore" is an object with key and store, which cannot be       *)
(* dropped; "Pure" is a plain value.                                      *)
(***************************************************************************)
Functions == UserFunctions \cup {FromBalance}
Kinds == {"Balance", "KeyStore", "Pure"}

VARIABLES
  seq,     \* the MoveSequence: [inputs, commands]
  phase,   \* where the sequence is in the process / execute / remove cycle
  saved    \* the sequences before each applied transform, innermost last

vars == <<seq, phase, saved>>

Fresh == [src |-> "Fresh"]  \* the assembler's choice of a new input
InputRef(n) == [src |-> "Input", i |-> n]
ResultRef(k) == [src |-> "Result", i |-> k]
NestedRef(k, j) == [src |-> "Nested", i |-> k, j |-> j]

\* The type a token denotes in a call with type arguments tys.
TokType(tok, tys) == IF tok.tparam >= 0 THEN tys[tok.tparam + 1] ELSE tok.coin

(***************************************************************************)
(* ObjectData::from_ptb (spec-modelled): the values the sequence produces  *)
(* and never consumes, in command order.  A call with one return value is  *)
(* referenced as Result(k), one with several as NestedResult(k, j).        *)
(***************************************************************************)
Uses(cmd) == IF cmd.kind = "Call" THEN ToSet(cmd.args) ELSE ToSet(cmd.objs) \cup {cmd.to}

Consumed(cmds) == UNION {Uses(cmds[p]) : p \in DOMAIN cmds}

RetRef(k, j, n) == IF n = 1 THEN ResultRef(k) ELSE NestedRef(k, j)

OutputsAt(cmds, p) ==
  IF cmds[p].kind = "Call"
  THEN LET R == Returns[cmds[p].fn]
       IN [j \in 1 .. Len(R) |-> [ref |-> RetRef(p - 1, j - 1, Len(R)),
                                   tok |-> R[j], tys |-> cmds[p].tys]]
  ELSE <<>>

Outputs(cmds) == FlattenSeq([p \in DOMAIN cmds |-> OutputsAt(cmds, p)])

Unconsumed(cmds, kind) ==
  LET live == SelectSeq(Outputs(cmds),
                LAMBDA o : o.tok.kind = kind /\ o.ref \notin Consumed(cmds))
  IN [n \in DOMAIN live |-> live[n].ref]

\* object_data.balances and object_data.key_store_objects
Balances(cmds) == Unconsumed(cmds, "Balance")
KeyStoreObjects(cmds) == Unconsumed(cmds, "KeyStore")

(***************************************************************************)
(* Mutant forms of the helpers below.                                      *)
(***************************************************************************)
TyArgOf_FirstArg(call, tok) == IF tok.tparam >= 0 THEN call.tys[1] ELSE tok.coin
ActorInputIndex_NoMinusOne(inputs) == Len(inputs)
ActorInputIndex_BeforePush(inputs) == Len(inputs) - 2
StripFromBalance_One(cmds) ==
  IF cmds # <<>> /\ Last(cmds).kind = "Call" /\ Last(cmds).fn = FromBalance
  THEN Front(cmds) ELSE cmds
PopRoute_KeepInput(s) ==
  IF s.commands # <<>> /\ Last(s.commands).kind = "Transfer"
     /\ Last(s.commands).to.src = "Input"
  THEN [s EXCEPT !.commands = Front(@)] ELSE s

(***************************************************************************)
(* process_balance: for every balance, append coin::from_balance<T>(b).    *)
(* T is the producing call's own type argument when Balance's argument is  *)
(* a type parameter, the concrete tag otherwise.                           *)
(***************************************************************************)
\* (idx, ret_idx) of a Result or NestedResult balance.
BalanceIndex(b) == IF b.src = "Result" THEN <<b.i, 0>> ELSE <<b.i, b.j>>

TyArgOf(call, tok) == IF tok.tparam >= 0 THEN call.tys[tok.tparam + 1] ELSE tok.coin

FromBalanceCmd(cmds, b) ==
  LET idx == BalanceIndex(b)
      call == cmds[idx[1] + 1]
      tok == Returns[call.fn][idx[2] + 1]
  IN [kind |-> "Call", fn |-> FromBalance, tys |-> <<TyArgOf(call, tok)>>,
      args |-> <<b>>]

ConvertBalances(s) ==
  LET bals == Balances(s.commands)
  IN [s EXCEPT !.commands =
        @ \o [n \in DOMAIN bals |-> FromBalanceCmd(s.commands, bals[n])]]

(***************************************************************************)
(* process_key_store: when the sequence leaves key-store objects, push the *)
(* attacker's address as an input and transfer them all to it.             *)
(***************************************************************************)
\* The index of the input just pushed: ptb.inputs.len() as u16 - 1.
ActorInputIndex(inputs) == Len(inputs) - 1

RouteKeyStore(s) ==
  LET objs == KeyStoreObjects(s.commands)
      ins == Append(s.inputs, "Attacker")
  IN IF objs = <<>> THEN s
     ELSE [inputs |-> ins,
           commands |-> Append(s.commands,
              [kind |-> "Transfer", objs |-> objs,
               to |-> InputRef(ActorInputIndex(ins))])]

(***************************************************************************)
(* remove_process_key_store: when the last command is TransferObjects to   *)
(* an input, pop it and the last input.                                    *)
(***************************************************************************)
PopRoute(s) ==
  IF s.commands # <<>> /\ Last(s.commands).kind = "Transfer"
     /\ Last(s.commands).to.src = "Input"
  THEN [inputs |-> IF s.inputs = <<>> THEN <<>> ELSE Front(s.inputs),
        commands |-> Front(s.commands)]
  ELSE s

(***************************************************************************)
(* remove_process_balance: walk back from the end, removing every          *)
(* coin::from_balance call, stopping at the first other command.           *)
(***************************************************************************)
RECURSIVE StripFromBalance(_)
StripFromBalance(cmds) ==
  IF cmds # <<>> /\ Last(cmds).kind = "Call" /\ Last(cmds).fn = FromBalance
  THEN StripFromBalance(Front(cmds)) ELSE cmds

(***************************************************************************)
(* The assembler (spec 4.3, spec-modelled): append a call to f with type   *)
(* arguments tys, each parameter taken from an unconsumed earlier result   *)
(* of its kind and type, or from a fresh input (a pure value, or a         *)
(* key-store object of the types pool).  Balances have no fresh source.   *)
(***************************************************************************)
Candidates(tok, tys) ==
  {o.ref : o \in {o \in ToSet(Outputs(seq.commands)) :
                    /\ o.tok.kind = tok.kind
                    /\ o.ref \notin Consumed(seq.commands)
                    /\ tok.kind = "Balance" =>
                          TokType(o.tok, o.tys) = TokType(tok, tys)}}
  \cup (IF tok.kind = "Balance" THEN {} ELSE {Fresh})

FreshBefore(ch, k) == Len(SelectSeq(SubSeq(ch, 1, k - 1), LAMBDA c : c.src = "Fresh"))

AppendCall(f) ==
  /\ phase = "Raw"
  /\ Len(seq.commands) < MaxCommands
  /\ \E tys \in [1 .. NumTyParams[f] -> CoinTypes] :
     LET P == Params[f] IN
     \E ch \in [1 .. Len(P) -> UNION {Candidates(P[k], tys) : k \in 1 .. Len(P)}] :
       /\ \A k \in 1 .. Len(P) : ch[k] \in Candidates(P[k], tys)
       /\ \A k, m \in 1 .. Len(P) : k # m /\ ch[k] # Fresh => ch[k] # ch[m]
       /\ LET fresh == SelectSeq([k \in 1 .. Len(P) |-> IF ch[k] = Fresh THEN P[k].kind ELSE "-"],
                                 LAMBDA x : x # "-")
              args == [k \in 1 .. Len(P) |->
                         IF ch[k] = Fresh
                         THEN InputRef(Len(seq.inputs) + FreshBefore(ch, k))
                         ELSE ch[k]]
          IN seq' = [inputs |-> seq.inputs \o
                                  [n \in DOMAIN fresh |-> IF fresh[n] = "Pure" THEN "Pure" ELSE "Object"],
                     commands |-> Append(seq.commands,
                                  [kind |-> "Call", fn |-> f, tys |-> tys, args |-> args])]
  /\ UNCHANGED <<phase, saved>>

(***************************************************************************)
(* The cycle around an execution (spec-modelled order): balances are       *)
(* converted first, so that the coins they become are routed to the actor  *)
(* with the other key-store objects; removal undoes the two in reverse.    *)
(***************************************************************************)
ProcessBalance ==
  /\ phase = "Raw"
  /\ seq' = ConvertBalances(seq)
  /\ phase' = "Balanced"
  /\ saved' = Append(saved, seq)

ProcessKeyStore ==
  /\ phase = "Balanced"
  /\ seq' = RouteKeyStore(seq)
  /\ phase' = "Processed"
  /\ saved' = Append(saved, seq)

RemoveProcessKeyStore ==
  /\ phase = "Processed"
  /\ seq' = PopRoute(seq)
  /\ phase' = "Unrouted"
  /\ saved' = Front(saved)

RemoveProcessBalance ==
  /\ phase = "Unrouted"
  /\ seq' = [seq EXCEPT !.commands = StripFromBalance(@)]
  /\ phase' = "Raw"
  /\ saved' = Front(saved)

Init ==
  /\ seq = [inputs |-> <<>>, commands |-> <<>>]
  /\ phase = "Raw"
  /\ saved = <<>>

Next ==
  \/ \E f \in UserFunctions : AppendCall(f)
  \/ ProcessBalance \/ ProcessKeyStore
  \/ RemoveProcessKeyStore \/ RemoveProcessBalance

Spec == Init /\ [][Next]_vars

(***************************************************************************)
(* Properties.                                                             *)
(***************************************************************************)
Token == [kind : Kinds, tparam : -1 .. 3, coin : CoinTypes \cup {"none"}]
\* SequenceArgument indices are u16.
U16 == 0 .. 65535
Ref == [src : {"Input", "Result"}, i : U16] \cup [src : {"Nested"}, i : U16, j : U16]

TypeOK ==
  /\ seq.inputs \in Seq({"Pure", "Object", "Attacker"})
  /\ \A p \in DOMAIN seq.commands :
       LET c == seq.commands[p] IN
       \/ c.kind = "Call" /\ c.fn \in Functions /\ c.tys \in Seq(CoinTypes)
          /\ c.args \in Seq(Ref)
       \/ c.kind = "Transfer" /\ c.objs \in Seq(Ref) /\ c.to \in Ref
  /\ phase \in {"Raw", "Balanced", "Processed", "Unrouted"}
  /\ Len(saved) \in 0 .. 2

\* A reference r used by the command at 0-based position k is resolvable.
RefOK(r, k) ==
  \/ r.src = "Input" /\ r.i < Len(seq.inputs)
  \/ /\ r.src \in {"Result", "Nested"}
     /\ r.i < k
     /\ seq.commands[r.i + 1].kind = "Call"
     /\ LET n == Len(Returns[seq.commands[r.i + 1].fn])
        IN IF r.src = "Result" THEN n = 1 ELSE r.j < n

\* Every argument reference of every command resolves (spec section 8): a
\* Result or NestedResult names a strictly earlier call that has that
\* return value, and an Input names an existing input; through appends,
\* both transforms and both removals.
RefsWellFormed ==
  \A p \in DOMAIN seq.commands : \A r \in Uses(seq.commands[p]) : RefOK(r, p - 1)

\* The token a resolvable result reference stands for, and its type.
RefToken(r) ==
  Returns[seq.commands[r.i + 1].fn][IF r.src = "Result" THEN 1 ELSE r.j + 1]
RefType(r) == TokType(RefToken(r), seq.commands[r.i + 1].tys)

\* Every Balance<T> parameter of every call, from_balance calls included,
\* receives a balance whose coin type is the T declared after substituting
\* the call's own type arguments (spec section 3, SequenceArgument).
WellTyped ==
  \A p \in DOMAIN seq.commands :
    LET c == seq.commands[p] IN
    c.kind = "Call" =>
      \A k \in DOMAIN c.args :
        Params[c.fn][k].kind = "Balance" =>
          /\ c.args[k].src \in {"Result", "Nested"}
          /\ RefToken(c.args[k]).kind = "Balance"
          /\ RefType(c.args[k]) = TokType(Params[c.fn][k], c.tys)

\* remove_process_key_store undoes process_key_store exactly (spec 8).
KeyStoreRoundTrip == [][RemoveProcessKeyStore => seq' = Last(saved)]_vars

\* remove_process_balance undoes process_balance exactly, for a sequence
\* with at least one convertible balance result (spec 8): the sequence
\* process_balance was given, Last(saved) here, comes back.
BalanceRoundTrip ==
  [][RemoveProcessBalance /\ Balances(Last(saved).commands) # <<>>
       => seq' = Last(saved)]_vars

=============================================================================
