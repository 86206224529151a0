--------------------------- MODULE OnchainPrimitives ---------------------------
(***************************************************************************)
(* SuiOnchainArguments::resolve_onchain_primitives (movy/src/sui/utils.rs):*)
(* the checkpoint, epoch and epoch start a fork is built at.  Given all    *)
(* three, they are taken as they are; otherwise the arguments are checked, *)
(* and the missing values are read from the GraphQL client in two awaited *)
(* queries, the checkpoint (the one given, or the latest) and then the     *)
(* epoch of that checkpoint.  The chain goes on producing checkpoints      *)
(* while the function awaits, and either query may fail.                   *)
(***************************************************************************)
EXTENDS Integers

CONSTANTS
    MaxCkpt,      \* the last checkpoint the chain reaches in the model
    EpochOf,      \* [0..MaxCkpt -> epochs]: a checkpoint's epoch, non-decreasing
    EpochStart,   \* [epochs -> timestamps]: an epoch's start
    NoArg         \* an absent Option

Ckpts == 0 .. MaxCkpt
Epochs == {EpochOf[c] : c \in Ckpts}
Arg(S) == S \cup {NoArg}

VARIABLES
    args,     \* [checkpoint, epoch, epoch_ms]: the command-line Options
    gql,      \* a GraphQL client was given
    tip,      \* the latest checkpoint of the chain
    pc,       \* "start", "ckpt" (awaiting query_checkpoint), "epoch", "done"
    summary,  \* the checkpoint summary read: [sequence_number, epoch]
    result    \* [ok |-> TRUE, prim] or [ok |-> FALSE, err]
vars == <<args, gql, tip, pc, summary, result>>

Given(x) == x # NoArg

(* Mutant form: the epoch and its start copied into each other's field.    *)
Ok_Swapped(c, e, ms) == [ok |-> TRUE, prim |-> [checkpoint |-> c, epoch |-> ms, epoch_ms |-> e]]

Ok(c, e, ms) == [ok |-> TRUE, prim |-> [checkpoint |-> c, epoch |-> e, epoch_ms |-> ms]]
Err(why) == [ok |-> FALSE, err |-> why]
Query == [query |-> TRUE]

(* Mutant form: the client is required before the arguments are checked.   *)
ResolveArgs_GqlFirst(a, g) ==
    CASE Given(a.checkpoint) /\ Given(a.epoch) /\ Given(a.epoch_ms)
                -> Ok(a.checkpoint, a.epoch, a.epoch_ms)
      [] ~g -> Err("no rpc")
      [] Given(a.epoch) # Given(a.epoch_ms) -> Err("epoch without epoch_ms")
      [] ~Given(a.checkpoint) /\ Given(a.epoch) -> Err("epoch without checkpoint")
      [] OTHER -> Query

(* The synchronous part: all given, or one of the argument errors, or no    *)
(* client; Query when the values have to be read.                         *)
ResolveArgs(a, g) ==
    CASE Given(a.checkpoint) /\ Given(a.epoch) /\ Given(a.epoch_ms)
                -> Ok(a.checkpoint, a.epoch, a.epoch_ms)
      [] Given(a.epoch) # Given(a.epoch_ms) -> Err("epoch without epoch_ms")
      [] ~Given(a.checkpoint) /\ Given(a.epoch) -> Err("epoch without checkpoint")
      [] ~g -> Err("no rpc")
      [] OTHER -> Query

Init ==
    /\ args \in [checkpoint : Arg(Ckpts \cup {MaxCkpt + 1}),
                 epoch : Arg(Epochs), epoch_ms : Arg({EpochStart[e] : e \in Epochs})]
    /\ gql \in BOOLEAN
    /\ tip \in Ckpts
    /\ pc = "start"
    /\ summary = NoArg
    /\ result = NoArg

Resolve ==
    /\ pc = "start"
    /\ LET r == ResolveArgs(args, gql)
       IN IF r = Query THEN pc' = "ckpt" /\ UNCHANGED result
          ELSE pc' = "done" /\ result' = r
    /\ UNCHANGED <<args, gql, tip, summary>>

(* Mutant form: the latest checkpoint is read even when one was given.     *)
CheckpointAsked_Latest(a) == tip

(* query_checkpoint(Some(ckpt)) or query_checkpoint(None): the checkpoint   *)
(* the answer is about, if the chain has it.                                *)
CheckpointAsked(a) == IF Given(a.checkpoint) THEN a.checkpoint ELSE tip

(* The first await: the query fails, finds no such checkpoint ("not        *)
(* present"), or returns its summary.                                       *)
QueryCheckpoint ==
    /\ pc = "ckpt"
    /\ LET c == CheckpointAsked(args)
       IN \/ pc' = "done" /\ result' = Err("query") /\ UNCHANGED summary
          \/ /\ c > tip
             /\ pc' = "done" /\ result' = Err("not present") /\ UNCHANGED summary
          \/ /\ c <= tip
             /\ summary' = [sequence_number |-> c, epoch |-> EpochOf[c]]
             /\ pc' = "epoch" /\ UNCHANGED result
    /\ UNCHANGED <<args, gql, tip>>

(* Mutant form: the epoch asked for is that of the chain's tip.            *)
EpochAsked_Tip(s) == EpochOf[tip]

EpochAsked(s) == s.epoch

(* The second await: query_epoches(vec![summary.epoch]) fails, or the      *)
(* primitives are the summary's and the epoch's start.                      *)
QueryEpoch ==
    /\ pc = "epoch"
    /\ pc' = "done"
    /\ \/ result' = Err("query")
       \/ result' = Ok(summary.sequence_number, EpochAsked(summary),
                       EpochStart[EpochAsked(summary)])
    /\ UNCHANGED <<args, gql, tip, summary>>

(* The chain produces a checkpoint while the function runs.                *)
Advance ==
    /\ pc # "done" /\ tip < MaxCkpt
    /\ tip' = tip + 1
    /\ UNCHANGED <<args, gql, pc, summary, result>>

Next == Resolve \/ QueryCheckpoint \/ QueryEpoch \/ Advance
Spec == Init /\ [][Next]_vars


-----------------------------------------------------------------------------
(* Properties.                                                             *)

TypeOK ==
    /\ gql \in BOOLEAN
    /\ tip \in Ckpts
    /\ pc \in {"start", "ckpt", "epoch", "done"}
    /\ summary \in {NoArg} \cup [sequence_number : Ckpts, epoch : Epochs]
    /\ result \in {NoArg}
                \cup [ok : {TRUE}, prim : [checkpoint : Ckpts \cup {MaxCkpt + 1},
                                          epoch : Epochs,
                                          epoch_ms : {EpochStart[e] : e \in Epochs}]]
                \cup [ok : {FALSE}, err : {"epoch without epoch_ms", "epoch without checkpoint",
                                          "no rpc", "query", "not present"}]
    /\ (pc = "done") = (result # NoArg)

AllGiven == Given(args.checkpoint) /\ Given(args.epoch) /\ Given(args.epoch_ms)

(* A value given on the command line is the value returned: an Ok result   *)
(* never replaces the user's checkpoint by the latest one, nor the user's  *)
(* epoch and start by queried ones.                                         *)
GivenArgumentsKept ==
    result # NoArg /\ result.ok =>
        \A f \in {"checkpoint", "epoch", "epoch_ms"} :
            Given(args[f]) => result.prim[f] = args[f]

(* Values read from the chain agree with each other and with the chain at  *)
(* the time of return, although the tip may move between the two awaits:   *)
(* the epoch is the checkpoint's, the start the epoch's, and the           *)
(* checkpoint one the chain has.                                            *)
InferredConsistent ==
    result # NoArg /\ result.ok /\ ~AllGiven =>
        /\ result.prim.checkpoint <= tip
        /\ result.prim.epoch = EpochOf[result.prim.checkpoint]
        /\ result.prim.epoch_ms = EpochStart[result.prim.epoch]

(* An argument error is returned exactly for a combination the function    *)
(* rejects, whether or not a client was given: epoch without epoch_ms or   *)
(* the other way round, or an epoch without a checkpoint.                  *)
ArgumentErrorsExact ==
    result # NoArg =>
        ((~result.ok /\ result.err \in {"epoch without epoch_ms", "epoch without checkpoint"})
            <=> (Given(args.epoch) # Given(args.epoch_ms)
                 \/ (~Given(args.checkpoint) /\ Given(args.epoch))))


=============================================================================
