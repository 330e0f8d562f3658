--------------------------- MODULE PreflightProps ---------------------------
(***************************************************************************)
(* What the preflight's report promises.  It is compared with the contract *)
(* that would have been constructed there, and with what the client later  *)
(* demands of the same release: three lists of rules, in three files, that *)
(* must accept each other's deployments.                                   *)
(***************************************************************************)
EXTENDS Preflight

CONSTANT Arguments  \* what an escrow may be constructed with

(* The constructors of the kernel and of the pausable release. *)
ConstructorAccepts(args, hasCode) ==
    /\ args.canonicalToken \in hasCode \ {ZeroAddress, Escrow}
    /\ args.resolver # ZeroAddress
    /\ args.arbiter # ZeroAddress
    /\ args.resolver # args.arbiter
    /\ args.tokenDecimals <= 18
    /\ args.resolver \notin {args.canonicalToken, Escrow}
    /\ args.arbiter \notin {args.canonicalToken, Escrow}
    /\ args.pauser # ZeroAddress
    /\ args.pauser \notin {Escrow, args.canonicalToken, args.resolver, args.arbiter}

(* What they leave behind: the immutables, wherever the code holds them,   *)
(* and the event, whose strings the compiler lays out canonically.         *)
Immutable(args, name) ==
    IF name = "releaseId" THEN computeReleaseId(ChainId, Escrow) ELSE args[name]

Runtime(args) ==
    [bytes |-> RuntimeBytes, rest |-> RuntimeRest,
     slots |-> [p \in UNION {Groups[name] : name \in Immutables} |->
                   Immutable(args, CHOOSE name \in Immutables : p \in Groups[name])]]

(* Arguments have the types of the ABI, and a runtime is a runtime. *)
ASSUME ArgumentAssumption ==
    \A args \in Arguments :
        /\ {args.canonicalToken, args.resolver, args.arbiter, args.pauser} \subseteq Addresses
        /\ ValidBool(args.initialPaused)
        /\ Runtime(args) # None

ReleaseDeclared(args, block) ==
    [block |-> block,
     data  |-> [releaseId |-> computeReleaseId(ChainId, Escrow),
                offsets |-> <<12, 14, 16, 18>>, lengths |-> <<1, 1, 1, 1>>, words |-> 20,
                strings |-> <<Version, Version, Version, Version>>,
                chainId |-> ChainId, escrowContract |-> Escrow,
                canonicalToken |-> args.canonicalToken,
                tokenDecimals |-> args.tokenDecimals, valueMode |-> 0,
                resolver |-> args.resolver, arbiter |-> args.arbiter,
                initialPaused |-> args.initialPaused]]

(* The getters afterwards; only pause status and liability ever change.    *)
Getters(args, paused, liability) ==
    [name \in {GETTERS[i] : i \in 1..Len(GETTERS)} |->
        IF name \in VersionGetters THEN Version
        ELSE IF name \in Immutables THEN Immutable(args, name)
        ELSE IF name = "paused" THEN paused ELSE liability]

-----------------------------------------------------------------------------
(* The client's rules *)

(* decodeReleaseDeclared of events.ts *)
decodeReleaseDeclared(data) ==
    /\ CanonicalLayout(data)
    /\ {data.escrowContract, data.canonicalToken, data.resolver, data.arbiter}
         \subseteq Addresses \ {ZeroAddress}
    /\ data.tokenDecimals <= 18
    /\ data.valueMode = 0
    /\ ValidBool(data.initialPaused)
    /\ data.chainId > 0
    /\ \A i \in 1..4 : data.strings[i] = Version
    /\ data.escrowContract = Escrow
    /\ FourDistinct(data)

(* readReleaseSnapshot of index.ts *)
readReleaseSnapshot(values) ==
    LET roles == {Escrow, values.canonicalToken, values.resolver, values.arbiter,
                  values.pauser}
    IN  /\ \A name \in VersionGetters : values[name] = Version
        /\ values.tokenDecimals \in 0..18
        /\ ValidBool(values.paused)
        /\ values.totalOutstandingLiability \in Nat
        /\ roles \subseteq Addresses \ {ZeroAddress}
        /\ Cardinality(roles) = 5

-----------------------------------------------------------------------------
(* Safety *)

Ok == inspection.at = "ok"

(* A report describes the state of its one snapshot block, whichever       *)
(* branches left or returned while the answers were collected:             *)
(* the code that is deployed there uses the reported identities at every   *)
(* place, and status and liability are those of that state.                *)
ReportFromSnapshot ==
    Ok =>
    LET code    == Code[inspection.header]
        state   == Answers[inspection.header]
        release == inspection.log.data
    IN  /\ code # None /\ code.bytes = RuntimeBytes /\ code.rest = RuntimeRest
        /\ \A name \in {"releaseId", "canonicalToken", "tokenDecimals", "resolver", "arbiter"} :
             /\ release[name] = state[name]
             /\ \A p \in Groups[name] : code.slots[p] = release[name]
        /\ \A p \in Groups["pauser"] : code.slots[p] = inspection.current.pauser
        /\ \A name \in DOMAIN inspection.current : inspection.current[name] = state[name]
        /\ release.canonicalToken \in HasCode[inspection.header]

(* Unless a block that left has come back, the reported declaration is the *)
(* only one on the snapshot's branch since the configured block, and it is *)
(* in that block.                                                          *)
OnlyRelease ==
    Ok /\ ~returned =>
        /\ Number[inspection.log.block] = plan.deploymentBlock
        /\ UNION {Emitted[b] : b \in {c \in Branch[inspection.header] :
                                        Number[c] >= plan.deploymentBlock}}
             = {inspection.log}

(* A reported release is one that the constructors could have made, and    *)
(* that the client supports: it decodes the event and reads the snapshot.  *)
SupportedRelease ==
    Ok =>
    LET release == inspection.log.data IN
    /\ ConstructorAccepts([canonicalToken |-> release.canonicalToken,
                           tokenDecimals |-> release.tokenDecimals,
                           resolver |-> release.resolver,
                           arbiter |-> release.arbiter,
                           pauser |-> inspection.current.pauser],
                          HasCode[inspection.header])
    /\ decodeReleaseDeclared(release)
    /\ readReleaseSnapshot(Answers[inspection.header])

(* The escrow was constructed at the configured block of this chain, with  *)
(* arguments that the constructors accept.                                 *)
Constructed(args) ==
    \E d \in Branch[chain] :
        LET later == {b \in Branch[chain] : Number[b] >= Number[d]} IN
        /\ Number[d] = plan.deploymentBlock
        /\ Testnets[plan.network] = ChainId
        /\ UNION {Emitted[b] : b \in later} = {ReleaseDeclared(args, d)}
        /\ \A b \in later :
             /\ ConstructorAccepts(args, HasCode[b])
             /\ Code[b] = Runtime(args)
             /\ ValidBool(Answers[b].paused)
             /\ Answers[b] = Getters(args, Answers[b].paused,
                                     Answers[b].totalOutstandingLiability)

(* Such a deployment is never refused: while the chain only grows, every   *)
(* read has an answer, and every answer passes.                            *)
GenuineNeverRefused ==
    InFlight /\ departed = {} /\ (\E args \in Arguments : Constructed(args))
        => ENABLED Proceeds
=============================================================================
