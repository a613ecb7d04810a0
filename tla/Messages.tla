------------------------------ MODULE Messages ------------------------------
(***************************************************************************)
(* The messages of the generated protobuf code, each described three       *)
(* times, as in the source: the fields its Unmarshal knows, the bytes its  *)
(* MarshalToSizedBuffer writes with their tags, and what its Size adds up. *)
(*                                                                         *)
(* A message is a record of its fields.  A pointer is a sequence of at     *)
(* most one element, empty for nil; bytes and strings are sequences of     *)
(* bytes; a duration and a message of another package ("external") are the *)
(* bytes of their encoding.                                                *)
(***************************************************************************)
EXTENDS Wire

\* A case of the switch on the field number: what it reads, into which field; of is
\* the kind of the nested message.
Field(num, name, kind, of) == [num |-> num, name |-> name, kind |-> kind, of |-> of]

Uint64(num, name) == Field(num, name, "uint64", "")
Uint32(num, name) == Field(num, name, "uint32", "")
Bool(num, name) == Field(num, name, "bool", "")
Bytes(num, name) == Field(num, name, "bytes", "")
BytesList(num, name) == Field(num, name, "bytes list", "")
Duration(num, name) == Field(num, name, "duration", "external")
External(num, name) == Field(num, name, "external", "external")
Message(num, name, of) == Field(num, name, "message", of)
MessageList(num, name, of) == Field(num, name, "message list", of)
Map(num, name) == Field(num, name, "map", "MapEntry")

\* The encoding of an external message, and its size.
Own(bytes) == bytes
OwnSize(bytes) == Len(bytes)

-----------------------------------------------------------------------------
(* Unmarshal: the cases of the switch on the field number.                 *)

L1ConfigFields ==
  {Bytes(1, "GenesisValidatorsRoot"),
   Uint64(2, "MinSyncCommitteeParticipants"),
   Uint64(3, "GenesisTime"),
   External(4, "ForkParameters"),
   Uint64(5, "SecondsPerSlot"),
   Uint64(6, "SlotsPerEpoch"),
   Uint64(7, "EpochsPerSyncCommitteePeriod"),
   External(8, "TrustLevel"),
   Duration(9, "TrustingPeriod"),
   Duration(10, "MaxClockDrift")}

FaultDisputeGameConfigFields ==
  {Bytes(1, "DisputeGameFactoryAddress"),
   Uint32(2, "DisputeGameFactoryTargetStorageSlot"),
   Uint32(3, "FaultDisputeGameStatusSlot"),
   Uint32(4, "FaultDisputeGameStatusSlotOffset"),
   Uint32(5, "FaultDisputeGameCreatedAtSlotOffset"),
   Uint32(6, "StatusDefenderWin")}

ClientStateFields ==
  {Uint64(1, "ChainId"),
   Bytes(2, "IbcStoreAddress"),
   Bytes(3, "IbcCommitmentsSlot"),
   External(4, "LatestHeight"),
   Bool(5, "Frozen"),
   Message(6, "L1Config", "L1Config"),
   Message(7, "FaultDisputeGameConfig", "FaultDisputeGameConfig")}

L1HeaderFields ==
  {External(1, "TrustedSyncCommittee"),
   External(2, "ConsensusUpdate"),
   External(3, "ExecutionUpdate")}

\* Faulty variant (RoundTrip): the two output roots are read the wrong way round.
DerivationFieldsSwapped ==
  {Bytes(1, "L2OutputRoot"),
   Bytes(2, "AgreedL2OutputRoot"),
   Uint64(3, "L2BlockNumber")}

DerivationFields ==
  {Bytes(1, "AgreedL2OutputRoot"),
   Bytes(2, "L2OutputRoot"),
   Uint64(3, "L2BlockNumber")}

HeaderFields ==
  {External(1, "TrustedHeight"),
   External(2, "AccountUpdate"),
   Message(3, "Derivation", "Derivation"),
   Bytes(4, "Preimages"),
   MessageList(5, "TrustedToDeterministic", "L1Header"),
   MessageList(6, "DeterministicToLatest", "L1Header")}

ConsensusStateFields ==
  {Bytes(1, "StorageRoot"),
   Uint64(2, "Timestamp"),
   Bytes(3, "OutputRoot"),
   Uint64(4, "L1Slot"),
   Bytes(5, "L1CurrentSyncCommittee"),
   Bytes(6, "L1NextSyncCommittee"),
   Uint64(7, "L1Timestamp"),
   Uint64(8, "L1Origin")}

FaultDisputeGameProofFields ==
  {Bytes(1, "StateRoot"),
   External(3, "DisputeGameFactoryAccount"),
   Bytes(4, "DisputeGameFactoryGameIdProof"),
   External(5, "FaultDisputeGameAccount"),
   Bytes(6, "FaultDisputeGameGameStatusProof"),
   Uint64(7, "FaultDisputeGameSourceGameType")}

MisbehaviourFields ==
  {Bytes(1, "ClientId"),
   External(2, "TrustedHeight"),
   Bytes(3, "SuperRootProof"),
   Message(4, "FaultDisputeGameProof", "FaultDisputeGameProof"),
   Message(5, "LatestL1Header", "L1Header"),
   External(6, "FirstL2ToL1MessagePasserAccount"),
   External(7, "LastL2ToL1MessagePasserAccount"),
   BytesList(8, "L2HeaderHistory"),
   Message(9, "SubmittedL1Proof", "FaultDisputeGameProof"),
   BytesList(10, "L1HeaderHistory")}

FinalizedHeaderMisbehaviourFields ==
  {Bytes(1, "ClientId"),
   External(2, "TrustedSyncCommittee"),
   External(3, "ConsensusUpdate_1"),
   External(4, "ConsensusUpdate_2")}

NextSyncCommitteeMisbehaviourFields ==
  {Bytes(1, "ClientId"),
   External(2, "TrustedSyncCommittee"),
   External(3, "ConsensusUpdate_1"),
   External(4, "ConsensusUpdate_2")}

ProverConfigFields ==
  {Duration(1, "TrustingPeriod"),
   Duration(2, "MaxClockDrift"),
   External(3, "RefreshThresholdRate"),
   Bytes(4, "OpNodeEndpoint"),
   Bytes(5, "L1ExecutionEndpoint"),
   Bytes(6, "L1BeaconEndpoint"),
   Bytes(7, "PreimageMakerEndpoint"),
   Duration(8, "OpNodeTimeout"),
   Duration(9, "PreimageMakerTimeout"),
   Map(10, "MinimalForkSched"),
   Uint64(11, "MaxHeaderConcurrency"),
   Bytes(12, "DisputeGameFactoryAddress")}

-----------------------------------------------------------------------------
(* MarshalToSizedBuffer, here in the order of the bytes; the code writes   *)
(* the fields backwards from the end of the buffer.                        *)

MarshalL1Config(m) ==
  BytesField(\h0a, m.GenesisValidatorsRoot)
  \o UintField(\h10, m.MinSyncCommitteeParticipants)
  \o UintField(\h18, m.GenesisTime)
  \o MessageField(\h22, m.ForkParameters, Own)
  \o UintField(\h28, m.SecondsPerSlot)
  \o UintField(\h30, m.SlotsPerEpoch)
  \o UintField(\h38, m.EpochsPerSyncCommitteePeriod)
  \o MessageField(\h42, m.TrustLevel, Own)
  \o Delimited(\h4a, m.TrustingPeriod)
  \o Delimited(\h52, m.MaxClockDrift)

MarshalFaultDisputeGameConfig(m) ==
  BytesField(\h0a, m.DisputeGameFactoryAddress)
  \o UintField(\h10, m.DisputeGameFactoryTargetStorageSlot)
  \o UintField(\h18, m.FaultDisputeGameStatusSlot)
  \o UintField(\h20, m.FaultDisputeGameStatusSlotOffset)
  \o UintField(\h28, m.FaultDisputeGameCreatedAtSlotOffset)
  \o UintField(\h30, m.StatusDefenderWin)

MarshalClientState(m) ==
  UintField(\h08, m.ChainId)
  \o BytesField(\h12, m.IbcStoreAddress)
  \o BytesField(\h1a, m.IbcCommitmentsSlot)
  \o MessageField(\h22, m.LatestHeight, Own)
  \o BoolField(\h28, m.Frozen)
  \o MessageField(\h32, m.L1Config, MarshalL1Config)
  \o MessageField(\h3a, m.FaultDisputeGameConfig, MarshalFaultDisputeGameConfig)

MarshalL1Header(m) ==
  MessageField(\h0a, m.TrustedSyncCommittee, Own)
  \o MessageField(\h12, m.ConsensusUpdate, Own)
  \o MessageField(\h1a, m.ExecutionUpdate, Own)

MarshalDerivation(m) ==
  BytesField(\h0a, m.AgreedL2OutputRoot)
  \o BytesField(\h12, m.L2OutputRoot)
  \o UintField(\h18, m.L2BlockNumber)

MarshalHeader(m) ==
  MessageField(\h0a, m.TrustedHeight, Own)
  \o MessageField(\h12, m.AccountUpdate, Own)
  \o MessageField(\h1a, m.Derivation, MarshalDerivation)
  \o BytesField(\h22, m.Preimages)
  \o MessageField(\h2a, m.TrustedToDeterministic, MarshalL1Header)
  \o MessageField(\h32, m.DeterministicToLatest, MarshalL1Header)

MarshalConsensusState(m) ==
  BytesField(\h0a, m.StorageRoot)
  \o UintField(\h10, m.Timestamp)
  \o BytesField(\h1a, m.OutputRoot)
  \o UintField(\h20, m.L1Slot)
  \o BytesField(\h2a, m.L1CurrentSyncCommittee)
  \o BytesField(\h32, m.L1NextSyncCommittee)
  \o UintField(\h38, m.L1Timestamp)
  \o UintField(\h40, m.L1Origin)

MarshalFaultDisputeGameProof(m) ==
  BytesField(\h0a, m.StateRoot)
  \o MessageField(\h1a, m.DisputeGameFactoryAccount, Own)
  \o BytesField(\h22, m.DisputeGameFactoryGameIdProof)
  \o MessageField(\h2a, m.FaultDisputeGameAccount, Own)
  \o BytesField(\h32, m.FaultDisputeGameGameStatusProof)
  \o UintField(\h38, m.FaultDisputeGameSourceGameType)

MarshalMisbehaviour(m) ==
  BytesField(\h0a, m.ClientId)
  \o MessageField(\h12, m.TrustedHeight, Own)
  \o BytesField(\h1a, m.SuperRootProof)
  \o MessageField(\h22, m.FaultDisputeGameProof, MarshalFaultDisputeGameProof)
  \o MessageField(\h2a, m.LatestL1Header, MarshalL1Header)
  \o MessageField(\h32, m.FirstL2ToL1MessagePasserAccount, Own)
  \o MessageField(\h3a, m.LastL2ToL1MessagePasserAccount, Own)
  \o Delimiteds(\h42, m.L2HeaderHistory)
  \o MessageField(\h4a, m.SubmittedL1Proof, MarshalFaultDisputeGameProof)
  \o Delimiteds(\h52, m.L1HeaderHistory)

MarshalFinalizedHeaderMisbehaviour(m) ==
  BytesField(\h0a, m.ClientId)
  \o MessageField(\h12, m.TrustedSyncCommittee, Own)
  \o MessageField(\h1a, m.ConsensusUpdate_1, Own)
  \o MessageField(\h22, m.ConsensusUpdate_2, Own)

MarshalNextSyncCommitteeMisbehaviour(m) ==
  BytesField(\h0a, m.ClientId)
  \o MessageField(\h12, m.TrustedSyncCommittee, Own)
  \o MessageField(\h1a, m.ConsensusUpdate_1, Own)
  \o MessageField(\h22, m.ConsensusUpdate_2, Own)

\* The order is that in which the loop over the map meets its keys.
MarshalProverConfig(m, order) ==
  Delimited(\h0a, m.TrustingPeriod)
  \o Delimited(\h12, m.MaxClockDrift)
  \o MessageField(\h1a, m.RefreshThresholdRate, Own)
  \o BytesField(\h22, m.OpNodeEndpoint)
  \o BytesField(\h2a, m.L1ExecutionEndpoint)
  \o BytesField(\h32, m.L1BeaconEndpoint)
  \o BytesField(\h3a, m.PreimageMakerEndpoint)
  \o Delimited(\h42, m.OpNodeTimeout)
  \o Delimited(\h4a, m.PreimageMakerTimeout)
  \o MapField(\h52, m.MinimalForkSched, order)
  \o UintField(\h58, m.MaxHeaderConcurrency)
  \o BytesField(\h62, m.DisputeGameFactoryAddress)

-----------------------------------------------------------------------------
(* Size.                                                                   *)

SizeL1Config(m) ==
  BytesSize(m.GenesisValidatorsRoot) + UintSize(m.MinSyncCommitteeParticipants)
  + UintSize(m.GenesisTime) + DelimitedsSize(m.ForkParameters, OwnSize)
  + UintSize(m.SecondsPerSlot) + UintSize(m.SlotsPerEpoch)
  + UintSize(m.EpochsPerSyncCommitteePeriod) + DelimitedsSize(m.TrustLevel, OwnSize)
  + DelimitedSize(Len(m.TrustingPeriod)) + DelimitedSize(Len(m.MaxClockDrift))

SizeFaultDisputeGameConfig(m) ==
  BytesSize(m.DisputeGameFactoryAddress) + UintSize(m.DisputeGameFactoryTargetStorageSlot)
  + UintSize(m.FaultDisputeGameStatusSlot) + UintSize(m.FaultDisputeGameStatusSlotOffset)
  + UintSize(m.FaultDisputeGameCreatedAtSlotOffset) + UintSize(m.StatusDefenderWin)

SizeClientState(m) ==
  UintSize(m.ChainId) + BytesSize(m.IbcStoreAddress) + BytesSize(m.IbcCommitmentsSlot)
  + DelimitedsSize(m.LatestHeight, OwnSize) + BoolSize(m.Frozen)
  + DelimitedsSize(m.L1Config, SizeL1Config)
  + DelimitedsSize(m.FaultDisputeGameConfig, SizeFaultDisputeGameConfig)

SizeL1Header(m) ==
  DelimitedsSize(m.TrustedSyncCommittee, OwnSize) + DelimitedsSize(m.ConsensusUpdate, OwnSize)
  + DelimitedsSize(m.ExecutionUpdate, OwnSize)

SizeDerivation(m) ==
  BytesSize(m.AgreedL2OutputRoot) + BytesSize(m.L2OutputRoot) + UintSize(m.L2BlockNumber)

\* Faulty variant (SizeExact): the same slice is counted twice.
SizeHeaderTwice(m) ==
  DelimitedsSize(m.TrustedHeight, OwnSize) + DelimitedsSize(m.AccountUpdate, OwnSize)
  + DelimitedsSize(m.Derivation, SizeDerivation) + BytesSize(m.Preimages)
  + DelimitedsSize(m.TrustedToDeterministic, SizeL1Header)
  + DelimitedsSize(m.TrustedToDeterministic, SizeL1Header)

SizeHeader(m) ==
  DelimitedsSize(m.TrustedHeight, OwnSize) + DelimitedsSize(m.AccountUpdate, OwnSize)
  + DelimitedsSize(m.Derivation, SizeDerivation) + BytesSize(m.Preimages)
  + DelimitedsSize(m.TrustedToDeterministic, SizeL1Header)
  + DelimitedsSize(m.DeterministicToLatest, SizeL1Header)

SizeConsensusState(m) ==
  BytesSize(m.StorageRoot) + UintSize(m.Timestamp) + BytesSize(m.OutputRoot)
  + UintSize(m.L1Slot) + BytesSize(m.L1CurrentSyncCommittee)
  + BytesSize(m.L1NextSyncCommittee) + UintSize(m.L1Timestamp) + UintSize(m.L1Origin)

SizeFaultDisputeGameProof(m) ==
  BytesSize(m.StateRoot) + DelimitedsSize(m.DisputeGameFactoryAccount, OwnSize)
  + BytesSize(m.DisputeGameFactoryGameIdProof) + DelimitedsSize(m.FaultDisputeGameAccount, OwnSize)
  + BytesSize(m.FaultDisputeGameGameStatusProof) + UintSize(m.FaultDisputeGameSourceGameType)

SizeMisbehaviour(m) ==
  BytesSize(m.ClientId) + DelimitedsSize(m.TrustedHeight, OwnSize) + BytesSize(m.SuperRootProof)
  + DelimitedsSize(m.FaultDisputeGameProof, SizeFaultDisputeGameProof)
  + DelimitedsSize(m.LatestL1Header, SizeL1Header)
  + DelimitedsSize(m.FirstL2ToL1MessagePasserAccount, OwnSize)
  + DelimitedsSize(m.LastL2ToL1MessagePasserAccount, OwnSize)
  + DelimitedsSize(m.L2HeaderHistory, OwnSize)
  + DelimitedsSize(m.SubmittedL1Proof, SizeFaultDisputeGameProof)
  + DelimitedsSize(m.L1HeaderHistory, OwnSize)

SizeFinalizedHeaderMisbehaviour(m) ==
  BytesSize(m.ClientId) + DelimitedsSize(m.TrustedSyncCommittee, OwnSize)
  + DelimitedsSize(m.ConsensusUpdate_1, OwnSize) + DelimitedsSize(m.ConsensusUpdate_2, OwnSize)

SizeNextSyncCommitteeMisbehaviour(m) ==
  BytesSize(m.ClientId) + DelimitedsSize(m.TrustedSyncCommittee, OwnSize)
  + DelimitedsSize(m.ConsensusUpdate_1, OwnSize) + DelimitedsSize(m.ConsensusUpdate_2, OwnSize)

SizeProverConfig(m) ==
  DelimitedSize(Len(m.TrustingPeriod)) + DelimitedSize(Len(m.MaxClockDrift))
  + DelimitedsSize(m.RefreshThresholdRate, OwnSize) + BytesSize(m.OpNodeEndpoint)
  + BytesSize(m.L1ExecutionEndpoint) + BytesSize(m.L1BeaconEndpoint)
  + BytesSize(m.PreimageMakerEndpoint) + DelimitedSize(Len(m.OpNodeTimeout))
  + DelimitedSize(Len(m.PreimageMakerTimeout)) + MapSize(m.MinimalForkSched)
  + UintSize(m.MaxHeaderConcurrency) + BytesSize(m.DisputeGameFactoryAddress)
=============================================================================
