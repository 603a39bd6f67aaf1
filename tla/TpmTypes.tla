------------------------------ MODULE TpmTypes ------------------------------
(***************************************************************************)
(* The structures of tpm2-rs-base that have behaviour of their own when    *)
(* they are marshaled, as TpmMarshal's types.  The capacities are          *)
(* parameters; what the code computes from them is computed here too.      *)
(***************************************************************************)
EXTENDS TpmMarshal

CONSTANTS
  DigestSize,      \* TPM2_*_DIGEST_SIZE, by the algorithm
  MaxNvBuffer, MaxCapBuffer, NumPcrBanks, PcrSelectMax, MaxDigests,
  LabelMaxBuffer, MaxSymData, MaxEccKeyBytes, MaxSymKeyBytes, MaxRsaKeyBytes

HashAlgs == {"SHA1", "SHA256", "SHA384", "SHA512", "SM3256"}
ASSUME CapacityAssumption ==
  /\ DigestSize \in [HashAlgs -> Nat \ {0}]
  /\ {MaxNvBuffer, MaxCapBuffer, NumPcrBanks, PcrSelectMax, MaxDigests,
      LabelMaxBuffer, MaxSymData, MaxEccKeyBytes, MaxSymKeyBytes,
      MaxRsaKeyBytes} \subseteq 1 .. 65535
-----------------------------------------------------------------------------
(* Integers.                                                               *)

TpmAlgId ==
  [RSA |-> 1, SHA1 |-> 4, HMAC |-> 5, AES |-> 6, MGF1 |-> 7, KeyedHash |-> 8,
   XOR |-> 10, SHA256 |-> 11, SHA384 |-> 12, SHA512 |-> 13, Null |-> 16,
   SM3256 |-> 18, SM4 |-> 19, RSASSA |-> 20, RSAES |-> 21, RSAPSS |-> 22,
   OAEP |-> 23, ECDSA |-> 24, ECDH |-> 25, ECDAA |-> 26, SM2 |-> 27,
   ECSchnorr |-> 28, ECMQV |-> 29, KDF1SP80056A |-> 32, KDF2 |-> 33,
   KDF1SP800108 |-> 34, ECC |-> 35, SymCipher |-> 37, Camellia |-> 38]
TpmSt ==
  [AttestNV |-> 32788, AttestCommandAudit |-> 32789,
   AttestSessionAudit |-> 32790, AttestCertify |-> 32791,
   AttestQuote |-> 32792, AttestTime |-> 32793, AttestCreation |-> 32794]
TpmCap ==
  [Algs |-> 0, Handles |-> 1, Commands |-> 2, PPCommands |-> 3,
   AuditCommands |-> 4, PCRs |-> 5, TPMProperties |-> 6, PCRProperties |-> 7,
   ECCCurves |-> 8, AuthPolicies |-> 9]

U8 == Word(1)
U16Word == Word(2)
U32Word == Word(4)
U64 == Word(8)
TpmiAlgHash == Word(2)
TpmiAlgKdf == Word(2)
TpmiAlgSymMode == Word(2)
TpmiRhNvIndex == Word(4)
TpmiRhHierarchy == Word(4)
TpmiEccCurve == Word(2)
TpmiYesNo == Word(1)
KeyBits == Word(2)
TpmaNv == Word(4)
TpmaObject == Word(4)
TpmaCc == Word(4)
TpmaLocality == Word(1)
TpmHandle == Word(4)

\* The variants of an enum from pairs of a selector and the fields.
Variants(pairs) ==
  [s \in {p[1] : p \in pairs} |-> (CHOOSE p \in pairs : p[1] = s)[2]]
TpmsEmpty == Struct(<<>>)
-----------------------------------------------------------------------------
(* Hashes and blobs.                                                       *)

TpmtHa ==
  Enum(2, TpmAlgId.SHA1,
       Variants({<<TpmAlgId[a], <<Bytes(DigestSize[a])>>>> : a \in HashAlgs}))
Tpm2bDigest == Blob(UnionSize([a \in HashAlgs |-> Bytes(DigestSize[a])]))
Tpm2bData == Tpm2bDigest
Tpm2bName == Blob(UnionSize(<<TpmtHa, TpmHandle>>))
Tpm2bMaxNvBuffer == Blob(MaxNvBuffer)
Tpm2bLabel == Blob(LabelMaxBuffer)
TpmsDerive == Struct(<<Tpm2bLabel, Tpm2bLabel>>)
Tpm2bSensitiveData == Blob(UnionSize(<<Bytes(MaxSymData), TpmsDerive>>))
Tpm2bPublicKeyRsa == Blob(MaxRsaKeyBytes)
Tpm2bPrivateKeyRsa == Blob(MaxRsaKeyBytes \div 2)
Tpm2bEccParameter == Blob(MaxEccKeyBytes)
TpmsEccPoint == Struct(<<Tpm2bEccParameter, Tpm2bEccParameter>>)
Tpm2bSymKey == Blob(MaxSymKeyBytes)
Tpm2bPrivateVendorSpecific == Blob((MaxRsaKeyBytes \div 2) * (3 + 2))
-----------------------------------------------------------------------------
(* Lists.                                                                  *)

TpmsPcrSelection == Struct(<<TpmiAlgHash, U8, Counted(2, PcrSelectMax, U8)>>)
TpmsAlgProperty == Struct(<<Word(2), Word(4)>>)
TpmsTaggedProperty == Struct(<<Word(4), U32Word>>)
TpmsTaggedPcrSelect == Struct(<<Word(4), U8, Counted(2, PcrSelectMax, U8)>>)
TpmsTaggedPolicy == Struct(<<TpmHandle, TpmtHa>>)

Tpml(max, of) == Struct(<<U32Word, Counted(1, max, of)>>)
\* As many entries as a capability buffer holds next to its TpmCap and count.
MaxCap(of) == (MaxCapBuffer - 4 - 4) \div of.size
TpmlCapability(of) == Tpml(MaxCap(of), of)

TpmlPcrSelection == Tpml(NumPcrBanks, TpmsPcrSelection)
TpmlDigest == Tpml(MaxDigests, Tpm2bDigest)
TpmlAlgProperty == TpmlCapability(TpmsAlgProperty)
TpmlHandle == TpmlCapability(TpmHandle)
TpmlCca == TpmlCapability(TpmaCc)
TpmlCc == TpmlCapability(Word(4))
TpmlTaggedTpmProperty == TpmlCapability(TpmsTaggedProperty)
TpmlTaggedPcrProperty == TpmlCapability(TpmsTaggedPcrSelect)
TpmlEccCurve == TpmlCapability(Word(2))
TpmlTaggedPolicy == TpmlCapability(TpmsTaggedPolicy)

\* The only enum with a u32 selector; it has no Default.
TpmsCapabilityData ==
  Enum(4, TpmCap.Algs,
       Variants({<<TpmCap.Algs, <<TpmlAlgProperty>>>>,
                 <<TpmCap.Handles, <<TpmlHandle>>>>,
                 <<TpmCap.Commands, <<TpmlCca>>>>,
                 <<TpmCap.PPCommands, <<TpmlCc>>>>,
                 <<TpmCap.AuditCommands, <<TpmlCc>>>>,
                 <<TpmCap.PCRs, <<TpmlPcrSelection>>>>,
                 <<TpmCap.TPMProperties, <<TpmlTaggedTpmProperty>>>>,
                 <<TpmCap.PCRProperties, <<TpmlTaggedPcrProperty>>>>,
                 <<TpmCap.ECCCurves, <<TpmlEccCurve>>>>,
                 <<TpmCap.AuthPolicies, <<TpmlTaggedPolicy>>>>}))
-----------------------------------------------------------------------------
(* Attestation.                                                            *)

TpmsClockInfo == Struct(<<U64, U32Word, U32Word, TpmiYesNo>>)
TpmsQuoteInfo == Struct(<<TpmlPcrSelection, Tpm2bDigest>>)
TpmsCreationInfo == Struct(<<Tpm2bName, Tpm2bDigest>>)
TpmsCertifyInfo == Struct(<<Tpm2bName, Tpm2bName>>)
TpmsCommandAuditInfo == Struct(<<U64, U16Word, Tpm2bDigest, Tpm2bDigest>>)
TpmsSessionAuditInfo == Struct(<<TpmiYesNo, Tpm2bDigest>>)
TpmsTimeInfo == Struct(<<U64, TpmsClockInfo>>)
TpmsTimeAttestInfo == Struct(<<TpmsTimeInfo, U64>>)
TpmsNvCertifyInfo == Struct(<<Tpm2bName, U16Word, Tpm2bMaxNvBuffer>>)
TpmuAttest ==
  Enum(2, TpmSt.AttestNV,
       Variants({<<TpmSt.AttestCertify, <<TpmsCertifyInfo>>>>,
                 <<TpmSt.AttestCreation, <<TpmsCreationInfo>>>>,
                 <<TpmSt.AttestQuote, <<TpmsQuoteInfo>>>>,
                 <<TpmSt.AttestCommandAudit, <<TpmsCommandAuditInfo>>>>,
                 <<TpmSt.AttestSessionAudit, <<TpmsSessionAuditInfo>>>>,
                 <<TpmSt.AttestTime, <<TpmsTimeAttestInfo>>>>,
                 <<TpmSt.AttestNV, <<TpmsNvCertifyInfo>>>>}))
\* magic, then the selector, then the rest.
TpmsAttest ==
  Apart(1, <<Word(4), Tpm2bName, Tpm2bData, TpmsClockInfo, U64>>, TpmuAttest)
-----------------------------------------------------------------------------
(* Schemes and objects.                                                    *)

TpmsSchemeHash == Struct(<<TpmiAlgHash>>)
TpmsSchemeXor == Struct(<<TpmiAlgHash, TpmiAlgKdf>>)
TpmsSchemeEcdaa == Struct(<<TpmiAlgHash, U16Word>>)
TpmtKeyedHashScheme ==
  Enum(2, TpmAlgId.Null,
       Variants({<<TpmAlgId.HMAC, <<TpmsSchemeHash>>>>,
                 <<TpmAlgId.XOR, <<TpmsSchemeXor>>>>,
                 <<TpmAlgId.Null, <<TpmsEmpty>>>>}))
TpmtSymDefObject ==
  Enum(2, TpmAlgId.Null,
       Variants({<<alg, <<KeyBits, TpmiAlgSymMode>>>> :
                   alg \in {TpmAlgId.AES, TpmAlgId.SM4, TpmAlgId.Camellia}}
                \cup {<<TpmAlgId.XOR, <<TpmiAlgHash, TpmsEmpty>>>>,
                      <<TpmAlgId.Null, <<TpmsEmpty, TpmsEmpty>>>>}))
\* Most schemes have a hash for a parameter, ECDAA a count as well.
Scheme(hashed, ecdaa, empty) ==
  Enum(2, TpmAlgId.Null,
       Variants({<<TpmAlgId[a], <<TpmsSchemeHash>>>> : a \in hashed}
                \cup {<<TpmAlgId[a], <<TpmsSchemeEcdaa>>>> : a \in ecdaa}
                \cup {<<TpmAlgId[a], <<TpmsEmpty>>>> : a \in empty}))
Signing == {"RSASSA", "RSAPSS", "ECDSA", "SM2", "ECSchnorr"}
TpmtSigScheme == Scheme(Signing \cup {"HMAC"}, {"ECDAA"}, {"Null"})
TpmtRsaScheme == Scheme(Signing \cup {"OAEP"}, {"ECDAA"}, {"RSAES", "Null"})
TpmtEccScheme == Scheme(Signing \cup {"ECDH", "ECMQV"}, {"ECDAA"}, {"Null"})
TpmtAsymScheme ==
  Scheme(Signing \cup {"ECDH", "ECMQV", "OAEP"}, {"ECDAA"}, {"RSAES", "Null"})
TpmtKdfScheme ==
  Scheme({"MGF1", "KDF1SP80056A", "KDF2", "KDF1SP800108"}, {}, {"Null"})
TpmsSignatureRsa == Struct(<<TpmiAlgHash, Tpm2bPublicKeyRsa>>)
TpmsSignatureEcc ==
  Struct(<<TpmiAlgHash, Tpm2bEccParameter, Tpm2bEccParameter>>)
TpmtSignature ==
  Enum(2, TpmAlgId.Null,
       Variants({<<TpmAlgId[a], <<TpmsSignatureRsa>>>> : a \in {"RSASSA", "RSAPSS"}}
                \cup {<<TpmAlgId[a], <<TpmsSignatureEcc>>>> :
                        a \in {"ECDSA", "ECDAA", "SM2", "ECSchnorr"}}
                \cup {<<TpmAlgId.HMAC, <<TpmtHa>>>>,
                      <<TpmAlgId.Null, <<TpmsEmpty>>>>}))

TpmsKeyedHashParms == Struct(<<TpmtKeyedHashScheme>>)
TpmsSymCipherParms == Struct(<<TpmtSymDefObject>>)
TpmsRsaParms == Struct(<<TpmtSymDefObject, TpmtRsaScheme, KeyBits, U32Word>>)
TpmsEccParms ==
  Struct(<<TpmtSymDefObject, TpmtEccScheme, TpmiEccCurve, TpmtKdfScheme>>)
TpmsAsymParms == Struct(<<TpmtSymDefObject, TpmtAsymScheme>>)
PublicParmsAndId ==
  Enum(2, TpmAlgId.KeyedHash,
       Variants({<<TpmAlgId.KeyedHash, <<TpmsKeyedHashParms, Tpm2bDigest>>>>,
                 <<TpmAlgId.SymCipher, <<TpmsSymCipherParms, Tpm2bDigest>>>>,
                 <<TpmAlgId.RSA, <<TpmsRsaParms, Tpm2bPublicKeyRsa>>>>,
                 <<TpmAlgId.ECC, <<TpmsEccParms, TpmsEccPoint>>>>}))
\* The selector comes first of all.
TpmtPublic ==
  Apart(0, <<TpmiAlgHash, TpmaObject, Tpm2bDigest>>, PublicParmsAndId)
Tpm2bPublic == Blob(TpmtPublic.size)

TpmuSensitiveComposite ==
  Enum(2, TpmAlgId.Null,
       Variants({<<TpmAlgId.RSA, <<Tpm2bPrivateKeyRsa>>>>,
                 <<TpmAlgId.ECC, <<Tpm2bEccParameter>>>>,
                 <<TpmAlgId.KeyedHash, <<Tpm2bSensitiveData>>>>,
                 <<TpmAlgId.SymCipher, <<Tpm2bSymKey>>>>,
                 <<TpmAlgId.Null, <<Tpm2bPrivateVendorSpecific>>>>}))
TpmtSensitive == Apart(0, <<Tpm2bDigest, Tpm2bDigest>>, TpmuSensitiveComposite)
TpmsSensitiveCreate == Struct(<<Tpm2bDigest, Tpm2bSensitiveData>>)
Tpm2bSensitiveCreate == Blob(TpmsSensitiveCreate.size)
TpmsIdObject == Struct(<<Tpm2bDigest, Tpm2bDigest>>)
TpmsNvPublic ==
  Struct(<<TpmiRhNvIndex, TpmiAlgHash, TpmaNv, Tpm2bDigest, U16Word>>)
TpmsCreationData ==
  Struct(<<TpmlPcrSelection, Tpm2bDigest, TpmaLocality, Word(2), Tpm2bName,
           Tpm2bName, Tpm2bData>>)
Tpm2bCreationData == Blob(TpmsCreationData.size)
TpmtTkCreation == Struct(<<Word(2), TpmiRhHierarchy, Tpm2bDigest>>)
-----------------------------------------------------------------------------
(* Commands and responses.                                                 *)

StartupCmd == Struct(<<U16Word>>)
GetRandomCmd == Struct(<<U16Word>>)
GetRandomResp == Struct(<<Tpm2bDigest>>)
GetCapabilityCmd == Struct(<<Word(4), Word(4), U32Word>>)
GetCapabilityResp == Struct(<<TpmiYesNo, TpmsCapabilityData>>)
PcrReadCmd == Struct(<<TpmlPcrSelection>>)
PcrReadResp == Struct(<<U32Word, TpmlPcrSelection, TpmlDigest>>)
CreatePrimaryCmd ==
  Struct(<<Tpm2bSensitiveCreate, Tpm2bPublic, Tpm2bData, TpmlPcrSelection>>)
CreatePrimaryResp ==
  Struct(<<Tpm2bPublic, Tpm2bCreationData, Tpm2bDigest, TpmtTkCreation,
           Tpm2bName>>)
\* TpmuEncryptedSecret: a point, an RSA key, or what a digest takes up.
Tpm2bEncryptedSecret ==
  Blob(UnionSize(<<Bytes(TpmsEccPoint.size), Bytes(MaxRsaKeyBytes),
                   Bytes(Tpm2bDigest.size)>>))
StartAuthSessionCmd ==
  Struct(<<Tpm2bDigest, Tpm2bEncryptedSecret, Word(1), TpmtSymDefObject,
           TpmiAlgHash>>)
StartAuthSessionHandles == Struct(<<TpmHandle, TpmHandle>>)
StartAuthSessionResp == Struct(<<Tpm2bDigest>>)
=============================================================================
