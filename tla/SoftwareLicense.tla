-------------------------- MODULE SoftwareLicense --------------------------
(***************************************************************************)
(* SoftwareLicense::start, on the main thread, and the calls of the        *)
(* LexActivator library it makes.  The library is a prebuilt binary; its   *)
(* header says which call must come before which, and which codes a call   *)
(* may return.                                                             *)
(*                                                                         *)
(* lic_pc, where start() is: "parse", the name of the library function     *)
(* that is called next, "accepted" (it returns true) or "refused" (false). *)
(***************************************************************************)
VARIABLES
    lic_pc,
    done,    \* the library functions that returned LA_OK
    status,  \* the code returned last
    fault    \* a file is missing or wrong, or the library refused something
             \* for another reason than the order of the calls

vars == <<lic_pc, done, status, fault>>

\* The library functions that start() calls.
Calls == {"SetProductFile", "SetProductId", "SetReleasePlatform", "SetReleaseChannel",
          "SetReleaseVersion", "SetLicenseKey", "SetActivationMetadata", "ActivateLicense"}

Init ==
    /\ lic_pc = "parse"
    /\ done = {}
    /\ status = "LA_OK"
    /\ fault = FALSE

-----------------------------------------------------------------------------
(* The library.                                                            *)

\* What a call answers when one that must precede it has not been made.
OutOfOrder(function) ==
    IF function # "SetProductFile" /\ "SetProductFile" \notin done THEN {"LA_E_PRODUCT_FILE"}
    ELSE IF function \notin {"SetProductFile", "SetProductId"} /\ "SetProductId" \notin done
      THEN {"LA_E_PRODUCT_ID"}
    ELSE IF function \in {"SetActivationMetadata", "ActivateLicense"} /\ "SetLicenseKey" \notin done
      THEN {"LA_E_LICENSE_KEY"}
    ELSE {}

\* A library function is called, which may refuse with one of some codes; at
\* the first refusal start() returns false.
Call(function, refusals, next) ==
    /\ lic_pc = function
    /\ status' \in IF OutOfOrder(function) # {} THEN OutOfOrder(function) ELSE {"LA_OK"} \cup refusals
    /\ lic_pc' = IF status' = "LA_OK" THEN next ELSE "refused"
    /\ done' = IF status' = "LA_OK" THEN done \cup {function} ELSE done
    /\ fault' = (status' # "LA_OK" /\ OutOfOrder(function) = {})

SetProductFile(next) ==
    Call("SetProductFile", {"LA_E_FILE_PATH", "LA_E_PRODUCT_FILE"}, next)

SetProductId(next) ==
    Call("SetProductId", {"LA_E_WMIC", "LA_E_PRODUCT_FILE", "LA_E_PRODUCT_DATA", "LA_E_PRODUCT_ID"}, next)

SetReleasePlatform(next) == Call("SetReleasePlatform", {"LA_E_RELEASE_PLATFORM_LENGTH"}, next)

SetReleaseChannel(next) == Call("SetReleaseChannel", {"LA_E_RELEASE_CHANNEL_LENGTH"}, next)

SetReleaseVersion(next) == Call("SetReleaseVersion", {"LA_E_RELEASE_VERSION_FORMAT"}, next)

SetLicenseKey(next) == Call("SetLicenseKey", {"LA_E_LICENSE_KEY"}, next)

SetActivationMetadata(next) ==
    Call("SetActivationMetadata",
         {"LA_E_METADATA_KEY_LENGTH", "LA_E_METADATA_VALUE_LENGTH", "LA_E_ACTIVATION_METADATA_LIMIT"},
         next)

\* It asks the server of the vendor: LA_E_INET when there is no network.  The
\* other refusals are one to start(), LA_FAIL stands for them.
ActivateLicense(next) ==
    Call("ActivateLicense", {"LA_EXPIRED", "LA_SUSPENDED", "LA_FAIL", "LA_E_INET"}, next)

-----------------------------------------------------------------------------
(* SoftwareLicense.                                                        *)

\* security.json and license.dat are there and can be read, or not.
ParseConfigs ==
    /\ lic_pc = "parse"
    /\ fault' \in BOOLEAN
    /\ lic_pc' = IF fault' THEN "refused" ELSE "SetProductFile"
    /\ UNCHANGED <<done, status>>

\* init().
InitLibrary == SetProductFile("SetProductId") \/ SetProductId("SetReleasePlatform")

\* Mutant: the release has no version.
SetReleaseParamsShort ==
    SetReleasePlatform("SetReleaseChannel") \/ SetReleaseChannel("SetLicenseKey")

\* setReleaseParams().
SetReleaseParams ==
    \/ SetReleasePlatform("SetReleaseChannel")
    \/ SetReleaseChannel("SetReleaseVersion")
    \/ SetReleaseVersion("SetLicenseKey")

\* Mutant: the metadata comes before the key.
ActivateEarly ==
    \/ lic_pc = "SetLicenseKey" /\ lic_pc' = "SetActivationMetadata" /\ UNCHANGED <<done, status, fault>>
    \/ SetActivationMetadata("ActivateLicense")
    \/ ActivateLicense("accepted")

\* activate().
Activate ==
    \/ SetLicenseKey("SetActivationMetadata")
    \/ SetActivationMetadata("ActivateLicense")
    \/ ActivateLicense("accepted")

Next == ParseConfigs \/ InitLibrary \/ SetReleaseParams \/ Activate

Spec == Init /\ [][Next]_vars
=============================================================================
