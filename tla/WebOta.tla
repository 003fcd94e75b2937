-------------------------------- MODULE WebOta --------------------------------
(****************************************************************************)
(* POST /update (net/web_ota.cpp): the upload handler, the completion       *)
(* handler and the three module flags that outlive a request, over the       *)
(* Update engine.  WebServer parses one request at a time and delivers, for  *)
(* each file part of a multipart body, START, some WRITEs and END; a lost    *)
(* connection delivers ABORTED instead and then the completion handler does  *)
(* not run; a request without a body runs the completion handler only.       *)
(* Update and WebServer are libraries: they are modelled from what the       *)
(* handlers rely on, `_size > 0` (isRunning), `_error` (hasError) and the    *)
(* order of the callbacks.                                                   *)
(****************************************************************************)
EXTENDS Integers

CONSTANTS kParts   \* bound: file parts in one request

ASSUME PartsAssumption == kParts \in Nat \ {0}

VARIABLES
  g_authorized, g_failed,     \* the module's flags
  engine,                     \* Update: "idle" or "open" (isRunning)
  engine_error,               \* Update.hasError()
  request,                    \* "none", "between" parts, "part", "rebooting"
  token,                      \* this request presented the device's token
  parts,                      \* file parts still to come
  reply                       \* the last answer: "none", 200, 403 or 500

web_vars == <<g_authorized, g_failed, engine, engine_error, request, token, parts, reply>>

OtaHandlerTypeOK ==
  /\ g_authorized \in BOOLEAN /\ g_failed \in BOOLEAN
  /\ engine_error \in BOOLEAN /\ token \in BOOLEAN
  /\ engine \in {"idle", "open"}
  /\ request \in {"none", "between", "part", "rebooting"}
  /\ parts \in 0 .. kParts
  /\ reply \in {"none", "200", "403", "500", "dropped"}
  /\ request = "rebooting" => reply = "200" /\ engine = "idle" /\ ~g_authorized

WebInit ==
  /\ g_authorized = FALSE /\ g_failed = FALSE
  /\ engine = "idle" /\ engine_error = FALSE
  /\ request = "none" /\ token = FALSE /\ parts = 0
  /\ reply = "none"

flags     == <<g_authorized, g_failed>>
engine_st == <<engine, engine_error>>

(* A request arrives, with or without the token, with some number of parts. *)
Request ==
  /\ request = "none"
  /\ request' = "between" /\ token' \in BOOLEAN /\ parts' \in 0 .. kParts
  /\ reply' = "none"
  /\ UNCHANGED <<flags, engine_st>>

-----------------------------------------------------------------------------
(* UPLOAD_FILE_START.  begin() refuses, without setting the error, when the *)
(* engine is open; it may also fail with an error of its own.               *)
Start ==
  /\ request = "between" /\ parts > 0
  /\ request' = "part" /\ parts' = parts - 1
  /\ g_authorized' = token
  /\ IF token
     THEN \/ /\ engine' = "open" /\ engine_error' = FALSE /\ g_failed' = FALSE
          \/ /\ engine' = "idle" /\ engine_error' = TRUE  /\ g_failed' = TRUE
     ELSE /\ g_failed' = FALSE
          /\ UNCHANGED <<engine, engine_error>>
  /\ UNCHANGED <<token, reply>>

(* UPLOAD_FILE_WRITE: a short write fails the stream and stays failed.      *)
Write ==
  /\ request = "part"
  /\ g_authorized /\ ~g_failed
  /\ \/ UNCHANGED <<g_failed, engine, engine_error>>
     \/ g_failed' = TRUE /\ engine_error' = TRUE /\ engine' \in {"idle", "open"}
  /\ UNCHANGED <<g_authorized, request, token, parts, reply>>

(* UPLOAD_FILE_END: end(true) validates the image and selects its           *)
(* partition, or rejects it.  A failed or unauthorized stream is left alone. *)
End ==
  /\ request = "part"
  /\ request' = "between"
  /\ IF g_authorized /\ ~g_failed
     THEN \/ engine' = "idle" /\ UNCHANGED <<g_failed, engine_error>>
          \/ engine' = "idle" /\ engine_error' = TRUE /\ g_failed' = TRUE
     ELSE UNCHANGED <<g_failed, engine_st>>
  /\ UNCHANGED <<g_authorized, token, parts, reply>>

(* This END leaves a complete image behind.                                 *)
ImageAccepted == g_authorized /\ ~g_failed /\ ~g_failed'

reset_stream ==
  /\ engine' = "idle"
  /\ g_authorized' = FALSE /\ g_failed' = TRUE

(* UPLOAD_FILE_ABORTED: the request ends here, without handle_done.         *)
Aborted ==
  /\ request = "part"
  /\ reset_stream
  /\ request' = "none" /\ reply' = "dropped"
  /\ UNCHANGED <<engine_error, token, parts>>

-----------------------------------------------------------------------------
StreamFailed == g_failed \/ engine_error \/ engine = "open"

(* handle_done, at the end of a request whose body was read to its end.     *)
handle_done ==
  /\ request = "between" /\ parts = 0
  /\ g_authorized' = FALSE /\ g_failed' = FALSE
  /\ \/ /\ ~g_authorized
        /\ reply' = "403" /\ request' = "none"
        /\ UNCHANGED engine
     \/ /\ g_authorized /\ StreamFailed
        /\ reply' = "500" /\ request' = "none"
        /\ engine' = "idle"
     \/ /\ g_authorized /\ ~StreamFailed
        /\ reply' = "200" /\ request' = "rebooting"
        /\ UNCHANGED engine
  /\ UNCHANGED <<engine_error, token, parts>>

(* A restart, the one that ends an accepted request or any other: RAM and   *)
(* the engine start over.                                                   *)
WebStartsOver ==
  /\ g_authorized' = FALSE /\ g_failed' = FALSE
  /\ engine' = "idle" /\ engine_error' = FALSE
  /\ request' = "none" /\ token' = FALSE /\ parts' = 0
  /\ reply' = "none"

-----------------------------------------------------------------------------
(* Properties.                                                              *)

(* No request reboots the board unless that very request presented the      *)
(* token, whatever earlier uploads left behind.                             *)
RebootNeedsToken == request = "rebooting" => token
=============================================================================
