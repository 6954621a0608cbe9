------------------------------ MODULE TlsFiles ------------------------------
(***************************************************************************)
(* The certificate, key and revocation list of a virtual host on disk, and  *)
(* the copies the processes work with: sec-mod's private key (load_keys),   *)
(* main's credentials (tls_load_files, tls_reload_crl) and the snapshot of   *)
(* the certificate that every worker loads (snapshot.c, parse_cfg_file).     *)
(* The administrator rewrites the files in place, at any time.  File times   *)
(* and time(NULL) are in whole seconds.                                      *)
(***************************************************************************)
EXTENDS Integers

CONSTANTS MaxRenewals,  \* bound on the versions of each file
          MaxSeconds    \* bound on the clock

VARIABLES
  tfFile,    \* on disk: version, modification time, whether completely written
  tfNow,     \* the clock, in seconds
  tfKey,     \* sec-mod: the key it signs with, and cert_last_access
  tfCert,    \* main: the certificate of its credentials, and params_last_access
  tfCrl,     \* main: the revocation list of its credentials, and crl_last_access
  tfSnap,    \* the snapshot of the certificate file
  tfPhase,   \* "idle", or "main" between secmod_reload and main's own reload
  tfCalm,    \* nothing was written since the last reload began (history)
  tfUp,      \* main runs
  tfWorker   \* the worker in its handshake: the certificate it presents or None, and whether
             \* it started since the last reload (history)

tfvars == <<tfFile, tfNow, tfKey, tfCert, tfCrl, tfSnap, tfPhase, tfCalm, tfUp, tfWorker>>

Names == {"cert", "key", "crl"}
Partial == -1  \* content that does not parse
None == -2
NoWorker == [cert |-> None, since |-> FALSE]

Content(n) == IF tfFile[n].whole THEN tfFile[n].ver ELSE Partial

----------------------------- (* administrator *) ---------------------------
TfTick == /\ tfNow < MaxSeconds /\ tfNow' = tfNow + 1
          /\ UNCHANGED <<tfFile, tfKey, tfCert, tfCrl, tfSnap, tfPhase, tfCalm, tfUp, tfWorker>>

\* A file is opened for writing; later its new version is complete.
TfWrite(n) ==
  /\ \/ tfFile[n].whole /\ tfFile[n].ver < MaxRenewals
        /\ tfFile' = [tfFile EXCEPT ![n] = [ver |-> @.ver, stamp |-> tfNow, whole |-> FALSE]]
     \/ ~tfFile[n].whole
        /\ tfFile' = [tfFile EXCEPT ![n] = [ver |-> @.ver + 1, stamp |-> tfNow, whole |-> TRUE]]
  /\ tfCalm' = FALSE
  /\ UNCHANGED <<tfNow, tfKey, tfCert, tfCrl, tfSnap, tfPhase, tfUp, tfWorker>>

-------------------------------- (* sec-mod *) ------------------------------
\* need_file_reload: it was modified after it was last read.
need_file_reload(n, read) == tfFile[n].stamp > read

\* read_private_key: a key that cannot be read on a reload leaves the one in use.
read_private_key(key) == IF tfFile["key"].whole THEN tfFile["key"].ver ELSE key

\* load_keys(sec, 0): the time is noted before the file is read, and whether or not it can be.
load_keys ==
  tfKey' = IF need_file_reload("key", tfKey.read)
           THEN [ver |-> read_private_key(tfKey.ver), read |-> tfNow] ELSE tfKey

\* reload_sig_watcher_cb, first part: sec-mod reloads (reload_server).
TfReloadSecMod ==
  /\ tfUp /\ tfPhase = "idle" /\ load_keys
  /\ tfPhase' = "main" /\ tfCalm' = TRUE
  /\ tfWorker' = [tfWorker EXCEPT !.since = FALSE]
  /\ UNCHANGED <<tfFile, tfNow, tfCert, tfCrl, tfSnap, tfUp>>

--------------------------------- (* main *) --------------------------------
\* load_cert_files: the chain of the file; the key is a reference to sec-mod's.
load_cert_files == Content("cert")

\* tls_load_files
tls_load_files ==
  IF need_file_reload("cert", tfCert.read) THEN [ver |-> load_cert_files, read |-> tfNow] ELSE tfCert

\* Mutant: the time is noted, the list is not read.
CrlOnlyStamped(force) == [ver |-> tfCrl.ver, read |-> tfNow]

\* tls_reload_crl
tls_reload_crl(force) ==
  IF force \/ need_file_reload("crl", tfCrl.read) THEN [ver |-> Content("crl"), read |-> tfNow] ELSE tfCrl

\* snapshot_create: the file as it is now replaces its earlier copy.
snapshot_create == Content("cert")

\* reload_cfg_file and parse_cfg_file in main.  A certificate or a list that cannot be read ends it.
TfReloadMain ==
  /\ tfUp /\ tfPhase = "main"
  /\ tfSnap' = snapshot_create
  /\ tfCert' = tls_load_files
  /\ tfCrl' = IF tls_load_files.ver = Partial THEN tfCrl ELSE tls_reload_crl(TRUE)
  /\ tfUp' = (tls_load_files.ver # Partial /\ tls_reload_crl(TRUE).ver # Partial)
  /\ tfPhase' = "idle"
  /\ UNCHANGED <<tfFile, tfNow, tfKey, tfCalm, tfWorker>>

\* perform_maintenance
TfMaintenance ==
  /\ tfUp /\ tfPhase = "idle" /\ need_file_reload("crl", tfCrl.read)
  /\ tfCrl' = tls_reload_crl(FALSE)
  /\ tfUp' = (tls_reload_crl(FALSE).ver # Partial)
  /\ UNCHANGED <<tfFile, tfNow, tfKey, tfCert, tfSnap, tfPhase, tfCalm, tfWorker>>

-------------------------------- (* worker *) -------------------------------
\* The entry main's table had when the worker was started (snapshot_next, snapshot_restore_entry,
\* snapshot_lookup_filename)
WorkerLoads == tfSnap

\* A worker starts and loads the snapshot of the certificate; it ends on a partial one.
TfAccept ==
  /\ tfUp /\ tfPhase = "idle" /\ tfWorker = NoWorker /\ tfSnap # Partial
  /\ tfWorker' = [cert |-> WorkerLoads, since |-> TRUE]
  /\ UNCHANGED <<tfFile, tfNow, tfKey, tfCert, tfCrl, tfSnap, tfPhase, tfCalm, tfUp>>

\* process_worker_packet, CMD_SEC_SIGN_*: sec-mod signs with the key of that index it has now.
SignsWith == tfKey.ver

\* Its handshake asks for a signature (key_cb_common_func).
TfSign ==
  /\ tfWorker # NoWorker /\ tfWorker' = NoWorker
  /\ UNCHANGED <<tfFile, tfNow, tfKey, tfCert, tfCrl, tfSnap, tfPhase, tfCalm, tfUp>>

TfInit ==
  /\ tfFile = [n \in Names |-> [ver |-> 0, stamp |-> 0, whole |-> TRUE]] /\ tfNow = 1
  /\ tfKey = [ver |-> 0, read |-> 1] /\ tfCert = [ver |-> 0, read |-> 1] /\ tfCrl = [ver |-> 0, read |-> 1]
  /\ tfSnap = 0 /\ tfPhase = "idle" /\ tfCalm = TRUE /\ tfUp = TRUE /\ tfWorker = NoWorker

TfNext ==
  \/ TfTick \/ (\E n \in Names : TfWrite(n))
  \/ TfReloadSecMod \/ TfReloadMain \/ TfMaintenance \/ TfAccept \/ TfSign

\* A reload once begun and the maintenance timer go on.
TfFair == WF_tfvars(TfReloadMain) /\ WF_tfvars(TfMaintenance)

------------------------------ (* properties *) -----------------------------
\* After a reload during which nobody wrote to the files, the certificate the workers present and
\* the key sec-mod signs with are those on disk, unless the key file was written in the very
\* second sec-mod last read it (load_keys, need_file_reload, snapshot_create).
ReloadServesFiles ==
  tfUp /\ tfPhase = "idle" /\ tfCalm /\ tfFile["cert"].whole /\ tfFile["key"].whole =>
    /\ tfSnap = tfFile["cert"].ver
    /\ tfKey.ver = tfFile["key"].ver \/ tfFile["key"].stamp = tfKey.read

\* sec-mod always has a complete key, also when a reload finds the file half written
\* (read_private_key, CHECK_LOOP_ERR).
KeyNeverLost == tfKey.ver # Partial

\* A worker started after such a reload presents the certificate of the renewal whose key signs
\* for it, unless the two files on disk are of different renewals (replace_file_with_snapshot,
\* key_cb_common_func).
SignatureFits ==
  (/\ tfWorker # NoWorker /\ tfWorker.since /\ tfCalm
   /\ tfFile["cert"].whole /\ tfFile["key"].whole /\ tfFile["cert"].ver = tfFile["key"].ver
   /\ tfFile["key"].stamp # tfKey.read)
  => tfWorker.cert = SignsWith

CrlServed == ~tfUp \/ tfCrl.ver = tfFile["crl"].ver
CrlDue == tfUp /\ tfFile["crl"].whole /\ tfCrl.ver # tfFile["crl"].ver /\ tfFile["crl"].stamp > tfCrl.read

\* doc/sample.config:370, "The CRL will be reloaded periodically when ocserv detects a change": a
\* list written after the second it was last read is loaded without a signal, or rewritten again,
\* or main ended (perform_maintenance, tls_reload_crl).
CrlFollowsFile == CrlDue ~> (CrlServed \/ ~tfFile["crl"].whole)

CertServed == ~tfUp \/ tfSnap = tfFile["cert"].ver \/ ~tfFile["cert"].whole

\* doc/sample.config:164, "The certificate files will be reloaded when changed allowing for in-place
\* certificate renewal (they are checked and reloaded periodically": without a signal too.
CertFollowsFile == (tfUp /\ tfFile["cert"].whole) ~> CertServed

\* The files that are served are the ones on disk once they have been reloaded, a certificate
\* with its own key, through any order of renewals, reloads and new workers (tlslib.c:683-1018).
FilesServed == [](ReloadServesFiles /\ KeyNeverLost /\ SignatureFits) /\ CrlFollowsFile
=============================================================================
