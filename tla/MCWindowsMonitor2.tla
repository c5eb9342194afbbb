------------------------- MODULE MCWindowsMonitor2 -------------------------
EXTENDS WindowsMonitor2, TLC

CONSTANTS s1, s2, t0, t2, t3, t4, sys, usr, q, h1, nt, da, db

\* t0 is a thread of the System process and never leaves the kernel; t2
\* and t3 are threads of a user process started before the driver, t4 the
\* thread of the process q the guest creates.
MCThreadPid == (t0 :> sys @@ t2 :> usr @@ t3 :> usr @@ t4 :> q)

MCUserThreads == {t2, t3, t4}

\* The kernel image is the boot entry of the module list; da imports it,
\* db imports both.
MCBootDrivers == <<nt>>
MCImports == (nt :> {} @@ da :> {nt} @@ db :> {nt, da})

=============================================================================
