\* The same process on Linux, where close() has released the descriptor
\* when it fails with EINTR.
CONSTANTS
  h1 = h1
  h2 = h2
  t1 = t1
  Contexts <- MCContexts
  Others <- MCOthers
  Fds <- MCFds
  CloseReleasesOnEINTR = TRUE
  MaxSignals = 1
SPECIFICATION Spec
INVARIANT DescriptorsStayWithOwner
