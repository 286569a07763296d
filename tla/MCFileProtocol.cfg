\* Two URLContexts and another thread share two descriptors, on a kernel
\* that keeps the descriptor open when close() fails with EINTR.
CONSTANTS
  h1 = h1
  h2 = h2
  t1 = t1
  Contexts <- MCContexts
  Others <- MCOthers
  Fds <- MCFds
  CloseReleasesOnEINTR = FALSE
  MaxSignals = 2
SYMMETRY Symmetry
SPECIFICATION Spec
INVARIANT TypeOK
INVARIANT DescriptorsStayWithOwner
