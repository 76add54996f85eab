\* Three descriptors: one may be lost or listen while another is worked on.
\* Two addresses, so that a helper goes on to the next and comes to the end.
CONSTANTS
    MaxFds = 3
    MaxAddrs = 2
    MaxCount = 3
SPECIFICATION Spec
INVARIANTS TypeOK DescriptorsAccounted ListsFreed CallerTold
PROPERTIES ReturnsAsAsked
