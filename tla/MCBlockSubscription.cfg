\* Two providers, a chain of three blocks and three runs of the retryable
\* listener.  Deadlock is not checked: once retry_function gives up,
\* listen_new_blocks returns and the batcher stops listening for blocks.
CONSTANTS
  Primary = Primary
  Fallback = Fallback
  Streams <- MCStreams
  MaxBlock = 3
  MaxReconnects = 3
SPECIFICATION Spec
INVARIANT HandledAtMostOncePerRun
PROPERTY AnnouncedBlockHandled
CHECK_DEADLOCK FALSE
